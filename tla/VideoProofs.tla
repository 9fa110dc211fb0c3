----------------------------- MODULE VideoProofs -----------------------------
(***************************************************************************)
(* Theorems about what a task of the provider leaves behind: VideoJobs,    *)
(* for any videos, pollers and rounds of the maintenance loop, and in      *)
(* sections of their own Artifacts (Shelf) and Pictures (Show).            *)
(*                                                                         *)
(* A bill is decided by a poll that knows the provider's answer and a copy *)
(* of the row, both read earlier.  ChargedForResult and FinishedIsBilled   *)
(* hold because an answer that is not "queued" is final (Heard), because a *)
(* poll whose copy of the row is linked has closed the bill before it      *)
(* touches the row (Dealt), because a closed bill stays closed, and because*)
(* whoever finishes a row without a bill is noted (early).                 *)
(***************************************************************************)
EXTENDS VideoJobs, SequenceTheorems, FiniteSetTheorems, TLAPS

\* What the place of the request says about the video, its bill and its row.
Waiting ==
  \A v \in Videos :
    /\ call[v] \in {"new", "submit"} => render[v] = "none"
    /\ call[v] \in {"insert", "link", "finish"} => render[v] # "none"
    /\ bill[v] = "none" <=> call[v] = "new"
    /\ bill[v] = "reserved" => call[v] \notin {"new", "over"}
    /\ bill[v] = "pending" => call[v] = "over"

Rows ==
  \A x \in DOMAIN jobs :
    call[jobs[x].video] \in {"link", "finish", "over"} /\ render[jobs[x].video] # "none"

\* A copy of a row that is to be polled is of a video that the provider has.
Copied(row) == render[row.video] # "none"

\* What a poll has heard is final.
Heard(p) ==
  /\ poll[p].pc = "fetch" => poll[p].result = "queued"
  /\ poll[p].result # "queued" => render[poll[p].row.video] = poll[p].result

\* A poll that has dealt with a bill finds it closed.
Closed(v) == bill[v] \in {"settled", "released"}
Dealt(p) ==
  poll[p].pc = "touch" /\ poll[p].result = "completed" /\ poll[p].row.video \in Timed
    /\ poll[p].row.linked => Closed(poll[p].row.video)

Known ==
  /\ \A p \in Polls : poll[p].pc # "idle" => Copied(poll[p].row) /\ Heard(p) /\ Dealt(p)
  /\ \A i \in DOMAIN round : Copied(round[i])

Finished ==
  \A x \in DOMAIN jobs :
    jobs[x].status = "completed" /\ jobs[x].video \in Timed /\ jobs[x].video \notin early => Closed(jobs[x].video)

VInv == TypeOK /\ Waiting /\ Rows /\ Known /\ Finished /\ ChargedForResult

-----------------------------------------------------------------------------
(* The rows of video_jobs.                                                 *)

RowTypes == {"queued", "completed", "failed"}

\* Each row has its place, and each of its fields a value.
LEMMA RowFacts ==
  ASSUME TypeOK, NEW x \in DOMAIN jobs
  PROVE  /\ jobs[x] \in Row /\ jobs[x].video \in Videos
         /\ jobs[x].linked \in BOOLEAN /\ jobs[x].status \in RowTypes
<1>1. jobs[x] \in Row
  BY DEF TypeOK
<1>. QED  BY <1>1 DEF Row, RowTypes

\* A field of one video's row is set: the others are as they were.
LEMMA StatusRows ==
  ASSUME TypeOK, NEW v, NEW value \in RowTypes
  PROVE  /\ With(v, "status", value) \in Seq(Row)
         /\ DOMAIN With(v, "status", value) = DOMAIN jobs
         /\ \A x \in DOMAIN jobs :
              /\ With(v, "status", value)[x].video = jobs[x].video
              /\ jobs[x].video # v => With(v, "status", value)[x] = jobs[x]
              /\ With(v, "status", value)[x].linked = jobs[x].linked
              /\ jobs[x].video = v => With(v, "status", value)[x].status = value
<1>1. \A x \in DOMAIN jobs : jobs[x] \in Row
  BY DEF TypeOK
<1>2. \A x \in DOMAIN jobs : [jobs[x] EXCEPT !["status"] = value] \in Row
  BY <1>1 DEF Row, RowTypes
<1>3. DOMAIN jobs = 1..Len(jobs) /\ Len(jobs) \in Nat
  BY DEF TypeOK
<1>4. \A x \in 1..Len(jobs) : With(v, "status", value)[x] \in Row
  BY <1>1, <1>2, <1>3 DEF With
<1>5. With(v, "status", value) \in Seq(Row)
  BY <1>3, <1>4 DEF With
<1>6. \A x \in DOMAIN jobs : DOMAIN jobs[x] = {"video", "status", "linked"}
  BY <1>1 DEF Row
<1>. QED  BY <1>3, <1>5, <1>6 DEF With

\* A function on 1..n is a sequence.
LEMMA FunctionIsSeq ==
  ASSUME NEW S, NEW n \in Nat, NEW f, \A i \in 1..n : f[i] \in S
  PROVE  [i \in 1..n |-> f[i]] \in Seq(S)
OBVIOUS

LEMMA LinkedRows ==
  ASSUME TypeOK, NEW v, jobs' = With(v, "linked", TRUE)
  PROVE  /\ jobs' \in Seq(Row) /\ DOMAIN jobs' = DOMAIN jobs
         /\ \A x \in DOMAIN jobs : /\ jobs'[x].video = jobs[x].video /\ jobs'[x].status = jobs[x].status
                                   /\ jobs[x].video # v => jobs'[x] = jobs[x]
<1>1. \A x \in DOMAIN jobs : jobs[x] \in Row
  BY DEF TypeOK
<1>2. \A x \in DOMAIN jobs : [jobs[x] EXCEPT !["linked"] = TRUE] \in Row
  BY <1>1 DEF Row
<1>3. DOMAIN jobs = 1..Len(jobs) /\ Len(jobs) \in Nat
  BY DEF TypeOK
<1>4. jobs' = [x \in DOMAIN jobs |-> IF jobs[x].video = v THEN [jobs[x] EXCEPT !["linked"] = TRUE] ELSE jobs[x]]
  BY DEF With
<1>5. jobs' \in Seq(Row)
  <2>1. \A x \in 1..Len(jobs) : jobs'[x] \in Row
    BY <1>1, <1>2, <1>3, <1>4
  <2>2. jobs' = [x \in 1..Len(jobs) |-> jobs'[x]]
    BY <1>3, <1>4
  <2>3. [x \in 1..Len(jobs) |-> jobs'[x]] \in Seq(Row)
    BY <1>3, <2>1, FunctionIsSeq
  <2>. QED  BY <2>2, <2>3, Zenon
<1>6. \A x \in DOMAIN jobs : DOMAIN jobs[x] = {"video", "status", "linked"}
  BY <1>1 DEF Row
<1>. QED  BY <1>4, <1>5, <1>6

\* A row is appended, or taken out: the others are as they were.
LEMMA AppendRows ==
  ASSUME TypeOK, NEW row \in Row
  PROVE  /\ Append(jobs, row) \in Seq(Row)
         /\ DOMAIN Append(jobs, row) = DOMAIN jobs \cup {Len(jobs) + 1}
         /\ \A x \in DOMAIN jobs : Append(jobs, row)[x] = jobs[x]
         /\ Append(jobs, row)[Len(jobs) + 1] = row
BY AppendProperties DEF TypeOK

LEMMA RemoveRows ==
  ASSUME TypeOK, NEW i \in DOMAIN jobs
  PROVE  /\ RemoveAt(jobs, i) \in Seq(Row)
         /\ \A x \in DOMAIN RemoveAt(jobs, i) :
              LET y == IF x < i THEN x ELSE x + 1
              IN  y \in DOMAIN jobs /\ RemoveAt(jobs, i)[x] = jobs[y]
<1>. DEFINE a == SubSeq(jobs, 1, i - 1)
            b == SubSeq(jobs, i + 1, Len(jobs))
<1>1. jobs \in Seq(Row) /\ Len(jobs) \in Nat /\ i \in 1..Len(jobs) /\ DOMAIN jobs = 1..Len(jobs)
  BY DEF TypeOK
<1>2. a \in Seq(Row) /\ Len(a) = i - 1 /\ \A x \in 1..(i - 1) : a[x] = jobs[x]
  BY <1>1
<1>3. b \in Seq(Row) /\ Len(b) = Len(jobs) - i /\ \A x \in 1..(Len(jobs) - i) : b[x] = jobs[x + i]
  BY <1>1
<1>4. RemoveAt(jobs, i) = a \o b
  BY DEF RemoveAt
<1>. HIDE DEF a, b
<1>5. /\ a \o b \in Seq(Row) /\ Len(a \o b) = Len(jobs) - 1
      /\ \A x \in 1..(Len(jobs) - 1) : (a \o b)[x] = IF x <= i - 1 THEN a[x] ELSE b[x - (i - 1)]
  <2>1. /\ a \o b \in Seq(Row) /\ Len(a \o b) = Len(a) + Len(b)
        /\ \A x \in 1..(Len(a) + Len(b)) : (a \o b)[x] = IF x <= Len(a) THEN a[x] ELSE b[x - Len(a)]
    BY <1>2, <1>3, ConcatProperties
  <2>. QED  BY <1>1, <1>2, <1>3, <2>1
<1>6. ASSUME NEW x \in 1..(Len(jobs) - 1)
      PROVE  LET y == IF x < i THEN x ELSE x + 1 IN y \in 1..Len(jobs) /\ (a \o b)[x] = jobs[y]
  <2>1. CASE x < i
    BY <1>1, <1>2, <1>5, <2>1
  <2>2. CASE ~(x < i)
    <3>. DEFINE y == x - (i - 1)
    <3>1. y \in 1..(Len(jobs) - i) /\ y + i = x + 1 /\ ~(x <= i - 1) /\ x + 1 \in 1..Len(jobs)
      BY <1>1, <2>2
    <3>2. (a \o b)[x] = b[y]
      BY <1>5, <3>1
    <3>. HIDE DEF y
    <3>3. b[y] = jobs[y + i]
      BY <1>3, <3>1
    <3>. QED  BY <2>2, <3>1, <3>2, <3>3
  <2>. QED  BY <2>1, <2>2
<1>. QED  BY <1>1, <1>4, <1>5, <1>6

-----------------------------------------------------------------------------
(* The steps.                                                              *)

LEMMA VInit == LimitAssumption /\ Init => VInv
<1>. SUFFICES ASSUME LimitAssumption, Init PROVE VInv
  OBVIOUS
<1>1. \E row : row \in Row
  <2>1. PICK v : v \in Videos
    BY DEF LimitAssumption
  <2>. QED  BY <2>1, [video |-> v, status |-> "queued", linked |-> FALSE] \in Row DEF Row
<1>2. Rest.row \in Row /\ Rest.pc = "idle" /\ Rest.result = "queued"
  BY <1>1 DEF Rest
<1>3. Rest \in [pc : {"idle", "fetch", "settle", "touch"}, row : Row, result : RowTypes]
  BY <1>2 DEF Rest, RowTypes
<1>4. jobs = <<>> /\ round = <<>> /\ DOMAIN jobs = {} /\ DOMAIN round = {} /\ Len(round) = 0
  BY DEF Init
<1>5. TypeOK
  BY <1>3, <1>4 DEF LimitAssumption, Init, TypeOK, RowTypes
<1>6. Waiting /\ Rows /\ Known /\ Finished /\ ChargedForResult
  BY <1>2, <1>4 DEF Init, Waiting, Rows, Known, Finished, ChargedForResult
<1>. QED  BY <1>5, <1>6 DEF VInv

\* A step of one request and its bill: what was heard is final, because only the
\* request that submits a video has the provider begin, and a closed bill stays
\* closed.
LEMMA RequestStep ==
  ASSUME VInv, NEW v \in Videos, NEW place, NEW state,
         call' = [call EXCEPT ![v] = place], bill' = [bill EXCEPT ![v] = state],
         UNCHANGED <<jobs, poll, round, account, early>>,
         \/ place \in {call[v], "over"} /\ render' = render
         \/ call[v] = "new" /\ place = "submit" /\ render' = render
         \/ call[v] = "submit" /\ place = "insert" /\ \E r \in RowTypes : render' = [render EXCEPT ![v] = r],
         place # "new", state \in {"reserved", "pending", "settled", "released"},
         Closed(v) => state = bill[v], state = "settled" => bill[v] = "settled",
         state = "reserved" => place \notin {"new", "over"}, state = "pending" => place = "over"
  PROVE  VInv'
<1>. USE DEF VInv
<1>1. /\ call' \in [Videos -> {"new", "submit", "insert", "link", "finish", "over"}]
      /\ bill' \in [Videos -> {"none", "reserved", "pending", "settled", "released"}]
      /\ call'[v] = place /\ bill'[v] = state
      /\ \A w \in Videos \ {v} : call'[w] = call[w] /\ bill'[w] = bill[w] /\ render'[w] = render[w]
  BY DEF TypeOK
<1>2. render' \in [Videos -> {"none", "queued", "completed", "failed"}]
  BY DEF TypeOK, RowTypes
<1>3. TypeOK'
  BY <1>1, <1>2 DEF TypeOK
<1>4. Waiting'
  <2>1. \A w \in Videos \ {v} : /\ call'[w] = call[w] /\ bill'[w] = bill[w] /\ render'[w] = render[w]
    BY <1>1
  <2>2. /\ place \in {"new", "submit"} => render'[v] = "none"
        /\ place \in {"insert", "link", "finish"} => render'[v] # "none"
    BY DEF Waiting, TypeOK, RowTypes
  <2>. QED  BY <1>1, <2>1, <2>2 DEF Waiting
<1>5. \A w \in Videos : render[w] # "none" => render'[w] = render[w]
  BY <1>1 DEF Waiting
<1>6. \A w \in Videos : bill[w] \in {"settled", "released"} => bill'[w] = bill[w]
  BY <1>1 DEF Closed
<1>7. Rows'
  BY <1>1, <1>5, RowFacts DEF Rows
<1>8. \A row \in Row : Copied(row) => Copied(row)'
  BY <1>5 DEF Copied, Row
<1>9. Known'
  <2>1. ASSUME NEW p \in Polls, poll[p].pc # "idle" PROVE Copied(poll[p].row)' /\ Heard(p)' /\ Dealt(p)'
    <3>1. poll[p].row \in Row /\ poll[p].row.video \in Videos
      BY DEF TypeOK, Row
    <3>2. Copied(poll[p].row) /\ Heard(p) /\ Dealt(p)
      BY <2>1 DEF Known
    <3>. QED  BY <1>5, <1>6, <1>8, <3>1, <3>2 DEF Heard, Dealt, Closed, Copied
  <2>2. ASSUME NEW i \in DOMAIN round PROVE Copied(round[i])'
    <3>1. round[i] \in Row
      BY DEF TypeOK
    <3>. QED  BY <1>8, <3>1 DEF Known
  <2>. QED  BY <2>1, <2>2 DEF Known
<1>10. Finished'
  BY <1>6, RowFacts DEF Finished, Closed
<1>11. ChargedForResult'
  BY <1>1, <1>5, <1>6 DEF ChargedForResult
<1>. QED  BY <1>3, <1>4, <1>7, <1>9, <1>10, <1>11

\* The provider finishes a video, or gives it up: what was heard was final.
LEMMA RenderStep == ASSUME VInv, NEW v \in Videos, Render(v) PROVE VInv'
<1>. USE DEF VInv
<1>1. /\ render[v] = "queued" /\ render' \in [Videos -> {"none", "queued", "completed", "failed"}]
      /\ \A w \in Videos : w # v => render'[w] = render[w]
      /\ render'[v] # "none"
      /\ UNCHANGED <<call, bill, jobs, poll, round, account, early>>
  BY DEF Render, TypeOK
<1>2. \A w \in Videos : render'[w] = "none" <=> render[w] = "none"
  BY <1>1
<1>3. TypeOK'
  BY <1>1 DEF TypeOK
<1>4. Waiting'
  BY <1>1, <1>2 DEF Waiting
<1>5. Rows' /\ Finished'
  BY <1>1, <1>2, RowFacts DEF Rows, Finished, Closed
<1>6. \A row \in Row : Copied(row)' <=> Copied(row)
  BY <1>1, <1>2 DEF Row, Copied
<1>7. Known'
  <2>1. ASSUME NEW p \in Polls, poll[p].pc # "idle" PROVE Copied(poll[p].row)' /\ Heard(p)' /\ Dealt(p)'
    <3>1. poll[p].row \in Row /\ poll[p].row.video \in Videos
      BY DEF TypeOK, Row
    <3>2. Copied(poll[p].row) /\ Heard(p) /\ Dealt(p)
      BY <2>1 DEF Known
    <3>. QED  BY <1>1, <1>6, <3>1, <3>2 DEF Heard, Dealt, Closed
  <2>. QED  BY <1>1, <1>6, <2>1 DEF Known, TypeOK
<1>8. ChargedForResult'
  BY <1>1 DEF ChargedForResult
<1>. QED  BY <1>3, <1>4, <1>5, <1>7, <1>8

\* The request writes the row, or links it to its bill.
LEMMA InsertStep == ASSUME VInv, NEW v \in Videos, Insert(v) PROVE VInv'
<1>. USE DEF VInv
<1>0. call[v] = "insert" /\ render[v] # "none" /\ {"queued", render[v]} \subseteq RowTypes
  BY DEF Insert, Waiting, TypeOK, RowTypes
<1>. PICK status \in {"queued", render[v]} :
       /\ jobs' = Append(jobs, [video |-> v, status |-> status, linked |-> FALSE])
       /\ early' = IF status = "queued" THEN early ELSE early \cup {v}
  BY DEF Insert
<1>. DEFINE new == [video |-> v, status |-> status, linked |-> FALSE]
<1>1. new \in Row
  BY <1>0 DEF Row, RowTypes
<1>2. /\ call' = [call EXCEPT ![v] = "link"] /\ jobs' = Append(jobs, new)
      /\ UNCHANGED <<render, bill, poll, round, account>>
  BY DEF Insert, Steps
<1>3. new.video = v /\ new.status = status /\ new.linked = FALSE
  OBVIOUS
<1>. HIDE DEF new
<1>4. /\ jobs' \in Seq(Row) /\ DOMAIN jobs' = DOMAIN jobs \cup {Len(jobs) + 1}
      /\ jobs'[Len(jobs) + 1] = new /\ \A x \in DOMAIN jobs : jobs'[x] = jobs[x]
  BY <1>1, <1>2, AppendRows
<1>5. /\ call' \in [Videos -> {"new", "submit", "insert", "link", "finish", "over"}] /\ call'[v] = "link"
      /\ \A w \in Videos : w # v => call'[w] = call[w]
  BY <1>2 DEF TypeOK
<1>6. \A x \in DOMAIN jobs : jobs[x].video # v /\ jobs[x].video \in Videos
  BY <1>0, RowFacts DEF Rows
<1>7. early' \subseteq Videos /\ early \subseteq early' /\ (status # "queued" => v \in early')
  BY DEF TypeOK
<1>8. TypeOK'
  BY <1>2, <1>3, <1>4, <1>5, <1>6, <1>7 DEF TypeOK
<1>9. Waiting'
  BY <1>0, <1>2, <1>5 DEF Waiting
<1>10. Rows'
  BY <1>0, <1>2, <1>3, <1>4, <1>5, <1>6 DEF Rows
<1>11. Known'
  BY <1>2 DEF Known, Copied, Heard, Dealt, Closed
<1>12. Finished' /\ ChargedForResult'
  BY <1>2, <1>3, <1>4, <1>7 DEF Finished, Closed, ChargedForResult
<1>. QED  BY <1>8, <1>9, <1>10, <1>11, <1>12

LEMMA LinkStep == ASSUME VInv, NEW v \in Videos, Link(v) PROVE VInv'
<1>. USE DEF VInv
<1>1. /\ call[v] = "link" /\ call' = [call EXCEPT ![v] = "finish"]
      /\ UNCHANGED <<render, bill, poll, round, account, early>>
  BY DEF Link, Steps
<1>2. /\ jobs' \in Seq(Row) /\ DOMAIN jobs' = DOMAIN jobs
      /\ \A x \in DOMAIN jobs : /\ jobs'[x].video = jobs[x].video /\ jobs'[x].status = jobs[x].status
                                /\ jobs[x].video # v => jobs'[x] = jobs[x]
  BY LinkedRows DEF Link
<1>3. /\ call' \in [Videos -> {"new", "submit", "insert", "link", "finish", "over"}] /\ call'[v] = "finish"
      /\ \A w \in Videos : w # v => call'[w] = call[w]
  BY <1>1 DEF TypeOK
<1>4. TypeOK'
  BY <1>1, <1>2, <1>3 DEF TypeOK
<1>5. Waiting'
  BY <1>1, <1>3 DEF Waiting
<1>6. Rows'
  BY <1>1, <1>2, <1>3, RowFacts DEF Rows
<1>7. Known'
  BY <1>1 DEF Known, Copied, Heard, Dealt, Closed
<1>8. Finished' /\ ChargedForResult'
  BY <1>1, <1>2 DEF Finished, Closed, ChargedForResult
<1>. QED  BY <1>4, <1>5, <1>6, <1>7, <1>8

\* A poll goes on to m: no bill and no row is touched.
LEMMA MoveStep ==
  ASSUME VInv, NEW p \in Polls, NEW m,
         m \in [pc : {"idle", "fetch", "settle", "touch"}, row : Row, result : RowTypes],
         poll' = [poll EXCEPT ![p] = m], UNCHANGED <<render, call, bill, jobs, account, early>>,
         m.pc # "idle" =>
           /\ Copied(m.row)
           /\ m.pc = "fetch" => m.result = "queued"
           /\ m.result # "queued" => render[m.row.video] = m.result
           /\ m.pc = "touch" => Dealt(p)',
         round' \in Seq(Row), Len(round') <= Limit, \A i \in DOMAIN round' : Copied(round'[i])
  PROVE  VInv'
<1>. USE DEF VInv
<1>1. poll'[p] = m /\ \A q \in Polls : q # p => poll'[q] = poll[q]
  BY DEF TypeOK
<1>2. TypeOK'
  BY DEF TypeOK, RowTypes
<1>3. Waiting' /\ Rows' /\ Finished' /\ ChargedForResult'
  BY DEF Waiting, Rows, Finished, Closed, ChargedForResult
<1>4. \A row : Copied(row)' <=> Copied(row)
  BY DEF Copied
<1>5. Known'
  <2>1. ASSUME NEW q \in Polls, poll'[q].pc # "idle" PROVE Copied(poll[q].row)' /\ Heard(q)' /\ Dealt(q)'
    <3>1. CASE q = p
      BY <1>1, <1>4, <2>1, <3>1 DEF Heard, Dealt
    <3>2. CASE q # p
      BY <1>1, <1>4, <2>1, <3>2 DEF Known, Heard, Dealt, Closed
    <3>. QED  BY <3>1, <3>2
  <2>2. ASSUME NEW i \in DOMAIN round' PROVE Copied(round[i])'
    BY <1>4
  <2>. QED  BY <2>1, <2>2 DEF Known
<1>. QED  BY <1>2, <1>3, <1>5

\* A poll that is given up, or done.
LEMMA RestFacts ==
  ASSUME LimitAssumption
  PROVE  /\ Rest \in [pc : {"idle", "fetch", "settle", "touch"}, row : Row, result : RowTypes]
         /\ Rest.pc = "idle"
<1>1. PICK v : v \in Videos
  BY DEF LimitAssumption
<1>2. [video |-> v, status |-> "queued", linked |-> FALSE] \in Row
  BY <1>1 DEF Row
<1>3. Rest.row \in Row /\ Rest.pc = "idle" /\ Rest.result = "queued"
  BY <1>2 DEF Rest
<1>. QED  BY <1>3 DEF Rest, RowTypes

\* A user's poll reads a row: its video was submitted.
LEMMA GetStep == ASSUME VInv, NEW p \in Pollers, NEW v \in Videos, Get(p, v) PROVE VInv'
<1>. USE DEF VInv
<1>1. PICK x \in RowsOf(v) : Moves(p, "fetch", jobs[x], "queued")
  BY DEF Get
<1>2. x \in DOMAIN jobs /\ jobs[x].video = v /\ p \in Polls
  BY <1>1 DEF RowsOf, Get, Polls
<1>3. Copied(jobs[x])
  BY <1>2 DEF Copied, Rows
<1>4. jobs[x] \in Row
  BY <1>2, RowFacts
<1>. DEFINE m == [pc |-> "fetch", row |-> jobs[x], result |-> "queued"]
<1>5. m \in [pc : {"idle", "fetch", "settle", "touch"}, row : Row, result : RowTypes]
  BY <1>4 DEF RowTypes
<1>6. m.pc = "fetch" /\ m.row = jobs[x] /\ m.result = "queued" /\ poll' = [poll EXCEPT ![p] = m]
  BY <1>1 DEF Moves
<1>. HIDE DEF m
<1>7. UNCHANGED <<render, call, bill, jobs, round, account, early>>
  BY DEF Get
<1>8. round' \in Seq(Row) /\ Len(round') <= Limit /\ \A i \in DOMAIN round' : Copied(round'[i])
  BY <1>7 DEF TypeOK, Known
<1>. QED  BY <1>2, <1>3, <1>5, <1>6, <1>7, <1>8, MoveStep

\* The loop reads rows whose bill is pending.
LEMMA ReadStep == ASSUME LimitAssumption, VInv, Read PROVE VInv'
<1>. USE DEF VInv
<1>. DEFINE due == {x \in DOMAIN jobs : Unfinished(jobs[x])}
            n == IF Cardinality(due) < Limit THEN Cardinality(due) ELSE Limit
<1>1. PICK at \in [1..n -> due] : round' = [i \in 1..n |-> jobs[at[i]]]
  BY DEF Read
<1>2. n \in Nat /\ n <= Limit
  <2>1. DOMAIN jobs = 1..Len(jobs) /\ Len(jobs) \in Nat
    BY DEF TypeOK
  <2>2. IsFiniteSet(1..Len(jobs))
    BY <2>1, FS_Interval
  <2>3. IsFiniteSet(due)
    BY <2>1, <2>2, FS_Subset
  <2>4. Cardinality(due) \in Nat
    BY <2>3, FS_CardinalityType
  <2>. QED  BY <2>4 DEF LimitAssumption
<1>. HIDE DEF n
<1>3. \A i \in 1..n : at[i] \in DOMAIN jobs /\ Unfinished(jobs[at[i]])
  OBVIOUS
<1>4. \A i \in 1..n : jobs[at[i]] \in Row /\ jobs[at[i]].video \in Videos
  BY <1>3, RowFacts
<1>5. \A i \in 1..n : Copied(jobs[at[i]])
  BY <1>3 DEF Copied, Rows
<1>6. round' \in Seq(Row) /\ Len(round') = n /\ DOMAIN round' = 1..n
  BY <1>1, <1>2, <1>4
<1>7. UNCHANGED <<render, call, bill, jobs, poll, account, early>>
  BY DEF Read
<1>8. TypeOK'
  BY <1>2, <1>6, <1>7 DEF TypeOK
<1>9. \A row : Copied(row)' <=> Copied(row)
  BY <1>7 DEF Copied
<1>10. Known'
  BY <1>1, <1>5, <1>6, <1>7, <1>9 DEF Known, Heard, Dealt, Closed
<1>11. Waiting' /\ Rows' /\ Finished' /\ ChargedForResult'
  BY <1>7 DEF Waiting, Rows, Finished, Closed, ChargedForResult
<1>. QED  BY <1>8, <1>10, <1>11

\* The loop turns to the next row of its round.
LEMMA TakeStep == ASSUME LimitAssumption, VInv, Take PROVE VInv'
<1>. USE DEF VInv
<1>1. /\ round # <<>> /\ round' = Tail(round) /\ UNCHANGED <<render, call, bill, jobs, account, early>>
      /\ IF account THEN Moves(Loop, "fetch", Head(round), "queued") ELSE UNCHANGED poll
  BY DEF Take
<1>2. round \in Seq(Row) /\ Len(round) <= Limit /\ Len(round) \in Nat /\ Limit \in Nat
  BY DEF LimitAssumption, TypeOK
<1>3. /\ round' \in Seq(Row) /\ Len(round') = Len(round) - 1 /\ Head(round) = round[1] /\ Head(round) \in Row
      /\ 1 \in DOMAIN round /\ \A i \in DOMAIN round' : i + 1 \in DOMAIN round /\ round'[i] = round[i + 1]
  BY <1>1, <1>2
<1>4. Copied(Head(round)) /\ Len(round') <= Limit /\ \A i \in DOMAIN round' : Copied(round'[i])
  BY <1>2, <1>3 DEF Known
<1>5. CASE account
  <2>. DEFINE m == [pc |-> "fetch", row |-> Head(round), result |-> "queued"]
  <2>1. m \in [pc : {"idle", "fetch", "settle", "touch"}, row : Row, result : RowTypes]
    BY <1>3 DEF RowTypes
  <2>2. m.pc = "fetch" /\ m.row = Head(round) /\ m.result = "queued" /\ poll' = [poll EXCEPT ![Loop] = m]
    BY <1>1, <1>5 DEF Moves
  <2>. HIDE DEF m
  <2>3. Loop \in Polls
    BY DEF Polls
  <2>. QED  BY <1>1, <1>3, <1>4, <2>1, <2>2, <2>3, MoveStep
<1>6. CASE ~account
  <2>1. UNCHANGED poll
    BY <1>1, <1>6
  <2>2. TypeOK'
    BY <1>1, <1>3, <1>4, <2>1 DEF TypeOK
  <2>3. \A row : Copied(row)' <=> Copied(row)
    BY <1>1 DEF Copied
  <2>4. Waiting' /\ Rows' /\ Finished' /\ ChargedForResult'
    BY <1>1 DEF Waiting, Rows, Finished, Closed, ChargedForResult
  <2>5. Known'
    BY <1>1, <1>4, <2>1, <2>3 DEF Known, Heard, Dealt, Closed
  <2>. QED  BY <2>2, <2>4, <2>5
<1>. QED  BY <1>5, <1>6

\* The provider answers, or cannot be reached.
LEMMA FetchStep == ASSUME LimitAssumption, VInv, NEW p \in Polls, Fetch(p) \/ FetchFails(p) PROVE VInv'
<1>. USE DEF VInv
<1>1. UNCHANGED <<render, call, bill, jobs, round, account, early>> /\ poll[p].pc = "fetch"
  BY DEF Fetch, FetchFails
<1>2. round' \in Seq(Row) /\ Len(round') <= Limit /\ \A i \in DOMAIN round' : Copied(round'[i])
  BY <1>1 DEF TypeOK, Known
<1>3. CASE Fetch(p)
  <2>. DEFINE row == poll[p].row
              m == [pc |-> "settle", row |-> row, result |-> render[row.video]]
  <2>1. row \in Row /\ row.video \in Videos /\ Copied(row)
    BY <1>1 DEF TypeOK, Row, Known
  <2>2. render[row.video] \in RowTypes
    <3>1. render[row.video] \in {"none", "queued", "completed", "failed"}
      BY <2>1 DEF TypeOK
    <3>2. render[row.video] # "none"
      BY <2>1 DEF Copied
    <3>. QED  BY <3>1, <3>2 DEF RowTypes
  <2>. HIDE DEF row
  <2>3. m \in [pc : {"idle", "fetch", "settle", "touch"}, row : Row, result : RowTypes]
    BY <2>1, <2>2
  <2>4. m.pc = "settle" /\ m.row = row /\ m.result = render[row.video] /\ poll' = [poll EXCEPT ![p] = m]
    BY <1>3 DEF Fetch, Then, AfterFetch, Moves, row
  <2>. HIDE DEF m
  <2>. QED  BY <1>1, <1>2, <2>1, <2>3, <2>4, MoveStep
<1>4. CASE FetchFails(p)
  BY <1>1, <1>2, <1>4, RestFacts, MoveStep DEF FetchFails
<1>. QED  BY <1>3, <1>4

\* The bill is decided: charged only for a finished video of known length, or
\* for the usage of a failed one.
LEMMA SettleStep == ASSUME VInv, NEW p \in Polls, Settle(p) PROVE VInv'
<1>. USE DEF VInv
<1>. DEFINE row == poll[p].row
            w == row.video
            result == poll[p].result
            m == [pc |-> "touch", row |-> row, result |-> result]
<1>1. /\ poll[p].pc = "settle" /\ UNCHANGED <<render, call, jobs, round, account>>
      /\ poll' = [poll EXCEPT ![p] = m]
      /\ IF row.linked
         THEN /\ bill' = [bill EXCEPT ![w] = Outcome(w, result)]
              /\ early' = IF result = "completed" THEN early \ {w} ELSE early
         ELSE UNCHANGED <<bill, early>>
  BY DEF Settle, Moves, Bills
<1>2. row \in Row /\ w \in Videos /\ result \in RowTypes /\ row.linked \in BOOLEAN
  BY DEF TypeOK, Row, RowTypes
<1>3. Copied(row) /\ (result # "queued" => render[w] = result)
  BY <1>1 DEF Known, Heard
<1>4. call[w] # "new" /\ bill[w] \in {"reserved", "pending", "settled", "released"}
  BY <1>2, <1>3 DEF Copied, Waiting, TypeOK
<1>5. /\ m \in [pc : {"idle", "fetch", "settle", "touch"}, row : Row, result : RowTypes]
      /\ m.pc = "touch" /\ m.row = row /\ m.result = result
  BY <1>2
<1>6. /\ bill' \in [Videos -> {"none", "reserved", "pending", "settled", "released"}]
      /\ \A x \in Videos : x # w => bill'[x] = bill[x]
      /\ bill'[w] \in {bill[w], "settled", "released"} /\ (Closed(w) => bill'[w] = bill[w])
      /\ bill'[w] = "settled" /\ bill[w] # "settled" =>
           (result = "completed" /\ w \in Timed) \/ (result = "failed" /\ w \in Metered)
      /\ row.linked /\ result = "completed" /\ w \in Timed => bill'[w] \in {"settled", "released"}
  <2>1. Outcome(w, result) =
          IF result = "completed" /\ w \in Timed /\ Open(w) THEN "settled"
          ELSE IF result = "failed" /\ Open(w) THEN (IF w \in Metered THEN "settled" ELSE "released") ELSE bill[w]
    BY DEF Outcome
  <2>. HIDE DEF row, w, result, m
  <2>2. CASE row.linked
    <3>1. bill' = [bill EXCEPT ![w] = Outcome(w, result)]
      BY <1>1, <2>2
    <3>. QED  BY <3>1, <2>1, <1>2, <1>4 DEF Open, Closed, TypeOK
  <2>3. CASE ~row.linked
    BY <1>1, <1>4, <2>3 DEF TypeOK
  <2>. QED  BY <1>2, <2>2, <2>3
<1>. HIDE DEF m, result, w, row
<1>7. \A x \in Videos : bill[x] \in {"settled", "released"} => bill'[x] = bill[x]
  BY <1>6 DEF Closed
<1>8. poll'[p] = m /\ \A q \in Polls : q # p => poll'[q] = poll[q]
  BY <1>1 DEF TypeOK
<1>9. /\ early' \subseteq early /\ (\A x \in early \ early' : x = w)
      /\ w \in early \ early' => row.linked /\ result = "completed"
  BY <1>1, <1>2
<1>10. TypeOK'
  BY <1>1, <1>5, <1>6, <1>9 DEF TypeOK, RowTypes
<1>11. Waiting'
  BY <1>1, <1>4, <1>6 DEF Waiting
<1>12. Rows'
  BY <1>1 DEF Rows
<1>13. Finished'
  <2>1. ASSUME NEW x \in DOMAIN jobs, jobs[x].status = "completed", jobs[x].video \in Timed, jobs[x].video \notin early'
        PROVE  bill'[jobs[x].video] \in {"settled", "released"}
    <3>1. CASE jobs[x].video \in early
      BY <1>6, <1>9, <2>1, <3>1
    <3>2. CASE jobs[x].video \notin early
      BY <1>7, <2>1, <3>2, RowFacts DEF Finished, Closed
    <3>. QED  BY <3>1, <3>2
  <2>. QED  BY <1>1, <2>1 DEF Finished, Closed
<1>14. ChargedForResult'
  <2>1. ASSUME NEW x \in Videos, bill'[x] = "settled"
        PROVE  (render[x] = "completed" /\ x \in Timed) \/ (render[x] = "failed" /\ x \in Metered)
    BY <1>3, <1>6, <2>1 DEF ChargedForResult
  <2>. QED  BY <1>1, <2>1 DEF ChargedForResult
<1>15. \A r : Copied(r)' <=> Copied(r)
  BY <1>1 DEF Copied
<1>16. ASSUME NEW q \in Polls, poll'[q].pc # "idle" PROVE Copied(poll[q].row)' /\ Heard(q)' /\ Dealt(q)'
  <2>1. CASE q = p
    BY <1>1, <1>3, <1>5, <1>6, <1>8, <1>15, <2>1 DEF Heard, Dealt, Closed, w
  <2>2. CASE q # p
    <3>1. poll'[q] = poll[q] /\ Copied(poll[q].row) /\ Heard(q) /\ Dealt(q) /\ poll[q].row.video \in Videos
      BY <1>8, <1>16, <2>2 DEF Known, TypeOK, Row
    <3>. QED  BY <1>1, <1>7, <1>15, <3>1 DEF Heard, Dealt, Closed
  <2>. QED  BY <2>1, <2>2
<1>17. Known'
  BY <1>1, <1>15, <1>16 DEF Known
<1>. QED  BY <1>10, <1>11, <1>12, <1>13, <1>14, <1>17

\* The row is closed: its bill was dealt with before, or it is noted.
LEMMA TouchStep == ASSUME LimitAssumption, VInv, NEW p \in Polls, Touch(p) PROVE VInv'
<1>. USE DEF VInv
<1>. DEFINE row == poll[p].row
            w == row.video
            result == poll[p].result
<1>1. /\ poll[p].pc = "touch" /\ UNCHANGED <<render, call, bill, round, account>>
      /\ poll' = [poll EXCEPT ![p] = Rest] /\ jobs' = With(w, "status", result)
      /\ early' = IF row.linked \/ result = "queued" THEN early ELSE early \cup {w}
  BY DEF Touch
<1>2. row \in Row /\ w \in Videos /\ result \in RowTypes /\ row.linked \in BOOLEAN
  BY DEF TypeOK, Row, RowTypes
<1>3. Dealt(p)
  BY <1>1 DEF Known
<1>4. /\ jobs' \in Seq(Row) /\ DOMAIN jobs' = DOMAIN jobs
      /\ \A x \in DOMAIN jobs : /\ jobs'[x].video = jobs[x].video /\ jobs'[x].linked = jobs[x].linked
                                /\ jobs[x].video # w => jobs'[x] = jobs[x]
                                /\ jobs[x].video = w => jobs'[x].status = result
  BY <1>1, <1>2, StatusRows
<1>5. poll'[p] = Rest /\ \A q \in Polls : q # p => poll'[q] = poll[q]
  BY <1>1 DEF TypeOK
<1>6. /\ early \subseteq early' /\ early' \subseteq Videos
      /\ ~row.linked /\ result = "completed" => w \in early'
  BY <1>1, <1>2 DEF TypeOK
<1>7. TypeOK'
  BY <1>1, <1>4, <1>5, <1>6, RestFacts DEF TypeOK, RowTypes
<1>8. Waiting' /\ ChargedForResult'
  BY <1>1 DEF Waiting, ChargedForResult
<1>9. Rows'
  BY <1>1, <1>4 DEF Rows
<1>10. \A r : Copied(r)' <=> Copied(r)
  BY <1>1 DEF Copied
<1>11. Known'
  BY <1>1, <1>5, <1>10, RestFacts DEF Known, Heard, Dealt, Closed
<1>12. Finished'
  <2>1. ASSUME NEW x \in DOMAIN jobs, jobs'[x].status = "completed", jobs'[x].video \in Timed,
               jobs'[x].video \notin early'
        PROVE  Closed(jobs'[x].video)
    <3>1. CASE jobs[x].video # w
      BY <1>4, <1>6, <2>1, <3>1 DEF Finished
    <3>2. CASE jobs[x].video = w
      <4>1. row.linked /\ result = "completed" /\ w \in Timed /\ jobs'[x].video = w
        BY <1>2, <1>4, <1>6, <2>1, <3>2
      <4>. QED  BY <1>1, <1>3, <4>1 DEF Dealt
    <3>. QED  BY <3>1, <3>2
  <2>. QED  BY <1>1, <1>4, <2>1 DEF Finished, Closed
<1>. QED  BY <1>7, <1>8, <1>9, <1>11, <1>12

\* A row is deleted: what was known of it stays true of none.
LEMMA DeleteStep == ASSUME VInv, NEW v \in Videos, Delete(v) PROVE VInv'
<1>. USE DEF VInv
<1>1. PICK k \in RowsOf(v) : jobs' = RemoveAt(jobs, k)
  BY DEF Delete
<1>2. k \in DOMAIN jobs /\ DOMAIN jobs \subseteq Nat /\ UNCHANGED <<render, call, bill, poll, round, account, early>>
  BY <1>1 DEF RowsOf, Delete, TypeOK
<1>. DEFINE was(x) == IF x < k THEN x ELSE x + 1
<1>3. jobs' \in Seq(Row) /\ \A x \in DOMAIN jobs' : was(x) \in DOMAIN jobs /\ jobs'[x] = jobs[was(x)]
  BY <1>1, <1>2, RemoveRows
<1>4. DOMAIN jobs' \subseteq Nat
  BY <1>3
<1>5. \A x, y \in DOMAIN jobs' : was(x) = was(y) => x = y
  BY <1>2, <1>4
<1>. HIDE DEF was
<1>6. TypeOK'
  BY <1>2, <1>3, <1>5 DEF TypeOK
<1>7. Waiting' /\ ChargedForResult'
  BY <1>2 DEF Waiting, ChargedForResult
<1>8. Rows'
  BY <1>2, <1>3 DEF Rows
<1>9. Finished'
  BY <1>2, <1>3 DEF Finished, Closed
<1>10. Known'
  BY <1>2 DEF Known, Copied, Heard, Dealt, Closed
<1>. QED  BY <1>6, <1>7, <1>8, <1>9, <1>10

\* The process starts again: no request and no poll is under way.
LEMMA RestartStep == ASSUME LimitAssumption, VInv, Restart PROVE VInv'
<1>. USE DEF VInv
<1>1. /\ call' = [v \in Videos |-> IF call[v] = "new" THEN "new" ELSE "over"]
      /\ bill' \in [Videos -> {"none", "reserved", "pending", "settled", "released"}]
      /\ \A v \in Videos : bill'[v] \in IF bill[v] = "reserved" THEN {"pending", "released"} ELSE {bill[v]}
      /\ poll' = [p \in Polls |-> Rest] /\ round' = <<>> /\ UNCHANGED <<render, jobs, account, early>>
  BY DEF Restart
<1>2. \A v \in Videos : /\ call'[v] = IF call[v] = "new" THEN "new" ELSE "over"
                        /\ bill[v] # "reserved" => bill'[v] = bill[v]
                        /\ bill[v] = "reserved" => bill'[v] \in {"pending", "released"}
  BY <1>1
<1>3. TypeOK'
  BY <1>1, RestFacts DEF LimitAssumption, TypeOK, RowTypes
<1>4. Waiting'
  BY <1>1, <1>2 DEF Waiting, TypeOK
<1>5. Rows'
  BY <1>1, <1>2, RowFacts DEF Rows
<1>6. Finished' /\ ChargedForResult'
  BY <1>1, <1>2, RowFacts DEF Finished, Closed, ChargedForResult
<1>7. Known'
  BY <1>1, RestFacts DEF Known
<1>. QED  BY <1>3, <1>4, <1>5, <1>6, <1>7

LEMMA AccountStep == ASSUME VInv, NEW on \in BOOLEAN, Account(on) PROVE VInv'
<1>. USE DEF VInv
<1>1. account' \in BOOLEAN /\ UNCHANGED <<render, call, bill, jobs, poll, round, early>>
  BY DEF Account
<1>2. TypeOK'
  BY <1>1 DEF TypeOK
<1>3. \A row : Copied(row)' <=> Copied(row)
  BY <1>1 DEF Copied
<1>4. Known'
  BY <1>1, <1>3 DEF Known, Heard, Dealt, Closed
<1>. QED  BY <1>1, <1>2, <1>4 DEF Waiting, Rows, Finished, Closed, ChargedForResult

-----------------------------------------------------------------------------
\* The steps of RequestStep.
LEMMA CallStep ==
  ASSUME VInv, NEW v \in Videos, Create(v) \/ Submit(v) \/ Finish(v) \/ Fail(v) \/ ExpireBill(v)
  PROVE  VInv'
<1>. USE DEF VInv
<1>1. CASE Create(v)
  <2>1. call[v] = "new" /\ bill[v] = "none"
    BY <1>1 DEF Create, Waiting
  <2>. QED  BY <1>1, <2>1, RequestStep DEF Create, Bills, Steps, Closed
<1>2. CASE Submit(v)
  <2>1. call[v] = "submit" /\ bill[v] \in {"reserved", "settled", "released"}
    BY <1>2 DEF Submit, Waiting, TypeOK
  <2>2. bill' = [bill EXCEPT ![v] = bill[v]]
    BY <1>2 DEF Submit, TypeOK
  <2>3. PICK r \in RowTypes : render' = [render EXCEPT ![v] = r]
    BY <1>2 DEF Submit, RowTypes
  <2>. QED  BY <1>2, <2>1, <2>2, <2>3, RequestStep DEF Submit, Steps
<1>3. CASE Finish(v)
  <2>1. call[v] = "finish" /\ bill[v] \in {"reserved", "settled", "released"}
    BY <1>3 DEF Finish, Waiting, TypeOK
  <2>2. /\ StayOpen(v) \in {"pending", "settled", "released"}
        /\ StayOpen(v) = IF bill[v] = "reserved" THEN "pending" ELSE bill[v]
    BY <2>1 DEF StayOpen, Open
  <2>3. bill' = [bill EXCEPT ![v] = StayOpen(v)] /\ call' = [call EXCEPT ![v] = "over"]
        /\ UNCHANGED <<render, jobs, poll, round, account, early>>
    BY <1>3 DEF Finish, Bills, Steps
  <2>. QED  BY <2>1, <2>2, <2>3, RequestStep DEF Closed
<1>4. CASE Fail(v)
  <2>. DEFINE s == IF Open(v) THEN "released" ELSE bill[v]
  <2>1. call[v] \notin {"new", "over"} /\ bill[v] \in {"reserved", "settled", "released"}
    BY <1>4 DEF Fail, Waiting, TypeOK
  <2>2. s \in {"settled", "released"} /\ (bill[v] # "reserved" => s = bill[v])
    BY <2>1 DEF Open
  <2>3. bill' = [bill EXCEPT ![v] = s] /\ call' = [call EXCEPT ![v] = "over"]
        /\ UNCHANGED <<render, jobs, poll, round, account, early>>
    BY <1>4 DEF Fail, Bills, Steps
  <2>. HIDE DEF s
  <2>4. s = "settled" => bill[v] = "settled"
    BY <2>1 DEF s, Open
  <2>. QED  BY <2>1, <2>2, <2>3, <2>4, RequestStep DEF Closed
<1>5. CASE ExpireBill(v)
  <2>1. bill[v] \in {"reserved", "pending"} /\ call[v] # "new"
    BY <1>5 DEF ExpireBill, Open, Waiting
  <2>2. call' = [call EXCEPT ![v] = call[v]]
    BY <1>5 DEF ExpireBill, TypeOK
  <2>. QED  BY <1>5, <2>1, <2>2, RequestStep DEF ExpireBill, Bills, Closed
<1>. QED  BY <1>1, <1>2, <1>3, <1>4, <1>5

LEMMA VStep == LimitAssumption /\ VInv /\ [Next]_vars => VInv'
<1>. SUFFICES ASSUME LimitAssumption, VInv, [Next]_vars PROVE VInv'
  OBVIOUS
<1>1. ASSUME NEW v \in Videos,
             \/ Create(v) \/ Submit(v) \/ Insert(v) \/ Link(v) \/ Finish(v) \/ Fail(v)
             \/ Render(v) \/ Delete(v) \/ ExpireBill(v)
             \/ \E p \in Pollers : Get(p, v)
             \/ \E w \in Videos : Edit(v, w) \/ Extend(v, w)
      PROVE  VInv'
  <2>1. (\E w \in Videos : Edit(v, w) \/ Extend(v, w)) => Create(v)
    BY DEF Edit, Extend
  <2>. QED  BY <1>1, <2>1, CallStep, InsertStep, LinkStep, RenderStep, DeleteStep, GetStep
<1>2. ASSUME NEW p \in Polls, Fetch(p) \/ FetchFails(p) \/ Settle(p) \/ Touch(p)
      PROVE  VInv'
  BY <1>2, FetchStep, SettleStep, TouchStep
<1>3. CASE UNCHANGED vars
  <2>1. UNCHANGED <<render, call, bill, jobs, poll, round, account, early>>
    BY <1>3 DEF vars
  <2>2. \A row : Copied(row)' <=> Copied(row)
    BY <2>1 DEF Copied
  <2>. QED  BY <2>1, <2>2 DEF VInv, TypeOK, Waiting, Rows, Known, Heard, Dealt, Closed, Finished, ChargedForResult
<1>. QED  BY <1>1, <1>2, <1>3, ReadStep, TakeStep, AccountStep, RestartStep DEF Next

\* No video is charged but for a finished result of known length or for the usage
\* of a failed one; and no row says that a video is finished whose bill still
\* waits, but for one that was written so or was polled before it was linked:
\* neither the user's polls nor the loop's, which overlap, break it, whatever
\* expires, is deleted or starts again meanwhile (_get_grok_video, settle,
\* _maintenance_loop).
THEOREM VideosChargedAlways == LimitAssumption => (Spec => []VideosCharged)
<1>. SUFFICES ASSUME LimitAssumption PROVE Spec => []VideosCharged
  OBVIOUS
<1>1. Init => VInv
  BY VInit
<1>2. VInv /\ [Next]_vars => VInv'
  BY VStep
<1>3. VInv => VideosCharged
  <2>. SUFFICES ASSUME VInv PROVE VideosCharged
    OBVIOUS
  <2>1. FinishedIsBilled
    BY DEF VInv, Finished, FinishedIsBilled, Closed
  <2>. QED  BY <2>1 DEF VInv, VideosCharged
<1>. QED  BY <1>1, <1>2, <1>3, PTL DEF Spec

-----------------------------------------------------------------------------
(* The pictures on disk (Artifacts), for any pictures and lifetimes, and a *)
(* tool call that makes any of them.                                       *)
(*                                                                         *)
(* What a sweep spares and what it takes is decided by the rows it has read *)
(* before: Spared says what these still mean when it comes to the files.   *)
CONSTANTS Ids, Life, Tool, MaxTime, MaxRestarts
VARIABLES clock, disk, rows, creating, late, removing, prune, linked, dropped, safe, tool, restarts

Shelf == INSTANCE Artifacts

Calls == [at : Shelf!Ends, made : SUBSET Tool, good : SUBSET Tool]

FileTypes ==
  /\ clock \in Nat /\ rows \in [Ids -> Nat] /\ creating \in [Ids -> Nat] /\ linked \in [Ids -> Nat]
  /\ late \in [Ids -> Nat] /\ removing \in [Ids -> {"no", "read", "gone"}]
  /\ tool \in Calls

\* An id is created once: who is creating it has handed out no link, nor has an
\* INSERT that was given up, and what has a row, or had one to delete, was linked
\* or given up.
Used(id) == linked[id] # 0 \/ id \in dropped
CreatedOnce(id) ==
  /\ creating[id] # 0 => rows[id] = 0 /\ linked[id] = 0 /\ late[id] = 0 /\ id \notin dropped
  /\ late[id] # 0 => rows[id] = 0 /\ linked[id] = 0 /\ id \in dropped /\ removing[id] = "no"
  /\ rows[id] # 0 \/ removing[id] # "no" => Used(id)
  /\ removing[id] = "gone" => rows[id] = 0

\* A file that is being created or whose row is alive and linked is there; what a
\* cleanup is about to unlink has expired; what it is about to spare had a row,
\* and what it is about to sweep away and nobody marked has no creator, and a row
\* only if nobody was told of it.
Spared(id) ==
  /\ id \in safe /\ (creating[id] # 0 \/ (rows[id] > clock /\ linked[id] # 0)) => id \in disk
  /\ prune.at = "unlink" /\ id \in prune.ids => Used(id) /\ rows[id] <= clock /\ late[id] = 0
  /\ prune.at = "sweep" /\ id \in prune.ids =>
       Used(id) /\ (rows[id] # 0 \/ id \notin disk \/ removing[id] = "gone")
  /\ prune.at = "sweep" /\ id \in safe /\ id \notin prune.ids =>
       creating[id] = 0 /\ (rows[id] = 0 \/ linked[id] = 0)

Answered ==
  /\ tool.at \in {"storing", "answered"} => tool.made = Tool
  /\ tool.at = "answered" => tool.good # {} /\ \A id \in tool.good : linked[id] # 0

FInv == FileTypes /\ disk \subseteq Ids /\ safe \subseteq Ids
  /\ (\A id \in Ids : CreatedOnce(id) /\ Spared(id)) /\ Answered

LEMMA FInit == Shelf!BoundsAssumption /\ Shelf!Init => FInv
<1>. SUFFICES ASSUME Shelf!BoundsAssumption, Shelf!Init PROVE FInv
  OBVIOUS
<1>1. FileTypes /\ Answered
  BY DEF Shelf!Init, FileTypes, Calls, Answered, Shelf!Ends
<1>2. \A id \in Ids : CreatedOnce(id) /\ Spared(id)
  BY DEF Shelf!Init, CreatedOnce, Used, Spared, Shelf!NoPrune
<1>. QED  BY <1>1, <1>2 DEF FInv, Shelf!Init

\* A step that changes nothing of the tool call but perhaps its links keeps what it promised.
LEMMA ToolStays ==
  ASSUME FInv, Shelf!BoundsAssumption, UNCHANGED tool, \A id \in Ids : linked[id] # 0 => linked'[id] # 0
  PROVE  Answered'
BY DEF FInv, FileTypes, Calls, Answered, Shelf!BoundsAssumption

LEMMA FCreate ==
  ASSUME FInv, Shelf!BoundsAssumption, NEW id \in Ids, Shelf!Write(id), UNCHANGED tool
  PROVE  FInv'
<1>. DEFINE until == clock + Life[id]
<1>1. until \in Nat /\ until # 0
  BY DEF FInv, FileTypes, Shelf!BoundsAssumption
<1>2. /\ creating[id] = 0 /\ linked[id] = 0 /\ rows[id] = 0 /\ disk' = disk \cup {id}
      /\ creating' = [creating EXCEPT ![id] = until]
      /\ UNCHANGED <<clock, rows, late, removing, prune, linked, dropped>> /\ id \notin dropped
      /\ \A x \in Ids : x # id => (x \in safe' <=> x \in safe)
      /\ safe' \subseteq safe \cup {id} /\ (prune.at = "sweep" => id \notin safe')
  BY DEF Shelf!Write, Shelf!Unused, Shelf!Watched
<1>. HIDE DEF until
<1>3. creating' \in [Ids -> Nat] /\ creating'[id] = until /\ \A x \in Ids : x # id => creating'[x] = creating[x]
  BY <1>1, <1>2 DEF FInv, FileTypes
<1>4. FileTypes' /\ Answered' /\ disk' \subseteq Ids /\ safe' \subseteq Ids
  BY <1>2, <1>3, ToolStays DEF FInv, FileTypes
<1>5. ASSUME NEW x \in Ids PROVE CreatedOnce(x)' /\ Spared(x)'
  <2>1. CreatedOnce(x) /\ Spared(x)
    BY DEF FInv
  <2>2. CreatedOnce(x)'
    BY <1>1, <1>2, <1>3, <2>1 DEF CreatedOnce, Used
  <2>3. CASE x = id
    <3>1. id \in disk' /\ ~(prune.at \in {"unlink", "sweep"} /\ id \in prune.ids)
      BY <1>2, <2>1, <2>3 DEF Spared, Used
    <3>2. prune' = prune /\ (prune.at = "sweep" => id \notin safe')
      BY <1>2
    <3>. QED  BY <2>2, <2>3, <3>1, <3>2 DEF Spared
  <2>4. CASE x # id
    <3>1. (x \in safe' <=> x \in safe) /\ (x \in disk' <=> x \in disk) /\ creating'[x] = creating[x]
      BY <1>2, <1>3, <2>4
    <3>2. prune' = prune /\ rows' = rows /\ clock' = clock /\ linked' = linked /\ removing' = removing
        /\ late' = late /\ dropped' = dropped
      BY <1>2
    <3>. QED  BY <2>1, <2>2, <3>1, <3>2 DEF Spared, Used
  <2>. QED  BY <2>2, <2>3, <2>4
<1>. QED  BY <1>4, <1>5 DEF FInv

LEMMA FInsert ==
  ASSUME FInv, Shelf!BoundsAssumption, NEW id \in Ids, Shelf!Insert(id)
  PROVE  FInv'
<1>. DEFINE good == clock + Life[id]
<1>1. good \in Nat /\ good # 0
  BY DEF FInv, FileTypes, Shelf!BoundsAssumption
<1>2. /\ creating[id] # 0 /\ rows' = [rows EXCEPT ![id] = creating[id]]
      /\ creating' = [creating EXCEPT ![id] = 0] /\ linked' = [linked EXCEPT ![id] = good]
      /\ UNCHANGED <<clock, disk, late, removing, prune, dropped, safe, tool>>
  BY DEF Shelf!Insert
<1>. HIDE DEF good
<1>3. /\ rows' \in [Ids -> Nat] /\ creating' \in [Ids -> Nat] /\ linked' \in [Ids -> Nat]
      /\ rows'[id] = creating[id] /\ creating'[id] = 0 /\ linked'[id] # 0
      /\ \A x \in Ids : x # id => rows'[x] = rows[x] /\ creating'[x] = creating[x] /\ linked'[x] = linked[x]
  BY <1>1, <1>2 DEF FInv, FileTypes
<1>4. FileTypes' /\ Answered' /\ disk' \subseteq Ids /\ safe' \subseteq Ids
  BY <1>2, <1>3, ToolStays DEF FInv, FileTypes
<1>5. ASSUME NEW x \in Ids PROVE CreatedOnce(x)' /\ Spared(x)'
  <2>1. CreatedOnce(x) /\ Spared(x)
    BY DEF FInv
  <2>. QED  BY <1>2, <1>3, <2>1 DEF CreatedOnce, Used, Spared
<1>. QED  BY <1>4, <1>5 DEF FInv

LEMMA FFails ==
  ASSUME FInv, Shelf!BoundsAssumption, NEW id \in Ids, Shelf!InsertFails(id) \/ Shelf!InsertCancelled(id)
  PROVE  FInv'
<1>1. /\ creating[id] # 0 /\ disk' = disk \ {id} /\ creating' = [creating EXCEPT ![id] = 0]
      /\ UNCHANGED <<clock, rows, removing, prune, linked, safe>>
  BY DEF Shelf!InsertFails, Shelf!InsertCancelled, Shelf!GivesUp, Shelf!Undone
<1>2. creating' \in [Ids -> Nat] /\ creating'[id] = 0 /\ \A x \in Ids : x # id => creating'[x] = creating[x]
  BY <1>1 DEF FInv, FileTypes
<1>3. /\ late' \in [Ids -> Nat] /\ \A x \in Ids : x # id => late'[x] = late[x]
      /\ dropped \subseteq dropped' /\ dropped' \subseteq dropped \cup {id}
      /\ late'[id] # 0 => id \in dropped' \/ late[id] # 0
  BY DEF Shelf!InsertFails, Shelf!InsertCancelled, FInv, FileTypes
<1>4. tool' \in Calls /\ Answered'
  <2>1. CASE tool' = tool
    BY <1>1, <2>1, ToolStays DEF FInv, FileTypes
  <2>2. CASE tool' = [tool EXCEPT !.at = "failed"]
    BY <2>2 DEF FInv, FileTypes, Calls, Answered, Shelf!Ends
  <2>. QED  BY <2>1, <2>2 DEF Shelf!InsertFails, Shelf!InsertCancelled, Shelf!GivesUp
<1>5. ASSUME NEW x \in Ids PROVE CreatedOnce(x)' /\ Spared(x)'
  <2>1. CreatedOnce(x) /\ Spared(x) /\ rows[x] \in Nat /\ clock \in Nat
    BY DEF FInv, FileTypes
  <2>2. CASE x # id
    BY <1>1, <1>2, <1>3, <2>1, <2>2 DEF CreatedOnce, Used, Spared
  <2>3. CASE x = id
    <3>1. rows[id] = 0 /\ linked[id] = 0 /\ late[id] = 0 /\ id \notin dropped /\ removing[id] = "no"
      BY <1>1, <2>1, <2>3 DEF CreatedOnce, Used
    <3>2. ~(prune.at \in {"unlink", "sweep"} /\ id \in prune.ids)
      BY <2>1, <2>3, <3>1 DEF Spared, Used
    <3>. QED  BY <1>1, <1>2, <1>3, <2>1, <2>3, <3>1, <3>2 DEF CreatedOnce, Used, Spared
  <2>. QED  BY <2>2, <2>3
<1>. QED  BY <1>1, <1>2, <1>3, <1>4, <1>5 DEF FInv, FileTypes

\* The row of an INSERT that was given up: nobody was told of it.
LEMMA FLate ==
  ASSUME FInv, Shelf!BoundsAssumption, NEW id \in Ids, Shelf!InsertLate(id)
  PROVE  FInv'
<1>1. /\ late[id] # 0 /\ rows' = [rows EXCEPT ![id] = late[id]] /\ late' = [late EXCEPT ![id] = 0]
      /\ UNCHANGED <<clock, disk, creating, removing, prune, linked, dropped, safe, tool>>
  BY DEF Shelf!InsertLate
<1>2. /\ rows' \in [Ids -> Nat] /\ late' \in [Ids -> Nat] /\ rows'[id] # 0 /\ late'[id] = 0
      /\ \A x \in Ids : x # id => rows'[x] = rows[x] /\ late'[x] = late[x]
  BY <1>1 DEF FInv, FileTypes
<1>3. FileTypes' /\ Answered'
  BY <1>1, <1>2, ToolStays DEF FInv, FileTypes
<1>4. ASSUME NEW x \in Ids PROVE CreatedOnce(x)' /\ Spared(x)'
  <2>1. CreatedOnce(x) /\ Spared(x)
    BY DEF FInv
  <2>. QED  BY <1>1, <1>2, <2>1 DEF CreatedOnce, Used, Spared
<1>. QED  BY <1>1, <1>3, <1>4 DEF FInv

\* Deleting one: only its row, its file and how far the deletion is change.
LEMMA FDelete ==
  ASSUME FInv, Shelf!BoundsAssumption, NEW id \in Ids,
         Shelf!Delete(id) \/ Shelf!DeleteRow(id) \/ Shelf!DeleteFile(id) \/ Shelf!Missing(id)
  PROVE  FInv'
<1>1. UNCHANGED <<clock, creating, late, prune, linked, safe, tool>>
  BY DEF Shelf!Delete, Shelf!DeleteRow, Shelf!DeleteFile, Shelf!Missing
<1>2. /\ rows' \in [Ids -> Nat] /\ removing' \in [Ids -> {"no", "read", "gone"}] /\ disk' \subseteq disk
      /\ \A x \in Ids : x # id => /\ rows'[x] = rows[x] /\ removing'[x] = removing[x]
                                 /\ (x \in disk <=> x \in disk') /\ (x \in dropped <=> x \in dropped')
      /\ dropped \subseteq dropped' /\ (dropped' # dropped => removing[id] = "read")
  BY DEF FInv, FileTypes, Shelf!Delete, Shelf!DeleteRow, Shelf!DeleteFile, Shelf!Missing
<1>3. FileTypes' /\ Answered' /\ disk' \subseteq Ids /\ safe' \subseteq Ids
  BY <1>1, <1>2, ToolStays DEF FInv, FileTypes
<1>4. ASSUME NEW x \in Ids PROVE CreatedOnce(x)' /\ Spared(x)'
  <2>1. CreatedOnce(x) /\ Spared(x) /\ rows[x] \in Nat /\ clock \in Nat
    BY DEF FInv, FileTypes
  <2>2. CASE x # id
    BY <1>1, <1>2, <2>1, <2>2 DEF CreatedOnce, Used, Spared
  <2>3. CASE x = id
    <3>1. CASE Shelf!Delete(id)
      <4>1. /\ rows[id] # 0 /\ rows' = rows /\ disk' = disk /\ dropped' = dropped
            /\ removing'[id] = "read" /\ removing[id] = "no"
        BY <2>1, <2>3, <3>1 DEF Shelf!Delete, Shelf!Live, FInv, FileTypes
      <4>. QED  BY <1>1, <2>1, <2>3, <4>1 DEF CreatedOnce, Used, Spared
    <3>2. CASE Shelf!DeleteRow(id)
      <4>1. /\ rows'[id] = 0 /\ disk' = disk /\ dropped' = dropped \cup {id}
            /\ removing'[id] = "gone" /\ removing[id] = "read"
        BY <3>2 DEF Shelf!DeleteRow, FInv, FileTypes
      <4>. QED  BY <1>1, <2>1, <2>3, <4>1 DEF CreatedOnce, Used, Spared
    <3>3. CASE Shelf!DeleteFile(id)
      <4>1. /\ rows' = rows /\ id \notin disk' /\ dropped' = dropped
            /\ removing'[id] = "no" /\ removing[id] = "gone"
        BY <3>3 DEF Shelf!DeleteFile, FInv, FileTypes
      <4>. QED  BY <1>1, <2>1, <2>3, <4>1 DEF CreatedOnce, Used, Spared
    <3>4. CASE Shelf!Missing(id)
      <4>1. /\ rows'[id] = 0 /\ id \notin disk /\ disk' = disk /\ dropped' = dropped
            /\ removing' = removing
        BY <3>4 DEF Shelf!Missing, FInv, FileTypes
      <4>. QED  BY <1>1, <2>1, <2>3, <4>1 DEF CreatedOnce, Used, Spared
    <3>. QED  BY <3>1, <3>2, <3>3, <3>4
  <2>. QED  BY <2>2, <2>3
<1>. QED  BY <1>3, <1>4 DEF FInv

LEMMA FPrune ==
  ASSUME FInv, Shelf!BoundsAssumption, Shelf!Prune
  PROVE  FInv'
<1>1. UNCHANGED <<clock, creating, late, removing, linked, dropped, tool>>
  BY DEF Shelf!Prune, Shelf!PruneBegin, Shelf!PruneUnlink, Shelf!PruneDelete, Shelf!PruneList,
         Shelf!PruneSweep
<1>2. Answered'
  BY <1>1, ToolStays
<1>3. rows' \in [Ids -> Nat] /\ disk' \subseteq disk /\ safe' \subseteq safe
  BY DEF FInv, FileTypes, Shelf!Prune, Shelf!PruneBegin, Shelf!PruneUnlink, Shelf!PruneDelete,
         Shelf!PruneList, Shelf!PruneSweep, Shelf!Swept
<1>4. ASSUME NEW x \in Ids PROVE CreatedOnce(x)' /\ Spared(x)'
  <2>1. CreatedOnce(x) /\ Spared(x) /\ rows[x] \in Nat /\ clock \in Nat
    BY DEF FInv, FileTypes
  <2>2. CASE Shelf!PruneBegin
    <3>1. prune'.at = "unlink" /\ prune'.ids = {id \in Ids : Shelf!Expired(id)} /\ UNCHANGED <<disk, rows, safe>>
      BY <2>2 DEF Shelf!PruneBegin, Shelf!Step
    <3>. QED  BY <1>1, <2>1, <3>1 DEF CreatedOnce, Used, Spared, Shelf!Expired
  <2>3. CASE Shelf!PruneUnlink
    <3>1. prune.at = "unlink" /\ prune'.at = "delete" /\ disk' = disk \ prune.ids /\ UNCHANGED <<rows, safe>>
      BY <2>3 DEF Shelf!PruneUnlink, Shelf!Step
    <3>. QED  BY <1>1, <2>1, <3>1 DEF CreatedOnce, Used, Spared
  <2>4. CASE Shelf!PruneDelete
    <3>1. prune'.at = "list" /\ rows'[x] \in {0, rows[x]} /\ UNCHANGED <<disk, safe>>
      BY <2>4 DEF Shelf!PruneDelete, Shelf!Step
    <3>. QED  BY <1>1, <2>1, <3>1 DEF CreatedOnce, Used, Spared
  <2>5. CASE Shelf!PruneList
    <3>1. /\ prune'.at = "sweep" /\ prune'.ids = {id \in Ids : rows[id] # 0}
          /\ safe' = safe \ {id \in Ids : creating[id] # 0} /\ UNCHANGED <<disk, rows>>
      BY <2>5 DEF Shelf!PruneList, Shelf!Step, Shelf!RowsNow
    <3>. QED  BY <1>1, <2>1, <3>1 DEF CreatedOnce, Used, Spared
  <2>6. CASE Shelf!PruneSweep
    <3>1. prune.at = "sweep" /\ prune'.at = "idle" /\ disk' = disk \cap prune.ids /\ UNCHANGED <<rows, safe>>
      BY <2>6 DEF Shelf!PruneSweep, Shelf!Step, Shelf!Swept
    <3>. QED  BY <1>1, <2>1, <3>1 DEF CreatedOnce, Used, Spared
  <2>. QED  BY <2>2, <2>3, <2>4, <2>5, <2>6 DEF Shelf!Prune
<1>. QED  BY <1>1, <1>2, <1>3, <1>4 DEF FInv, FileTypes

LEMMA FOthers ==
  ASSUME FInv, Shelf!BoundsAssumption,
         Shelf!Tick \/ Shelf!Restart \/ Shelf!ToolBegin \/ (\E id \in Ids : Shelf!ToolMake(id))
           \/ Shelf!ToolFails \/ Shelf!ToolAnswers
  PROVE  FInv'
<1>1. CASE Shelf!Tick
  <2>1. clock' = clock + 1 /\ UNCHANGED <<disk, rows, creating, late, removing, prune, linked, dropped, safe, tool>>
    BY <1>1 DEF Shelf!Tick
  <2>2. ASSUME NEW x \in Ids PROVE CreatedOnce(x)' /\ Spared(x)'
    <3>1. CreatedOnce(x) /\ Spared(x) /\ rows[x] \in Nat /\ clock \in Nat
      BY DEF FInv, FileTypes
    <3>. QED  BY <2>1, <3>1 DEF CreatedOnce, Used, Spared
  <2>. QED  BY <2>1, <2>2, ToolStays DEF FInv, FileTypes
<1>2. CASE Shelf!Restart
  <2>1. /\ UNCHANGED <<clock, disk, rows, linked, dropped, safe>>
        /\ creating' = [id \in Ids |-> 0] /\ late' = creating' /\ removing' = [id \in Ids |-> "no"] /\ prune' = Shelf!NoPrune
    BY <1>2 DEF Shelf!Restart
  <2>2. ASSUME NEW x \in Ids PROVE CreatedOnce(x)' /\ Spared(x)'
    <3>1. CreatedOnce(x) /\ Spared(x)
      BY DEF FInv
    <3>. QED  BY <2>1, <3>1 DEF CreatedOnce, Used, Spared, Shelf!NoPrune
  <2>3. tool' \in Calls /\ Answered'
    <3>1. CASE tool' = tool
      BY <2>1, <3>1, ToolStays DEF FInv, FileTypes
    <3>2. CASE tool' = [tool EXCEPT !.at = "failed"]
      BY <3>2 DEF FInv, FileTypes, Calls, Answered, Shelf!Ends
    <3>. QED  BY <1>2, <3>1, <3>2 DEF Shelf!Restart
  <2>. QED  BY <2>1, <2>2, <2>3 DEF FInv, FileTypes
<1>3. CASE Shelf!ToolBegin \/ (\E id \in Ids : Shelf!ToolMake(id)) \/ Shelf!ToolFails \/ Shelf!ToolAnswers
  <2>1. UNCHANGED <<clock, disk, rows, creating, late, removing, prune, linked, dropped, safe>>
    BY <1>3 DEF Shelf!ToolBegin, Shelf!ToolMake, Shelf!ToolFails, Shelf!ToolAnswers, Shelf!NoFileMoves
  <2>2. ASSUME NEW x \in Ids PROVE CreatedOnce(x)' /\ Spared(x)'
    <3>1. CreatedOnce(x) /\ Spared(x)
      BY DEF FInv
    <3>. QED  BY <2>1, <3>1 DEF CreatedOnce, Used, Spared
  <2>3. tool' \in Calls /\ Answered'
    <3>1. CASE Shelf!ToolBegin \/ Shelf!ToolFails
      BY <3>1 DEF Shelf!ToolBegin, Shelf!ToolFails, Shelf!CallsTool, FInv, FileTypes, Calls, Answered, Shelf!Ends
    <3>2. ASSUME NEW id \in Ids, Shelf!ToolMake(id) PROVE tool' \in Calls /\ Answered'
      <4>1. PICK usable \in SUBSET {id} :
              tool' = [at |-> IF tool.made \cup {id} = Tool THEN "storing" ELSE "making",
                       made |-> tool.made \cup {id}, good |-> tool.good \cup usable]
        BY <3>2 DEF Shelf!ToolMake
      <4>2. id \in Tool /\ tool.made \subseteq Tool /\ tool.good \subseteq Tool
        BY <3>2 DEF Shelf!ToolMake, FInv, FileTypes, Calls
      <4>. QED  BY <4>1, <4>2 DEF Calls, Answered, Shelf!Ends
    <3>3. CASE Shelf!ToolAnswers
      BY <2>1, <3>3 DEF Shelf!ToolAnswers, Shelf!CallsTool, Shelf!Stored, FInv, FileTypes, Calls, Answered, Shelf!Ends
    <3>. QED  BY <1>3, <3>1, <3>2, <3>3
  <2>. QED  BY <2>1, <2>2, <2>3 DEF FInv, FileTypes
<1>. QED  BY <1>1, <1>2, <1>3

LEMMA FStep == Shelf!BoundsAssumption /\ FInv /\ [Shelf!Next]_(Shelf!vars) => FInv'
<1>. SUFFICES ASSUME Shelf!BoundsAssumption, FInv, [Shelf!Next]_(Shelf!vars) PROVE FInv'
  OBVIOUS
<1>1. ASSUME NEW id \in Ids, Shelf!Upload(id) \/ Shelf!ToolStore(id) PROVE FInv'
  BY <1>1, FCreate DEF Shelf!Upload, Shelf!ToolStore
<1>2. CASE UNCHANGED Shelf!vars
  <2>1. ASSUME NEW x \in Ids PROVE CreatedOnce(x)' /\ Spared(x)'
    <3>1. CreatedOnce(x) /\ Spared(x)
      BY DEF FInv
    <3>. QED  BY <1>2, <3>1 DEF CreatedOnce, Used, Spared, Shelf!vars
  <2>. QED  BY <1>2, <2>1 DEF FInv, FileTypes, Calls, Answered, Shelf!vars
<1>. QED  BY <1>1, <1>2, FInsert, FFails, FLate, FDelete, FPrune, FOthers DEF Shelf!Next

\* A file whose link was handed out, and whose creation no listing of the cleanup
\* overlapped, is there for as long as its row is alive; and an answered tool call
\* has asked for all its pictures and has a link for each that could be used, and
\* for one at least, whatever deletions, cleanups, cancellations and restarts cross
\* (create_bytes, delete, prune, _execute_image, _tool_result).
THEOREM FilesAreKeptAlways ==
  Shelf!BoundsAssumption => (Shelf!Spec => [](Shelf!KeptWhileAlive /\ Shelf!AnswerIsComplete))
<1>. SUFFICES ASSUME Shelf!BoundsAssumption PROVE Shelf!Spec => [](Shelf!KeptWhileAlive /\ Shelf!AnswerIsComplete)
  OBVIOUS
<1>1. Shelf!Init => FInv
  BY FInit
<1>2. FInv /\ [Shelf!Next]_(Shelf!vars) => FInv'
  BY FStep
<1>3. FInv => Shelf!KeptWhileAlive /\ Shelf!AnswerIsComplete
  <2>. SUFFICES ASSUME FInv PROVE Shelf!KeptWhileAlive /\ Shelf!AnswerIsComplete
    OBVIOUS
  <2>1. safe \subseteq Ids /\ (\A id \in Ids : Spared(id)) /\ Answered
    BY DEF FInv
  <2>2. Shelf!KeptWhileAlive
    BY <2>1 DEF Shelf!KeptWhileAlive, Shelf!Live, Spared
  <2>3. Shelf!AnswerIsComplete
    BY <2>1 DEF Shelf!AnswerIsComplete, Shelf!Stored, Answered
  <2>. QED  BY <2>2, <2>3
<1>. QED  BY <1>1, <1>2, <1>3, PTL DEF Shelf!Spec

\* A cleanup that runs when nobody else is at work leaves no file without a row
\* (prune).
THEOREM PruneMendsAlways == Shelf!BoundsAssumption => (Shelf!Spec => Shelf!QuietPruneMends)
<1>. SUFFICES ASSUME Shelf!BoundsAssumption PROVE Shelf!Spec => Shelf!QuietPruneMends
  OBVIOUS
<1>1. Shelf!Init => FInv
  BY FInit
<1>2. FInv /\ [Shelf!Next]_(Shelf!vars) => FInv'
  BY FStep
<1>3. FInv /\ [Shelf!Next]_(Shelf!vars) =>
        [Shelf!PruneSweep /\ (\A id \in Ids : creating[id] = 0 /\ removing[id] = "no")
           => disk' \subseteq {id \in Ids : rows[id] # 0}]_(Shelf!vars)
  <2>. SUFFICES ASSUME FInv, Shelf!PruneSweep, \A id \in Ids : creating[id] = 0 /\ removing[id] = "no",
                       NEW x \in disk'
                PROVE  x \in Ids /\ rows[x] # 0
    OBVIOUS
  <2>1. x \in disk /\ x \in prune.ids /\ x \in Ids /\ prune.at = "sweep"
    BY DEF Shelf!PruneSweep, Shelf!Step, Shelf!Swept, FInv
  <2>2. Spared(x)
    BY <2>1 DEF FInv
  <2>. QED  BY <2>1, <2>2 DEF Spared
<1>. QED  BY <1>1, <1>2, <1>3, PTL DEF Shelf!Spec, Shelf!QuietPruneMends

-----------------------------------------------------------------------------
(* The pictures a call makes (Pictures), for any requests, accounts, kinds of *)
(* calls and turns.                                                        *)
(*                                                                         *)
(* Where a call is says which permits it may have, its stream's and one other *)
(* at most (Permitted); and what it has shown or is to show is counted and can *)
(* be paid, with room for the picture it asks for (Payable).               *)
CONSTANTS Requests, Accounts, NoAccount, Seats, Afford, MaxData, Kinds, Turns
VARIABLES stage, asked, reserve, charge, permits, leaked

Show == INSTANCE Pictures WITH pc <- stage, call <- asked, hold <- reserve, bill <- charge,
  free <- permits, lost <- leaked, Limit <- Seats

\* What a call knows, without the bounds that follow from the rest.
Knows == [kind : Kinds, on : Accounts \cup {NoAccount}, tries : Nat, wants : Show!Wants,
  has : SUBSET Show!Permits,
          got : Nat, counted : Nat, priced : BOOLEAN, extra : Nat, todo : Seq({"image", "search"}),
          search : BOOLEAN, end : Show!Ends]

Shapes ==
  /\ stage \in [Requests -> Show!Phases] /\ asked \in [Requests -> Knows]
  /\ reserve \in [Requests -> {"none", "reserved", "settled", "pending", "released"}]
  /\ charge \in [Requests -> [paid : Nat, shown : Nat]]
  /\ permits \in [Accounts -> Nat] /\ leaked \in [Accounts -> Nat]

Asking == {"choosing", "ordering", "waiting", "asking", "fallback"}

\* Where a call is says which permits it may have, and of which account: one of
\* its stream and one of another request at most.
Permitted(place, c) ==
  /\ place \in {"idle", "choosing", "done"} => c.has = {}
  /\ place \in {"ordering", "waiting", "turn", "tools", "ending"} => c.has \subseteq {"seat"}
  /\ place \in {"ordering", "waiting"} => Show!Permit(c) \notin c.has
  /\ place = "asking" => Show!Permit(c) \in c.has /\ c.has \subseteq {"seat", Show!Permit(c)}
  /\ place = "fallback" => c.wants = "picture" /\ "post" \in c.has /\ c.has \subseteq {"seat", "post"}
  /\ place \in {"passing", "following"} => c.has \subseteq {"seat", "follow"}
  /\ place = "following" => "follow" \in c.has
  /\ place \in {"idle", "choosing", "ending", "done"} \/ c.on \in Accounts
  /\ c.has # {} => c.on \in Accounts
  /\ c.kind # "hosted" => c.wants = "picture" /\ "seat" \notin c.has /\ place \notin {"turn", "tools"}
  /\ place \in Asking /\ c.wants = "picture" /\ c.kind = "hosted" => c.todo # <<>>

\* Until a call is over it has paid nothing, and what it has shown or is to show
\* is counted and can be paid; there is room for the picture it asks for.
Payable(place, c, h, b) ==
  place \notin {"idle", "done"} =>
    /\ h \in {"reserved", "released"} /\ b.paid = 0
    /\ b.shown + c.extra <= c.counted /\ b.shown + c.extra <= Afford
    /\ place \in Asking /\ c.wants = "picture" => b.shown + c.extra + 1 <= Afford

\* What was settled.
Settled(place, c, h, b) ==
  place = "done" =>
    /\ c.kind = "endpoint" /\ c.end # "success" => b.paid = 0
    /\ c.kind # "endpoint" /\ c.priced /\ h = "settled" => b.shown <= b.paid

Fine(r) ==
  /\ Permitted(stage[r], asked[r])
  /\ Payable(stage[r], asked[r], reserve[r], charge[r])
  /\ Settled(stage[r], asked[r], reserve[r], charge[r])

Conserved(a) == IsFiniteSet(Show!Held(a)) /\ permits[a] + Cardinality(Show!Held(a)) + leaked[a] = Seats

PicInv == Shapes /\ (\A r \in Requests : Fine(r)) /\ \A a \in Accounts : Conserved(a)

Assumed == Show!PictureNames /\ Show!PictureBounds /\ Show!PictureTurns

-----------------------------------------------------------------------------
(* The permits.                                                            *)

\* The number of the elements of a set, as the component counts them.
Count(S) == Show!Cardinality(S)

LEMMA SameCount ==
  ASSUME NEW S
  PROVE  Count(S) = Cardinality(S)
BY DEF Count, Show!Cardinality, Cardinality

\* One request moves.
OneMoves(r) == asked' = [asked EXCEPT ![r] = asked'[r]]

\* A request that changes no permit changes nothing of what is held.
LEMMA HeldSame ==
  ASSUME Shapes, NEW r \in Requests, OneMoves(r), asked'[r].has = asked[r].has,
         asked'[r].on = asked[r].on \/ asked[r].has = {}, NEW a
  PROVE  Show!Held(a)' = Show!Held(a)
<1>1. \A q \in Requests : q # r => asked'[q] = asked[q]
  BY DEF OneMoves, Shapes
<1>. QED  BY <1>1 DEF Show!Held

LEMMA HeldMore ==
  ASSUME Shapes, NEW r \in Requests, OneMoves(r), NEW p \in Show!Permits, p \notin asked[r].has,
         asked'[r].has = asked[r].has \cup {p}, asked'[r].on = asked[r].on, NEW a
  PROVE  /\ asked[r].on = a => Show!Held(a)' = Show!Held(a) \cup {<<r, p>>} /\ <<r, p>> \notin Show!Held(a)
         /\ asked[r].on # a => Show!Held(a)' = Show!Held(a)
<1>1. \A q \in Requests : q # r => asked'[q] = asked[q]
  BY DEF OneMoves, Shapes
<1>. QED  BY <1>1 DEF Show!Held

LEMMA HeldLess ==
  ASSUME Shapes, NEW r \in Requests, OneMoves(r), NEW p \in Show!Permits, p \in asked[r].has,
         asked'[r].has = asked[r].has \ {p}, asked'[r].on = asked[r].on, NEW a
  PROVE  /\ asked[r].on = a => Show!Held(a)' = Show!Held(a) \ {<<r, p>>} /\ <<r, p>> \in Show!Held(a)
         /\ asked[r].on # a => Show!Held(a)' = Show!Held(a)
<1>1. \A q \in Requests : q # r => asked'[q] = asked[q]
  BY DEF OneMoves, Shapes
<1>. QED  BY <1>1 DEF Show!Held

\* None taken and none given back.
LEMMA StillConserved ==
  ASSUME PicInv, NEW r \in Requests, OneMoves(r), asked'[r].has = asked[r].has,
         asked'[r].on = asked[r].on \/ asked[r].has = {}, UNCHANGED <<permits, leaked>>
  PROVE  \A a \in Accounts : Conserved(a)'
<1>. SUFFICES ASSUME NEW a \in Accounts PROVE Conserved(a)'
  OBVIOUS
<1>1. Show!Held(a)' = Show!Held(a) /\ Conserved(a)
  BY HeldSame DEF PicInv
<1>. QED  BY <1>1 DEF Conserved

\* One taken.
LEMMA TakenConserved ==
  ASSUME PicInv, NEW r \in Requests, OneMoves(r), NEW p \in Show!Permits, p \notin asked[r].has,
         asked'[r].has = asked[r].has \cup {p}, asked'[r].on = asked[r].on, asked[r].on \in Accounts,
         permits[asked[r].on] > 0, permits' = [permits EXCEPT ![asked[r].on] = @ - 1], UNCHANGED leaked
  PROVE  permits' \in [Accounts -> Nat] /\ \A a \in Accounts : Conserved(a)'
<1>1. permits' \in [Accounts -> Nat]
  BY DEF PicInv, Shapes
<1>2. ASSUME NEW a \in Accounts PROVE Conserved(a)'
  <2>1. Conserved(a) /\ permits[a] \in Nat /\ leaked[a] \in Nat
    BY DEF PicInv, Shapes
  <2>2. Cardinality(Show!Held(a)) \in Nat
    BY <2>1, FS_CardinalityType DEF Conserved
  <2>3. CASE asked[r].on = a
    <3>1. Show!Held(a)' = Show!Held(a) \cup {<<r, p>>} /\ <<r, p>> \notin Show!Held(a)
      BY <2>3, HeldMore DEF PicInv
    <3>2. IsFiniteSet(Show!Held(a)) /\ <<r, p>> \notin Show!Held(a)
      BY <2>1, <3>1 DEF Conserved
    <3>3. /\ IsFiniteSet(Show!Held(a) \cup {<<r, p>>})
          /\ Cardinality(Show!Held(a) \cup {<<r, p>>}) = Cardinality(Show!Held(a)) + 1
      BY <3>2, FS_AddElement
    <3>4. permits'[a] = permits[a] - 1 /\ leaked'[a] = leaked[a]
      BY <2>3 DEF PicInv, Shapes
    <3>. QED  BY <2>1, <2>2, <3>1, <3>3, <3>4 DEF Conserved
  <2>4. CASE asked[r].on # a
    <3>1. Show!Held(a)' = Show!Held(a) /\ permits'[a] = permits[a] /\ leaked'[a] = leaked[a]
      BY <2>4, HeldMore DEF PicInv, Shapes
    <3>. QED  BY <2>1, <3>1 DEF Conserved
  <2>. QED  BY <2>3, <2>4
<1>. QED  BY <1>1, <1>2

\* One given back, or lost.
LEMMA GivenConserved ==
  ASSUME PicInv, NEW r \in Requests, OneMoves(r), NEW p \in Show!Permits, p \in asked[r].has,
         asked'[r].has = asked[r].has \ {p}, asked'[r].on = asked[r].on, asked[r].on \in Accounts,
         NEW back \in {0, 1}, permits' = [permits EXCEPT ![asked[r].on] = @ + back],
         leaked' = [leaked EXCEPT ![asked[r].on] = @ + (1 - back)]
  PROVE  /\ permits' \in [Accounts -> Nat] /\ leaked' \in [Accounts -> Nat]
         /\ \A a \in Accounts : Conserved(a)'
<1>1. permits' \in [Accounts -> Nat] /\ leaked' \in [Accounts -> Nat]
  BY DEF PicInv, Shapes
<1>2. ASSUME NEW a \in Accounts PROVE Conserved(a)'
  <2>1. Conserved(a) /\ permits[a] \in Nat /\ leaked[a] \in Nat
    BY DEF PicInv, Shapes
  <2>2. Cardinality(Show!Held(a)) \in Nat
    BY <2>1, FS_CardinalityType DEF Conserved
  <2>3. CASE asked[r].on = a
    <3>1. Show!Held(a)' = Show!Held(a) \ {<<r, p>>} /\ <<r, p>> \in Show!Held(a)
      BY <2>3, HeldLess DEF PicInv
    <3>2. IsFiniteSet(Show!Held(a)') /\ Cardinality(Show!Held(a)') = Cardinality(Show!Held(a)) - 1
      BY <2>1, <3>1, FS_RemoveElement DEF Conserved
    <3>3. permits'[a] = permits[a] + back /\ leaked'[a] = leaked[a] + (1 - back)
      BY <2>3 DEF PicInv, Shapes
    <3>. QED  BY <2>1, <2>2, <3>2, <3>3 DEF Conserved
  <2>4. CASE asked[r].on # a
    <3>1. Show!Held(a)' = Show!Held(a) /\ permits'[a] = permits[a] /\ leaked'[a] = leaked[a]
      BY <2>4, HeldLess DEF PicInv, Shapes
    <3>. QED  BY <2>1, <3>1 DEF Conserved
  <2>. QED  BY <2>3, <2>4
<1>. QED  BY <1>1, <1>2

-----------------------------------------------------------------------------
(* One request moves.                                                      *)

Holds == {"none", "reserved", "settled", "pending", "released"}
Charges == [paid : Nat, shown : Nat]

GoesOn(r, place, c, h, b) ==
  /\ stage' = [stage EXCEPT ![r] = place] /\ asked' = [asked EXCEPT ![r] = c]
  /\ reserve' = [reserve EXCEPT ![r] = h] /\ charge' = [charge EXCEPT ![r] = b]
OneFine(place, c, h, b) == Permitted(place, c) /\ Payable(place, c, h, b) /\ Settled(place, c, h, b)

LEMMA Moved ==
  ASSUME PicInv, NEW r \in Requests, NEW place \in Show!Phases, NEW c \in Knows, NEW h \in Holds,
         NEW b \in Charges,
         GoesOn(r, place, c, h, b), OneFine(place, c, h, b),
         permits' \in [Accounts -> Nat], leaked' \in [Accounts -> Nat], \A a \in Accounts : Conserved(a)'
  PROVE  PicInv'
<1>1. Shapes'
  BY DEF PicInv, Shapes, GoesOn, Holds, Charges
<1>2. ASSUME NEW q \in Requests PROVE Fine(q)'
  <2>1. CASE q = r
    <3>1. stage'[q] = place /\ asked'[q] = c /\ reserve'[q] = h /\ charge'[q] = b
      BY <2>1 DEF PicInv, Shapes, GoesOn
    <3>. QED  BY <3>1 DEF OneFine, Fine
  <2>2. CASE q # r
    <3>1. stage'[q] = stage[q] /\ asked'[q] = asked[q] /\ reserve'[q] = reserve[q] /\ charge'[q] = charge[q]
      BY <2>2 DEF PicInv, Shapes, GoesOn
    <3>2. Fine(q)
      BY DEF PicInv
    <3>. QED  BY <3>1, <3>2 DEF Fine
  <2>. QED  BY <2>1, <2>2
<1>. QED  BY <1>1, <1>2 DEF PicInv

\* What is known of the one that moves.
LEMMA Before ==
  ASSUME PicInv, NEW r \in Requests
  PROVE  /\ stage[r] \in Show!Phases /\ asked[r] \in Knows /\ reserve[r] \in Holds /\ charge[r] \in Charges
         /\ OneFine(stage[r], asked[r], reserve[r], charge[r])
         /\ UNCHANGED reserve => reserve' = [reserve EXCEPT ![r] = reserve[r]]
         /\ UNCHANGED charge => charge' = [charge EXCEPT ![r] = charge[r]]
         /\ UNCHANGED asked => asked' = [asked EXCEPT ![r] = asked[r]]
         /\ UNCHANGED stage => stage' = [stage EXCEPT ![r] = stage[r]]
BY DEF PicInv, Shapes, Fine, OneFine, Holds, Charges

\* A step that takes no permit and gives none back.
LEMMA MovedQuietly ==
  ASSUME PicInv, NEW r \in Requests, NEW place \in Show!Phases, NEW c \in Knows, NEW h \in Holds,
         NEW b \in Charges,
         GoesOn(r, place, c, h, b), OneFine(place, c, h, b), UNCHANGED <<permits, leaked>>,
         c.has = asked[r].has, c.on = asked[r].on \/ asked[r].has = {}
  PROVE  PicInv'
<1>1. asked'[r] = c /\ OneMoves(r)
  BY DEF PicInv, Shapes, GoesOn, OneMoves
<1>2. \A a \in Accounts : Conserved(a)'
  BY <1>1, StillConserved
<1>. QED  BY <1>2, Moved DEF PicInv, Shapes

\* A step that gives back one permit.
LEMMA MovedFree ==
  ASSUME PicInv, NEW r \in Requests, NEW place \in Show!Phases, NEW c \in Knows, NEW h \in Holds,
         NEW b \in Charges,
         GoesOn(r, place, c, h, b), OneFine(place, c, h, b), NEW p \in Show!Permits, p \in asked[r].has,
         c.has = asked[r].has \ {p}, c.on = asked[r].on, Show!Returns(r, 1), UNCHANGED leaked
  PROVE  PicInv'
<1>1. asked'[r] = c /\ OneMoves(r) /\ asked[r].on \in Accounts
  BY Before DEF PicInv, Shapes, GoesOn, OneMoves, OneFine, Permitted
<1>2. /\ permits' = [permits EXCEPT ![asked[r].on] = @ + 1]
      /\ leaked' = [leaked EXCEPT ![asked[r].on] = @ + (1 - 1)]
  BY <1>1 DEF PicInv, Shapes, Show!Returns
<1>3. permits' \in [Accounts -> Nat] /\ leaked' \in [Accounts -> Nat] /\ \A a \in Accounts : Conserved(a)'
  BY <1>1, <1>2, GivenConserved
<1>. QED  BY <1>3, Moved

-----------------------------------------------------------------------------
(* The way to an upstream request.                                         *)

LEMMA NewIsKnown ==
  ASSUME NEW kind \in Kinds, NEW priced \in BOOLEAN
  PROVE  [Show!NewCall(kind) EXCEPT !.priced = priced] \in Knows
<1>1. <<>> \in Seq({"image", "search"})
  OBVIOUS
<1>. QED  BY <1>1 DEF Show!NewCall, Knows, Show!Wants, Show!Ends

LEMMA PBegin ==
  ASSUME Assumed, PicInv, NEW r \in Requests, NEW kind \in Kinds, NEW priced \in BOOLEAN,
         Show!Begin(r, kind, priced)
  PROVE  PicInv'
<1>. DEFINE c == [Show!NewCall(kind) EXCEPT !.priced = priced]
<1>1. c \in Knows /\ c.has = {} /\ c.extra = 0 /\ c.counted = 0 /\ (c.kind = "hosted" => c.wants = "turn")
        /\ (c.kind # "hosted" => c.wants = "picture")
  BY NewIsKnown DEF Show!NewCall
<1>2. GoesOn(r, "choosing", c, "reserved", Show!NoBill) /\ UNCHANGED <<permits, leaked>> /\ asked[r].has = {}
  BY Before DEF Show!Begin, Show!Becomes, Show!Goes, GoesOn, OneFine, Permitted
<1>. HIDE DEF c
<1>3. Show!NoBill \in Charges /\ "reserved" \in Holds /\ "choosing" \in Show!Phases /\ Afford \in Nat \ {0}
  BY DEF Show!NoBill, Charges, Holds, Show!Phases, Assumed, Show!PictureBounds
<1>4. Payable("choosing", c, "reserved", Show!NoBill)
  BY <1>1, <1>3 DEF Payable, Show!NoBill
<1>5. Permitted("choosing", c) /\ Settled("choosing", c, "reserved", Show!NoBill)
  BY <1>1 DEF Permitted, Settled
<1>. QED  BY <1>1, <1>2, <1>3, <1>4, <1>5, MovedQuietly DEF OneFine

LEMMA PChoose ==
  ASSUME PicInv, NEW r \in Requests, NEW a \in Accounts, Show!Choose(r, a)
  PROVE  PicInv'
<1>. DEFINE c == [asked[r] EXCEPT !.on = a]
<1>1. c \in Knows /\ c.on = a /\ c.has = asked[r].has /\ c.extra = asked[r].extra /\ c.counted = asked[r].counted
        /\ c.wants = asked[r].wants /\ c.kind = asked[r].kind /\ c.todo = asked[r].todo
  BY Before DEF Knows
<1>2. /\ GoesOn(r, "ordering", c, reserve[r], charge[r]) /\ UNCHANGED <<permits, leaked>> /\ asked[r].has = {}
      /\ stage[r] = "choosing"
  BY Before DEF Show!Choose, Show!At, Show!Becomes, Show!Goes, GoesOn, OneFine, Permitted
<1>. HIDE DEF c
<1>3. Permitted("ordering", c) /\ Payable("ordering", c, reserve[r], charge[r])
        /\ Settled("ordering", c, reserve[r], charge[r])
  BY <1>1, <1>2, Before DEF OneFine, Permitted, Payable, Settled, Asking
<1>. QED  BY <1>1, <1>2, <1>3, Before, MovedQuietly DEF OneFine, Show!Phases

\* What a step leaves of a call that only goes somewhere else.
Like(c, d) ==
  /\ c \in Knows /\ c.on = d.on /\ c.kind = d.kind /\ c.extra = d.extra /\ c.counted = d.counted

\* A call that ends at once, with what it has.
Closable(r) ==
  \/ stage[r] \in {"choosing", "ordering", "waiting", "turn", "tools", "ending"}
  \/ stage[r] = "passing" /\ "follow" \notin asked[r].has

LEMMA PClose ==
  ASSUME PicInv, NEW r \in Requests, NEW c, Like(c, asked[r]), c.has = asked[r].has,
         c.wants = asked[r].wants,
         asked' = [asked EXCEPT ![r] = c], stage' = [stage EXCEPT ![r] = "ending"],
         UNCHANGED <<reserve, charge, permits, leaked>>, Closable(r)
  PROVE  PicInv'
<1>1. c \in Knows /\ GoesOn(r, "ending", c, reserve[r], charge[r])
  BY Before DEF GoesOn, Like
<1>2. Permitted("ending", c)
  BY Before DEF OneFine, Permitted, Asking, Closable, Like
<1>3. Payable("ending", c, reserve[r], charge[r]) /\ Settled("ending", c, reserve[r], charge[r])
  BY Before DEF OneFine, Payable, Settled, Asking, Closable, Like
<1>. QED  BY <1>1, <1>2, <1>3, Before, MovedQuietly DEF OneFine, Show!Phases, Like

LEMMA PCloses ==
  ASSUME PicInv, NEW r \in Requests, NEW how \in Show!Ends, Show!Closes(r, asked[r], how),
         UNCHANGED <<reserve, charge, permits, leaked>>, Closable(r)
  PROVE  PicInv'
<1>. DEFINE c == [asked[r] EXCEPT !.end = how]
<1>1. Like(c, asked[r]) /\ c.has = asked[r].has /\ c.wants = asked[r].wants
  BY Before DEF Knows, Like
<1>2. asked' = [asked EXCEPT ![r] = c] /\ stage' = [stage EXCEPT ![r] = "ending"]
  BY DEF Show!Closes, Show!Becomes, Show!Goes
<1>. HIDE DEF c
<1>. QED  BY <1>1, <1>2, PClose

LEMMA POrder ==
  ASSUME PicInv, NEW r \in Requests, Show!Order(r)
  PROVE  PicInv'
<1>. DEFINE c == [asked[r] EXCEPT !.tries = @ + 1]
<1>1. c \in Knows /\ c.on = asked[r].on /\ c.has = asked[r].has /\ c.extra = asked[r].extra
        /\ c.counted = asked[r].counted /\ c.wants = asked[r].wants /\ c.kind = asked[r].kind
             /\ c.todo = asked[r].todo
  BY Before DEF Knows
<1>2. CASE Show!Covered(r)
  <2>1. GoesOn(r, "waiting", c, reserve[r], charge[r]) /\ UNCHANGED <<permits, leaked>> /\ stage[r] = "ordering"
    BY <1>2, Before DEF Show!Order, Show!At, Show!Becomes, Show!Goes, GoesOn
  <2>. HIDE DEF c
  <2>2. Show!Permit(c) = Show!Permit(asked[r])
    BY <1>1 DEF Show!Permit
  <2>3. Permitted("waiting", c)
    BY <1>1, <2>1, <2>2, Before DEF OneFine, Permitted, Asking
  <2>4. Payable("waiting", c, reserve[r], charge[r]) /\ Settled("waiting", c, reserve[r], charge[r])
    BY <1>1, <2>1, Before DEF OneFine, Payable, Settled, Asking
  <2>. QED  BY <1>1, <2>1, <2>3, <2>4, Before, MovedQuietly DEF OneFine, Show!Phases
<1>3. CASE ~Show!Covered(r)
  <2>1. Show!Closes(r, asked[r], "failed") /\ UNCHANGED <<reserve, charge, permits, leaked>> /\ Closable(r)
    BY <1>3 DEF Show!Order, Show!At, Closable
  <2>2. "failed" \in Show!Ends
    BY DEF Show!Ends
  <2>. QED  BY <2>1, <2>2, PCloses
<1>. QED  BY <1>2, <1>3

LEMMA PermitIs ==
  ASSUME NEW c
  PROVE  /\ c.wants = "turn" => Show!Permit(c) = "seat"
         /\ c.wants = "follow" => Show!Permit(c) = "follow"
         /\ c.wants \notin {"turn", "follow"} => Show!Permit(c) = "post"
         /\ Show!Permit(c) \in Show!Permits
<1>1. CASE c.wants = "turn"
  BY <1>1 DEF Show!Permit, Show!Permits
<1>2. CASE c.wants = "follow"
  BY <1>2 DEF Show!Permit, Show!Permits
<1>3. CASE c.wants \notin {"turn", "follow"}
  BY <1>3 DEF Show!Permit, Show!Permits
<1>. QED  BY <1>1, <1>2, <1>3

LEMMA PTake ==
  ASSUME PicInv, NEW r \in Requests, Show!Take(r)
  PROVE  PicInv'
<1>. DEFINE p == Show!Permit(asked[r])
            c == [asked[r] EXCEPT !.has = @ \cup {p}]
<1>1. p \in Show!Permits
  BY PermitIs
<1>2. /\ stage[r] = "waiting" /\ p \notin asked[r].has /\ asked[r].on \in Accounts /\ p \in Show!Permits
  BY <1>1, Before DEF Show!Take, Show!At, OneFine, Permitted, Show!Permits
<1>3. /\ c \in Knows /\ c.on = asked[r].on /\ c.has = asked[r].has \cup {p} /\ c.extra = asked[r].extra
      /\ c.counted = asked[r].counted /\ c.wants = asked[r].wants /\ c.kind = asked[r].kind
           /\ c.todo = asked[r].todo
  BY <1>2, Before DEF Knows
<1>4. /\ GoesOn(r, "asking", c, reserve[r], charge[r]) /\ permits[asked[r].on] > 0
      /\ permits' = [permits EXCEPT ![asked[r].on] = @ - 1] /\ UNCHANGED leaked
  BY Before DEF Show!Take, Show!At, Show!Becomes, Show!Goes, GoesOn
<1>5. Show!Permit(c) = p
  BY <1>3 DEF Show!Permit
<1>6. asked[r].kind # "hosted" => p = "post"
  BY PermitIs, Before DEF OneFine, Permitted
<1>. HIDE DEF c, p
<1>7. Permitted("asking", c)
  BY <1>2, <1>3, <1>5, <1>6, Before DEF OneFine, Permitted, Asking
<1>8. Payable("asking", c, reserve[r], charge[r]) /\ Settled("asking", c, reserve[r], charge[r])
  BY <1>2, <1>3, Before DEF OneFine, Payable, Settled, Asking
<1>9. OneMoves(r) /\ asked'[r] = c
  BY <1>4 DEF PicInv, Shapes, GoesOn, OneMoves
<1>10. permits' \in [Accounts -> Nat] /\ \A a \in Accounts : Conserved(a)'
  BY <1>2, <1>3, <1>4, <1>9, TakenConserved
<1>. QED  BY <1>3, <1>4, <1>7, <1>8, <1>10, Before, Moved DEF OneFine, Show!Phases, PicInv, Shapes

LEMMA PTimeout ==
  ASSUME PicInv, NEW r \in Requests, Show!QueueTimeout(r)
  PROVE  PicInv'
<1>1. stage[r] = "waiting" /\ UNCHANGED <<reserve, charge, permits, leaked>> /\ "failed" \in Show!Ends
  BY DEF Show!QueueTimeout, Show!At, Show!Ends
<1>2. CASE asked[r].kind = "endpoint" /\ asked[r].tries < 2
  <2>1. GoesOn(r, "choosing", asked[r], reserve[r], charge[r])
    BY <1>1, <1>2, Before DEF Show!QueueTimeout, Show!Errs, Show!Becomes, Show!Goes, GoesOn
  <2>2. Permitted("choosing", asked[r])
    BY <1>1, <1>2, Before DEF OneFine, Permitted, Asking
  <2>3. Payable("choosing", asked[r], reserve[r], charge[r])
          /\ Settled("choosing", asked[r], reserve[r], charge[r])
    BY <1>1, Before DEF OneFine, Payable, Settled, Asking
  <2>. QED  BY <1>1, <2>1, <2>2, <2>3, Before, MovedQuietly DEF OneFine, Show!Phases
<1>3. CASE ~(asked[r].kind = "endpoint" /\ asked[r].tries < 2)
  <2>1. Show!Closes(r, asked[r], "failed") /\ Closable(r)
    BY <1>1, <1>3 DEF Show!QueueTimeout, Show!Errs, Closable
  <2>. QED  BY <1>1, <2>1, PCloses
<1>. QED  BY <1>2, <1>3

-----------------------------------------------------------------------------
(* What the upstream does.                                                 *)

LEMMA PFallback ==
  ASSUME PicInv, NEW r \in Requests, Show!Fallback(r)
  PROVE  PicInv'
<1>1. stage[r] = "asking" /\ asked[r].wants = "picture" /\ asked[r].kind # "hosted" /\ UNCHANGED <<permits,
        leaked>>
  BY DEF Show!Fallback, Show!At
<1>2. GoesOn(r, "fallback", asked[r], reserve[r], charge[r])
  BY Before DEF Show!Fallback, Show!Goes, GoesOn
<1>3. Show!Permit(asked[r]) = "post"
  BY <1>1, PermitIs
<1>4. Permitted("fallback", asked[r])
  BY <1>1, <1>3, Before DEF OneFine, Permitted, Asking
<1>5. Payable("fallback", asked[r], reserve[r], charge[r]) /\ Settled("fallback", asked[r], reserve[r], charge[r])
  BY <1>1, Before DEF OneFine, Payable, Settled, Asking
<1>. QED  BY <1>1, <1>2, <1>4, <1>5, Before, MovedQuietly DEF OneFine, Show!Phases

\* The call that waits for an answer has the permit it asked under, and at most
\* its stream's besides.
LEMMA Answering ==
  ASSUME PicInv, NEW r \in Requests, stage[r] \in {"asking", "fallback"}
  PROVE  /\ Show!Permit(asked[r]) \in asked[r].has /\ asked[r].has \subseteq {"seat", Show!Permit(asked[r])}
         /\ Show!Permit(asked[r]) \in Show!Permits
         /\ asked[r].on \in Accounts
         /\ asked[r].wants = "picture" => Show!Permit(asked[r]) = "post"
         /\ asked[r].kind # "hosted" => asked[r].wants = "picture" /\ "seat" \notin asked[r].has
<1>1. CASE stage[r] = "asking"
  BY <1>1, PermitIs, Before DEF OneFine, Permitted
<1>2. CASE stage[r] = "fallback"
  BY <1>2, PermitIs, Before DEF OneFine, Permitted
<1>. QED  BY <1>1, <1>2

LEMMA PRefused ==
  ASSUME PicInv, NEW r \in Requests, NEW again \in BOOLEAN, Show!Refused(r, again)
  PROVE  PicInv'
<1>. DEFINE p == Show!Permit(asked[r])
            w == Show!Without(asked[r], p)
            c == [w EXCEPT !.end = "failed"]
<1>1. stage[r] \in {"asking", "fallback"} /\ UNCHANGED <<reserve, charge, leaked>> /\ Show!Returns(r, 1)
  BY DEF Show!Refused, Show!Released
<1>2. /\ p \in Show!Permits /\ p \in asked[r].has /\ asked[r].has \subseteq {"seat",
           p} /\ asked[r].on \in Accounts
      /\ asked[r].kind # "hosted" => asked[r].wants = "picture" /\ "seat" \notin asked[r].has
  BY <1>1, Answering
<1>3. /\ Like(w, asked[r]) /\ w.has = asked[r].has \ {p} /\ w.wants = asked[r].wants /\ w.todo = asked[r].todo
      /\ Like(c, asked[r]) /\ c.has = asked[r].has \ {p} /\ c.wants = asked[r].wants
  BY Before DEF Knows, Like, Show!Without, Show!Ends
<1>. DEFINE retried == again /\ asked[r].kind = "endpoint" /\ asked[r].tries < 2
<1>4. \/ GoesOn(r, "choosing", w, reserve[r], charge[r]) /\ asked[r].kind = "endpoint"
      \/ GoesOn(r, "ending", c, reserve[r], charge[r])
  <2>1. w.kind = asked[r].kind /\ w.tries = asked[r].tries
    BY Before DEF Knows, Show!Without
  <2>2. Show!Errs(r, w, again)
    BY DEF Show!Refused
  <2>. HIDE DEF w
  <2>3. CASE retried
    <3>1. asked' = [asked EXCEPT ![r] = w] /\ stage' = [stage EXCEPT ![r] = "choosing"]
      BY <2>1, <2>2, <2>3 DEF Show!Errs, Show!Becomes, Show!Goes
    <3>. QED  BY <1>1, <2>3, <3>1, Before DEF GoesOn
  <2>4. CASE ~retried
    <3>1. asked' = [asked EXCEPT ![r] = c] /\ stage' = [stage EXCEPT ![r] = "ending"]
      BY <2>1, <2>2, <2>4 DEF Show!Errs, Show!Closes, Show!Becomes, Show!Goes
    <3>. QED  BY <1>1, <3>1, Before DEF GoesOn
  <2>. QED  BY <2>3, <2>4
<1>. HIDE DEF p, w, c
<1>5. CASE GoesOn(r, "choosing", w, reserve[r], charge[r]) /\ asked[r].kind = "endpoint"
  <2>1. Permitted("choosing", w)
    BY <1>1, <1>2, <1>3, <1>5, Before DEF OneFine, Permitted, Asking, Like
  <2>2. Payable("choosing", w, reserve[r], charge[r]) /\ Settled("choosing", w, reserve[r], charge[r])
    BY <1>1, <1>3, Before DEF OneFine, Payable, Settled, Asking, Like
  <2>. QED  BY <1>1, <1>2, <1>3, <1>5, <2>1, <2>2, Before, MovedFree DEF OneFine, Show!Phases, Like
<1>6. CASE GoesOn(r, "ending", c, reserve[r], charge[r])
  <2>1. Permitted("ending", c)
    BY <1>1, <1>2, <1>3, Before DEF OneFine, Permitted, Asking, Like
  <2>2. Payable("ending", c, reserve[r], charge[r]) /\ Settled("ending", c, reserve[r], charge[r])
    BY <1>1, <1>3, Before DEF OneFine, Payable, Settled, Asking, Like
  <2>. QED  BY <1>1, <1>2, <1>3, <1>6, <2>1, <2>2, Before, MovedFree DEF OneFine, Show!Phases, Like
<1>. QED  BY <1>4, <1>5, <1>6

\* The answer to a picture ends the call, with the permit given back.
LEMMA PAnswered ==
  ASSUME PicInv, NEW r \in Requests, stage[r] \in {"asking", "fallback"}, asked[r].wants = "picture",
         NEW c, Like(c, asked[r]), c.has = asked[r].has \ {"post"}, c.wants = asked[r].wants,
         GoesOn(r, "ending", c, reserve[r], charge[r]), Show!Returns(r, 1), UNCHANGED leaked
  PROVE  PicInv'
<1>1. "post" \in asked[r].has /\ asked[r].has \subseteq {"seat", "post"} /\ asked[r].on \in Accounts
  BY Answering
<1>2. Permitted("ending", c)
  BY <1>1, Before DEF OneFine, Permitted, Asking, Like
<1>3. Payable("ending", c, reserve[r], charge[r]) /\ Settled("ending", c, reserve[r], charge[r])
  BY Before DEF OneFine, Payable, Settled, Asking, Like
<1>. QED  BY <1>1, <1>2, <1>3, Before, MovedFree DEF OneFine, Show!Phases, Like, Show!Permits

LEMMA PListed ==
  ASSUME Assumed, PicInv, NEW r \in Requests, NEW n \in 1..MaxData, Show!Listed(r, n)
  PROVE  PicInv'
<1>. DEFINE c == [Show!Without(asked[r], "post") EXCEPT !.got = n, !.end = "success"]
<1>1. n \in Nat
  BY DEF Assumed, Show!PictureBounds
<1>2. Like(c, asked[r]) /\ c.has = asked[r].has \ {"post"} /\ c.wants = asked[r].wants
  BY <1>1, Before DEF Knows, Like, Show!Without, Show!Ends
<1>3. /\ stage[r] \in {"asking", "fallback"} /\ asked[r].wants = "picture"
      /\ GoesOn(r, "ending", c, reserve[r], charge[r]) /\ Show!Returns(r, 1) /\ UNCHANGED leaked
  BY Before DEF Show!Listed, Show!Pictured, Show!Becomes, Show!Goes, GoesOn, Show!Released
<1>. HIDE DEF c
<1>. QED  BY <1>2, <1>3, PAnswered

LEMMA PNoBytes ==
  ASSUME PicInv, NEW r \in Requests, Show!NoBytes(r)
  PROVE  PicInv'
<1>. DEFINE c == [Show!Without(asked[r], "post") EXCEPT !.end = "failed"]
<1>1. Like(c, asked[r]) /\ c.has = asked[r].has \ {"post"} /\ c.wants = asked[r].wants
  BY Before DEF Knows, Like, Show!Without, Show!Ends
<1>2. /\ stage[r] \in {"asking", "fallback"} /\ asked[r].wants = "picture"
      /\ GoesOn(r, "ending", c, reserve[r], charge[r]) /\ Show!Returns(r, 1) /\ UNCHANGED leaked
  BY Before DEF Show!NoBytes, Show!Pictured, Show!Becomes, Show!Goes, GoesOn, Show!Released
<1>. HIDE DEF c
<1>. QED  BY <1>1, <1>2, PAnswered

\* One picture more is counted and to be passed on.
LEMMA PCounted ==
  ASSUME PicInv, NEW r \in Requests, stage[r] \in {"asking", "fallback"}, asked[r].wants = "picture",
         NEW c \in Knows, c.has = asked[r].has \ {"post"}, c.wants = asked[r].wants, c.on = asked[r].on,
         c.kind = asked[r].kind, NEW n \in Nat \ {0}, c.counted = asked[r].counted + n,
         c.extra = asked[r].extra + 1, NEW place \in {"passing", "tools"},
         place = "tools" => asked[r].kind = "hosted",
         GoesOn(r, place, c, reserve[r], charge[r]), Show!Returns(r, 1), UNCHANGED leaked, Assumed
  PROVE  PicInv'
<1>1. "post" \in asked[r].has /\ asked[r].has \subseteq {"seat", "post"} /\ asked[r].on \in Accounts
  BY Answering
<1>2. Permitted(place, c)
  BY <1>1, Before DEF OneFine, Permitted, Asking
<1>3. /\ reserve[r] \in {"reserved", "released"} /\ charge[r].paid = 0
      /\ charge[r].shown + asked[r].extra <= asked[r].counted
      /\ charge[r].shown + asked[r].extra + 1 <= Afford
  BY Before DEF OneFine, Payable, Asking
<1>4. /\ charge[r].shown \in Nat /\ asked[r].extra \in Nat /\ asked[r].counted \in Nat /\ Afford \in Nat
  BY Before DEF Charges, Knows, Assumed, Show!PictureBounds
<1>5. Payable(place, c, reserve[r], charge[r]) /\ Settled(place, c, reserve[r], charge[r])
  BY <1>3, <1>4 DEF Payable, Settled, Asking
<1>. QED  BY <1>1, <1>2, <1>5, Before, MovedFree DEF OneFine, Show!Phases, Show!Permits

LEMMA CountedIs ==
  ASSUME NEW d \in Knows, NEW n \in Nat \ {0}
  PROVE  LET c == Show!Counted(d, n)
         IN  /\ c \in Knows /\ c.has = d.has \ {"post"} /\ c.wants = d.wants /\ c.on = d.on
             /\ c.kind = d.kind /\ c.counted = d.counted + n /\ c.extra = d.extra + 1 /\ c.todo = d.todo
             /\ c.tries = d.tries
<1>. DEFINE w == Show!Without(d, "post")
<1>1. /\ w \in Knows /\ w.has = d.has \ {"post"} /\ w.wants = d.wants /\ w.on = d.on
      /\ w.kind = d.kind /\ w.counted = d.counted /\ w.extra = d.extra /\ w.todo = d.todo
      /\ w.tries = d.tries
  BY DEF Knows, Show!Without
<1>. DEFINE v == [w EXCEPT !.counted = w.counted + n, !.extra = w.extra + 1]
<1>2. Show!Counted(d, n) = [w EXCEPT !.counted = @ + n, !.extra = @ + 1]
  BY DEF Show!Counted
<1>. HIDE DEF w
<1>3. [w EXCEPT !.counted = @ + n, !.extra = @ + 1] = v
  BY <1>1 DEF Knows
<1>4. w.counted + n \in Nat /\ w.extra + 1 \in Nat
  BY <1>1 DEF Knows
<1>5. /\ v \in Knows /\ v.has = w.has /\ v.wants = w.wants /\ v.on = w.on
      /\ v.kind = w.kind /\ v.counted = w.counted + n /\ v.extra = w.extra + 1 /\ v.todo = w.todo
      /\ v.tries = w.tries
  BY <1>1, <1>4 DEF Knows
<1>. HIDE DEF v
<1>. QED  BY <1>1, <1>2, <1>3, <1>5

LEMMA PSynthetic ==
  ASSUME Assumed, PicInv, NEW r \in Requests, NEW n \in 1..MaxData, Show!Synthetic(r, n)
  PROVE  PicInv'
<1>. DEFINE c == Show!Counted(asked[r], n)
<1>1. n \in Nat \ {0}
  BY DEF Assumed, Show!PictureBounds
<1>2. /\ c \in Knows /\ c.has = asked[r].has \ {"post"} /\ c.wants = asked[r].wants /\ c.on = asked[r].on
      /\ c.kind = asked[r].kind /\ c.counted = asked[r].counted + n /\ c.extra = asked[r].extra + 1
  BY <1>1, Before, CountedIs
<1>3. /\ stage[r] \in {"asking", "fallback"} /\ asked[r].wants = "picture"
      /\ GoesOn(r, "passing", c, reserve[r], charge[r]) /\ Show!Returns(r, 1) /\ UNCHANGED leaked
  BY Before DEF Show!Synthetic, Show!Pictured, Show!Becomes, Show!Goes, GoesOn, Show!Released
<1>. HIDE DEF c
<1>. QED  BY <1>1, <1>2, <1>3, PCounted

LEMMA TailOf ==
  ASSUME NEW s \in Seq({"image", "search"}), s # <<>>
  PROVE  Tail(s) \in Seq({"image", "search"})
OBVIOUS

LEMMA PHosted ==
  ASSUME Assumed, PicInv, NEW r \in Requests, NEW n \in 1..MaxData, Show!Hosted(r, n)
  PROVE  PicInv'
<1>. DEFINE w == Show!Counted(asked[r], n)
            c == [w EXCEPT !.todo = Tail(w.todo), !.priced = TRUE]
<1>1. /\ stage[r] \in {"asking", "fallback"} /\ asked[r].wants = "picture" /\ asked[r].kind = "hosted"
      /\ Show!Returns(r, 1) /\ UNCHANGED leaked
  BY DEF Show!Hosted, Show!Pictured, Show!Released
<1>2. n \in Nat \ {0}
  BY DEF Assumed, Show!PictureBounds
<1>3. /\ w \in Knows /\ w.has = asked[r].has \ {"post"} /\ w.wants = asked[r].wants /\ w.on = asked[r].on
      /\ w.kind = asked[r].kind /\ w.counted = asked[r].counted + n /\ w.extra = asked[r].extra + 1
      /\ w.todo = asked[r].todo
  BY <1>2, Before, CountedIs
<1>4. asked' = [asked EXCEPT ![r] = [w EXCEPT !.todo = Tail(@), !.priced = TRUE]]
        /\ stage' = [stage EXCEPT ![r] = "tools"]
        /\ UNCHANGED <<reserve, charge>>
  BY DEF Show!Hosted, Show!Pictured, Show!Becomes, Show!Goes
<1>. HIDE DEF w
<1>5. [w EXCEPT !.todo = Tail(@), !.priced = TRUE] = c
  BY <1>3 DEF Knows
<1>6. GoesOn(r, "tools", c, reserve[r], charge[r])
  BY <1>4, <1>5, Before DEF GoesOn
<1>7. w.todo # <<>> /\ w.todo \in Seq({"image", "search"})
  BY <1>1, <1>3, Before DEF OneFine, Permitted, Asking, Knows
<1>8. Tail(w.todo) \in Seq({"image", "search"})
  BY <1>7, TailOf
<1>9. /\ c \in Knows /\ c.has = w.has /\ c.wants = w.wants /\ c.on = w.on
      /\ c.kind = w.kind /\ c.counted = w.counted /\ c.extra = w.extra
  BY <1>3, <1>8 DEF Knows
<1>. HIDE DEF c
<1>. QED  BY <1>1, <1>2, <1>3, <1>6, <1>9, PCounted

LEMMA POpened ==
  ASSUME PicInv, NEW r \in Requests, Show!Opened(r)
  PROVE  PicInv'
<1>. DEFINE place == IF asked[r].wants = "turn" THEN "turn" ELSE "passing"
<1>1. stage[r] = "asking" /\ asked[r].wants # "picture" /\ UNCHANGED <<permits, leaked>>
  BY DEF Show!Opened, Show!At
<1>2. GoesOn(r, place, asked[r], reserve[r], charge[r])
  BY Before DEF Show!Opened, Show!Goes, GoesOn
<1>3. asked[r].wants \in {"turn", "follow"} /\ asked[r].kind = "hosted"
  BY <1>1, Answering, Before DEF Knows, Show!Wants
<1>4. /\ asked[r].wants = "turn" => place = "turn" /\ Show!Permit(asked[r]) = "seat"
      /\ asked[r].wants = "follow" => place = "passing" /\ Show!Permit(asked[r]) = "follow"
  BY PermitIs
<1>. HIDE DEF place
<1>5. Permitted(place, asked[r])
  BY <1>1, <1>3, <1>4, Answering DEF Permitted, Asking
<1>6. Payable(place, asked[r], reserve[r], charge[r]) /\ Settled(place, asked[r], reserve[r], charge[r])
  BY <1>1, <1>3, <1>4, Before DEF OneFine, Payable, Settled, Asking
<1>7. place \in Show!Phases
  BY <1>3, <1>4 DEF Show!Phases
<1>. QED  BY <1>1, <1>2, <1>5, <1>6, <1>7, Before, MovedQuietly DEF OneFine

-----------------------------------------------------------------------------
(* The turn of a WorkBuddy model.                                          *)

LEMMA PTurnEnds ==
  ASSUME Assumed, PicInv, NEW r \in Requests, NEW todo \in Turns, Show!TurnEnds(r, todo)
  PROVE  PicInv'
<1>. DEFINE c == [asked[r] EXCEPT !.todo = todo]
<1>1. stage[r] = "turn" /\ UNCHANGED <<reserve, charge, permits, leaked>> /\ "success" \in Show!Ends
  BY DEF Show!TurnEnds, Show!At, Show!Ends
<1>2. CASE todo = <<>>
  <2>1. Show!Closes(r, asked[r], "success") /\ Closable(r)
    BY <1>1, <1>2 DEF Show!TurnEnds, Closable
  <2>. QED  BY <1>1, <2>1, PCloses
<1>3. CASE todo # <<>>
  <2>1. todo \in Seq({"image", "search"})
    BY DEF Assumed, Show!PictureTurns
  <2>2. Like(c, asked[r]) /\ c.has = asked[r].has /\ c.wants = asked[r].wants
    BY <2>1, Before DEF Knows, Like
  <2>3. GoesOn(r, "tools", c, reserve[r], charge[r])
    BY <1>1, <1>3, Before DEF Show!TurnEnds, Show!Becomes, Show!Goes, GoesOn
  <2>. HIDE DEF c
  <2>4. Permitted("tools", c)
    BY <1>1, <2>2, Before DEF OneFine, Permitted, Asking, Like
  <2>5. Payable("tools", c, reserve[r], charge[r]) /\ Settled("tools", c, reserve[r], charge[r])
    BY <1>1, <2>2, Before DEF OneFine, Payable, Settled, Asking, Like
  <2>. QED  BY <1>1, <2>2, <2>3, <2>4, <2>5, Before, MovedQuietly DEF OneFine, Show!Phases, Like
<1>. QED  BY <1>2, <1>3

LEMMA PImageTool ==
  ASSUME Assumed, PicInv, NEW r \in Requests, Show!ImageTool(r)
  PROVE  PicInv'
<1>. DEFINE c == [asked[r] EXCEPT !.wants = "picture"]
<1>1. stage[r] = "tools" /\ asked[r].todo # <<>> /\ UNCHANGED <<reserve, charge, permits,
        leaked>> /\ "failed" \in Show!Ends
  BY DEF Show!ImageTool, Show!At, Show!Ends
<1>2. CASE Show!Pays(asked[r])
  <2>1. Like(c, asked[r]) /\ c.has = asked[r].has /\ c.wants = "picture" /\ c.todo = asked[r].todo
    BY Before DEF Knows, Like, Show!Wants
  <2>2. GoesOn(r, "ordering", c, reserve[r], charge[r])
    BY <1>1, <1>2, Before DEF Show!ImageTool, Show!Becomes, Show!Goes, GoesOn
  <2>. HIDE DEF c
  <2>3. Show!Permit(c) = "post"
    BY <2>1, PermitIs
  <2>4. Permitted("ordering", c)
    BY <1>1, <2>1, <2>3, Before DEF OneFine, Permitted, Asking, Like
  <2>5. /\ reserve[r] \in {"reserved", "released"} /\ charge[r].paid = 0
        /\ charge[r].shown + asked[r].extra <= asked[r].counted
        /\ charge[r].shown + asked[r].extra <= Afford
    BY <1>1, Before DEF OneFine, Payable, Asking
  <2>6. /\ charge[r].shown \in Nat /\ asked[r].extra \in Nat /\ asked[r].counted \in Nat /\ Afford \in Nat
        /\ asked[r].counted + 1 <= Afford
    BY <1>2, Before DEF Charges, Knows, Assumed, Show!PictureBounds, Show!Pays
  <2>7. Payable("ordering", c, reserve[r], charge[r]) /\ Settled("ordering", c, reserve[r], charge[r])
    BY <2>1, <2>5, <2>6 DEF Payable, Settled, Asking, Like
  <2>. QED  BY <1>1, <2>1, <2>2, <2>4, <2>7, Before, MovedQuietly DEF OneFine, Show!Phases, Like
<1>3. CASE ~Show!Pays(asked[r])
  <2>1. Show!Closes(r, asked[r], "failed") /\ Closable(r)
    BY <1>1, <1>3 DEF Show!ImageTool, Closable
  <2>. QED  BY <1>1, <2>1, PCloses
<1>. QED  BY <1>2, <1>3

LEMMA PSearchTool ==
  ASSUME PicInv, NEW r \in Requests, Show!SearchTool(r)
  PROVE  PicInv'
<1>. DEFINE c == [asked[r] EXCEPT !.todo = Tail(asked[r].todo), !.search = TRUE]
<1>1. stage[r] = "tools" /\ asked[r].todo # <<>> /\ UNCHANGED <<stage, reserve, charge, permits, leaked>>
           /\ asked' = [asked EXCEPT ![r] = [asked[r] EXCEPT !.todo = Tail(@), !.search = TRUE]]
  BY DEF Show!SearchTool, Show!At, Show!Becomes
<1>2. [asked[r] EXCEPT !.todo = Tail(@), !.search = TRUE] = c
  BY Before DEF Knows
<1>3. GoesOn(r, "tools", c, reserve[r], charge[r])
  BY <1>1, <1>2, Before DEF GoesOn
<1>4. asked[r].todo \in Seq({"image", "search"})
  BY Before DEF Knows
<1>5. Tail(asked[r].todo) \in Seq({"image", "search"})
  BY <1>1, <1>4, TailOf
<1>6. Like(c, asked[r]) /\ c.has = asked[r].has /\ c.wants = asked[r].wants
  BY <1>5, Before DEF Knows, Like
<1>. HIDE DEF c
<1>7. Permitted("tools", c)
  BY <1>1, <1>6, Before DEF OneFine, Permitted, Asking, Like
<1>8. Payable("tools", c, reserve[r], charge[r]) /\ Settled("tools", c, reserve[r], charge[r])
  BY <1>1, <1>6, Before DEF OneFine, Payable, Settled, Asking, Like
<1>. QED  BY <1>1, <1>3, <1>6, <1>7, <1>8, Before, MovedQuietly DEF OneFine, Show!Phases, Like

LEMMA PToolsEnd ==
  ASSUME PicInv, NEW r \in Requests, Show!ToolsEnd(r)
  PROVE  PicInv'
<1>. DEFINE c == [asked[r] EXCEPT !.wants = "follow"]
<1>1. stage[r] = "tools" /\ UNCHANGED <<reserve, charge, permits, leaked>>
  BY DEF Show!ToolsEnd, Show!At
<1>2. CASE asked[r].search = TRUE
  <2>1. Like(c, asked[r]) /\ c.has = asked[r].has /\ c.wants = "follow"
    BY Before DEF Knows, Like, Show!Wants
  <2>2. GoesOn(r, "ordering", c, reserve[r], charge[r])
    BY <1>1, <1>2, Before DEF Show!ToolsEnd, Show!Becomes, Show!Goes, GoesOn
  <2>. HIDE DEF c
  <2>3. Show!Permit(c) = "follow"
    BY <2>1, PermitIs
  <2>4. Permitted("ordering", c)
    BY <1>1, <2>1, <2>3, Before DEF OneFine, Permitted, Asking, Like
  <2>5. Payable("ordering", c, reserve[r], charge[r]) /\ Settled("ordering", c, reserve[r], charge[r])
    BY <1>1, <2>1, Before DEF OneFine, Payable, Settled, Asking, Like
  <2>. QED  BY <1>1, <2>1, <2>2, <2>4, <2>5, Before, MovedQuietly DEF OneFine, Show!Phases, Like
<1>3. CASE asked[r].search = FALSE
  <2>1. GoesOn(r, "passing", asked[r], reserve[r], charge[r])
    BY <1>1, <1>3, Before DEF Show!ToolsEnd, Show!Goes, GoesOn
  <2>2. Permitted("passing", asked[r])
    BY <1>1, Before DEF OneFine, Permitted, Asking
  <2>3. Payable("passing", asked[r], reserve[r], charge[r]) /\ Settled("passing", asked[r], reserve[r], charge[r])
    BY <1>1, Before DEF OneFine, Payable, Settled, Asking
  <2>. QED  BY <1>1, <2>1, <2>2, <2>3, Before, MovedQuietly DEF OneFine, Show!Phases
<1>4. asked[r].search \in BOOLEAN
  BY Before DEF Knows
<1>. QED  BY <1>2, <1>3, <1>4

LEMMA PPass ==
  ASSUME PicInv, NEW r \in Requests, Show!Pass(r)
  PROVE  PicInv'
<1>1. stage[r] = "passing" /\ UNCHANGED <<reserve, permits, leaked>> /\ "success" \in Show!Ends
  BY DEF Show!Pass, Show!At, Show!Ends
<1>2. CASE asked[r].extra > 0
  <2>. DEFINE c == [asked[r] EXCEPT !.extra = asked[r].extra - 1]
              b == [charge[r] EXCEPT !.shown = charge[r].shown + 1]
  <2>1. /\ charge' = [charge EXCEPT ![r].shown = @ + 1]
             /\ asked' = [asked EXCEPT ![r] = [asked[r] EXCEPT !.extra = @ - 1]]
        /\ UNCHANGED stage
    BY <1>2 DEF Show!Pass, Show!Becomes
  <2>2. [asked[r] EXCEPT !.extra = @ - 1] = c /\ charge' = [charge EXCEPT ![r] = b]
    BY <2>1, Before DEF Knows, PicInv, Shapes
  <2>3. GoesOn(r, "passing", c, reserve[r], b)
    BY <1>1, <2>1, <2>2, Before DEF GoesOn
  <2>4. /\ c \in Knows /\ c.on = asked[r].on /\ c.kind = asked[r].kind /\ c.extra = asked[r].extra - 1
        /\ c.counted = asked[r].counted /\ c.has = asked[r].has /\ c.wants = asked[r].wants
    BY <1>2, Before DEF Knows
  <2>5. b \in Charges /\ b.paid = charge[r].paid /\ b.shown = charge[r].shown + 1
    BY Before DEF Charges
  <2>6. asked[r].extra \in Nat /\ charge[r].shown \in Nat
    BY Before DEF Knows, Charges
  <2>. HIDE DEF c, b
  <2>7. Permitted("passing", c)
    BY <1>1, <2>4, Before DEF OneFine, Permitted, Asking
  <2>8. b.shown + c.extra = charge[r].shown + asked[r].extra
    BY <2>4, <2>5, <2>6
  <2>9. Payable("passing", c, reserve[r], b) /\ Settled("passing", c, reserve[r], b)
    BY <1>1, <2>4, <2>5, <2>8, Before DEF OneFine, Payable, Settled, Asking
  <2>. QED  BY <1>1, <2>3, <2>4, <2>5, <2>7, <2>9, Before, MovedQuietly DEF OneFine, Show!Phases
<1>3. CASE ~(asked[r].extra > 0) /\ "follow" \in asked[r].has
  <2>1. GoesOn(r, "following", asked[r], reserve[r], charge[r])
    BY <1>1, <1>3, Before DEF Show!Pass, Show!Goes, GoesOn
  <2>2. Permitted("following", asked[r])
    BY <1>1, <1>3, Before DEF OneFine, Permitted, Asking
  <2>3. Payable("following", asked[r], reserve[r], charge[r])
          /\ Settled("following", asked[r], reserve[r], charge[r])
    BY <1>1, Before DEF OneFine, Payable, Settled, Asking
  <2>. QED  BY <1>1, <2>1, <2>2, <2>3, Before, MovedQuietly DEF OneFine, Show!Phases
<1>4. CASE ~(asked[r].extra > 0) /\ "follow" \notin asked[r].has
  <2>1. Show!Closes(r, asked[r], "success") /\ UNCHANGED charge /\ Closable(r)
    BY <1>1, <1>4 DEF Show!Pass, Closable
  <2>. QED  BY <1>1, <2>1, PCloses
<1>. QED  BY <1>2, <1>3, <1>4

LEMMA PFollowEnds ==
  ASSUME PicInv, NEW r \in Requests, NEW how \in Show!Ends, Show!FollowEnds(r, how)
  PROVE  PicInv'
<1>. DEFINE c == [Show!Without(asked[r], "follow") EXCEPT !.end = how]
<1>1. stage[r] = "following" /\ UNCHANGED <<reserve, charge, leaked>> /\ Show!Returns(r, 1)
  BY DEF Show!FollowEnds, Show!At, Show!Released
<1>2. Like(c, asked[r]) /\ c.has = asked[r].has \ {"follow"} /\ c.wants = asked[r].wants
  BY Before DEF Knows, Like, Show!Without
<1>3. GoesOn(r, "ending", c, reserve[r], charge[r])
  BY <1>1, Before DEF Show!FollowEnds, Show!Closes, Show!Becomes, Show!Goes, GoesOn
<1>. HIDE DEF c
<1>4. "follow" \in asked[r].has /\ asked[r].has \subseteq {"seat", "follow"}
  BY <1>1, Before DEF OneFine, Permitted
<1>5. Permitted("ending", c)
  BY <1>1, <1>2, <1>4, Before DEF OneFine, Permitted, Asking, Like
<1>6. Payable("ending", c, reserve[r], charge[r]) /\ Settled("ending", c, reserve[r], charge[r])
  BY <1>1, <1>2, Before DEF OneFine, Payable, Settled, Asking, Like
<1>. QED  BY <1>1, <1>2, <1>3, <1>4, <1>5, <1>6, Before, MovedFree
          DEF OneFine, Show!Phases, Like, Show!Permits

-----------------------------------------------------------------------------
(* The end of the asked.                                                    *)

\* At most one permit of a call that leaves is not its stream's; it comes back,
\* or it is lost.
LEMMA OneOther ==
  ASSUME PicInv, NEW r \in Requests, stage[r] \notin {"idle", "done", "ending"}
  PROVE  \/ asked[r].has \subseteq {"seat"}
         \/ \E p \in {"post", "follow"} :
              /\ p \in asked[r].has /\ asked[r].has \subseteq {"seat", p}
              /\ p = "post" => stage[r] # "passing"
<1>1. CASE stage[r] = "choosing"
  BY <1>1, Before DEF OneFine, Permitted
<1>2. CASE stage[r] \in {"ordering", "waiting", "turn", "tools"}
  BY <1>2, Before DEF OneFine, Permitted
<1>3. CASE stage[r] \in {"asking", "fallback"}
  <2>1. Show!Permit(asked[r]) \in {"seat", "post", "follow"}
    BY <1>3, Answering DEF Show!Permits
  <2>2. CASE Show!Permit(asked[r]) = "seat"
    BY <1>3, <2>2, Answering
  <2>3. CASE Show!Permit(asked[r]) \in {"post", "follow"}
    BY <1>3, <2>3, Answering
  <2>. QED  BY <2>1, <2>2, <2>3
<1>4. CASE stage[r] \in {"passing", "following"}
  BY <1>4, Before DEF OneFine, Permitted
<1>. QED  BY <1>1, <1>2, <1>3, <1>4, Before DEF Show!Phases

LEMMA Interrupts ==
  ASSUME PicInv, NEW r \in Requests, stage[r] \notin {"idle", "done", "ending"},
         NEW c, Like(c, asked[r]), c.has \subseteq {"seat"}, c.has \subseteq asked[r].has,
           c.wants = asked[r].wants
  PROVE  OneFine("ending", c, reserve[r], charge[r])
<1>1. Permitted("ending", c)
  BY Before DEF OneFine, Permitted, Asking, Like
<1>2. Payable("ending", c, reserve[r], charge[r]) /\ Settled("ending", c, reserve[r], charge[r])
  BY Before DEF OneFine, Payable, Settled, Asking, Like
<1>. QED  BY <1>1, <1>2 DEF OneFine

LEMMA PLeaves ==
  ASSUME Assumed, PicInv, NEW r \in Requests, Show!Leaves(r)
  PROVE  PicInv'
<1>. DEFINE back == asked[r].has \cap Show!Closed(asked[r], stage[r])
            gone == asked[r].has \ (back \cup {"seat"})
            c == [asked[r] EXCEPT !.has = asked[r].has \ (back \cup gone), !.end = "interrupted"]
<1>1. /\ stage[r] \notin {"idle", "done", "ending"} /\ UNCHANGED <<reserve, charge>>
      /\ asked' = [asked EXCEPT ![r] = [[asked[r] EXCEPT !.has = @ \ (back \cup gone)] EXCEPT !.end = "interrupted"]]
      /\ stage' = [stage EXCEPT ![r] = "ending"]
  BY DEF Show!Leaves, Show!Closes, Show!Becomes, Show!Goes
<1>2. /\ asked[r].on = NoAccount => UNCHANGED <<permits, leaked>>
      /\ asked[r].on # NoAccount => /\ Show!Returns(r, Count(back))
                                    /\ leaked' = [leaked EXCEPT ![asked[r].on] = @ + Count(gone)]
  BY DEF Show!Leaves, Count
<1>3. /\ "seat" \notin back /\ back \subseteq asked[r].has /\ gone \subseteq asked[r].has /\ "seat" \notin gone
  BY DEF Show!Closed
<1>4. [[asked[r] EXCEPT !.has = @ \ (back \cup gone)] EXCEPT !.end = "interrupted"] = c
  BY Before DEF Knows
<1>5. GoesOn(r, "ending", c, reserve[r], charge[r])
  BY <1>1, <1>4, Before DEF GoesOn
<1>6. Like(c, asked[r]) /\ c.has = asked[r].has \ (back \cup gone) /\ c.wants = asked[r].wants
  BY Before DEF Knows, Like, Show!Ends
<1>7. asked[r].on \in Accounts => asked[r].on # NoAccount
  BY DEF Assumed, Show!PictureNames
<1>. HIDE DEF c
<1>8. CASE asked[r].has \subseteq {"seat"}
  <2>1. back = {} /\ gone = {}
    BY <1>3, <1>8
  <2>2. c.has = asked[r].has
    BY <1>6, <2>1
  <2>3. Count(back) = 0 /\ Count(gone) = 0
    BY <2>1, SameCount, FS_EmptySet
  <2>. HIDE DEF back, gone
  <2>4. UNCHANGED <<permits, leaked>>
    BY <1>2, <2>3 DEF Show!Returns, PicInv, Shapes
  <2>5. OneFine("ending", c, reserve[r], charge[r])
    BY <1>1, <1>6, <1>8, <2>2, Interrupts
  <2>. QED  BY <1>5, <1>6, <2>2, <2>4, <2>5, Before, MovedQuietly DEF Show!Phases, Like
<1>9. ASSUME NEW p \in {"post", "follow"}, p \in asked[r].has, asked[r].has \subseteq {"seat", p},
             p = "post" => stage[r] # "passing"
      PROVE  PicInv'
  <2>1. asked[r].on \in Accounts /\ p \in Show!Permits
    BY <1>9, Before DEF OneFine, Permitted, Show!Permits
  <2>2. c.has = asked[r].has \ {p}
    BY <1>6, <1>9 DEF Show!Closed
  <2>3. OneFine("ending", c, reserve[r], charge[r])
    BY <1>1, <1>6, <1>9, <2>2, Interrupts
  <2>4. OneMoves(r) /\ asked'[r] = c
    BY <1>5 DEF PicInv, Shapes, GoesOn, OneMoves
  <2>5. CASE stage[r] = "passing"
    <3>1. back = {} /\ gone = {p}
      BY <1>9, <2>5 DEF Show!Closed
    <3>2. Count(back) = 0 /\ Count(gone) = 1
      BY <3>1, SameCount, FS_EmptySet, FS_Singleton
    <3>. HIDE DEF back, gone
    <3>3. /\ permits' = [permits EXCEPT ![asked[r].on] = @ + 0]
          /\ leaked' = [leaked EXCEPT ![asked[r].on] = @ + (1 - 0)]
      BY <1>2, <1>7, <2>1, <3>2 DEF Show!Returns, PicInv, Shapes
    <3>4. permits' \in [Accounts -> Nat] /\ leaked' \in [Accounts -> Nat] /\ \A a \in Accounts : Conserved(a)'
      BY <1>6, <1>9, <2>1, <2>2, <2>4, <3>3, GivenConserved DEF Like
    <3>. QED  BY <1>5, <1>6, <2>3, <3>4, Before, Moved DEF Show!Phases, Like
  <2>6. CASE stage[r] # "passing"
    <3>1. back = {p} /\ gone = {}
      BY <1>9, <2>6 DEF Show!Closed
    <3>2. Count(back) = 1 /\ Count(gone) = 0
      BY <3>1, SameCount, FS_EmptySet, FS_Singleton
    <3>. HIDE DEF back, gone
    <3>3. /\ permits' = [permits EXCEPT ![asked[r].on] = @ + 1]
          /\ leaked' = [leaked EXCEPT ![asked[r].on] = @ + (1 - 1)]
      BY <1>2, <1>7, <2>1, <3>2 DEF Show!Returns, PicInv, Shapes
    <3>4. permits' \in [Accounts -> Nat] /\ leaked' \in [Accounts -> Nat] /\ \A a \in Accounts : Conserved(a)'
      BY <1>6, <1>9, <2>1, <2>2, <2>4, <3>3, GivenConserved DEF Like
    <3>. QED  BY <1>5, <1>6, <2>3, <3>4, Before, Moved DEF Show!Phases, Like
  <2>. QED  BY <2>5, <2>6
<1>. QED  BY <1>1, <1>8, <1>9, OneOther

LEMMA LeastOf ==
  ASSUME NEW m \in Nat, NEW n \in Nat
  PROVE  Show!AtMost(m, n) \in Nat /\ \A k \in Nat : k <= m /\ k <= n => k <= Show!AtMost(m, n)
BY DEF Show!AtMost

\* What is settled pays for what was shown, if its price is known.
LEMMA ChargedIs ==
  ASSUME Assumed, NEW c \in Knows
  PROVE  /\ Show!Charged(c) \in Nat
         /\ c.kind # "endpoint" /\ c.priced => Show!Charged(c) = Show!AtMost(c.counted, Afford)
<1>1. c.got \in Nat /\ c.counted \in Nat /\ Afford \in Nat
  BY DEF Knows, Assumed, Show!PictureBounds
<1>2. Show!AtMost(c.got, Afford) \in Nat /\ Show!AtMost(c.counted, Afford) \in Nat
  BY <1>1, LeastOf
<1>3. CASE c.kind = "endpoint"
  BY <1>2, <1>3 DEF Show!Charged
<1>4. CASE c.kind # "endpoint" /\ c.priced
  BY <1>2, <1>4 DEF Show!Charged
<1>5. CASE c.kind # "endpoint" /\ ~c.priced
  BY <1>5 DEF Show!Charged
<1>. QED  BY <1>3, <1>4, <1>5

LEMMA PFinish ==
  ASSUME Assumed, PicInv, NEW r \in Requests, Show!Finish(r)
  PROVE  PicInv'
<1>. DEFINE c == [asked[r] EXCEPT !.has = asked[r].has \ {"seat"}]
            d == asked[r]
            seen == IF d.kind = "endpoint" /\ d.end = "success" THEN d.got ELSE charge[r].shown
            pays == IF Show!Reports(d) THEN Show!Charged(d) ELSE 0
            h == IF reserve[r] = "reserved"
              THEN (IF Show!Reports(d) THEN "settled" ELSE "released") ELSE reserve[r]
            paid == IF reserve[r] = "reserved" THEN pays ELSE charge[r].paid
            b == [paid |-> paid, shown |-> seen]
<1>1. stage[r] = "ending" /\ UNCHANGED leaked /\ stage' = [stage EXCEPT ![r] = "done"]
           /\ asked' = [asked EXCEPT ![r] = [asked[r] EXCEPT !.has = @ \ {"seat"}]]
  BY DEF Show!Finish, Show!At, Show!Becomes, Show!Goes
<1>2. [asked[r] EXCEPT !.has = @ \ {"seat"}] = c
  BY Before DEF Knows
<1>3. reserve' = [reserve EXCEPT ![r] = h]
  BY Before DEF Show!Finish
<1>4. charge' = [charge EXCEPT ![r] = b]
  <2>1. charge[r] = [paid |-> charge[r].paid, shown |-> charge[r].shown]
    BY Before DEF Charges
  <2>2. CASE reserve[r] = "reserved"
    <3>1. charge' = [charge EXCEPT ![r] = [paid |-> pays,
            shown |-> IF d.kind = "endpoint" /\ d.end = "success" THEN d.got ELSE @.shown]]
      BY <2>2 DEF Show!Finish
    <3>2. charge' = [charge EXCEPT ![r] = [paid |-> pays, shown |-> seen]]
      BY <3>1 DEF PicInv, Shapes
    <3>. QED  BY <2>2, <3>2
  <2>3. CASE reserve[r] # "reserved"
    <3>1. charge' = [charge EXCEPT ![r].shown = IF d.kind = "endpoint" /\ d.end = "success" THEN d.got ELSE @]
      BY <2>3 DEF Show!Finish
    <3>2. charge' = [charge EXCEPT ![r] = [charge[r] EXCEPT !.shown = seen]]
      BY <3>1 DEF PicInv, Shapes
    <3>. HIDE DEF seen
    <3>3. [charge[r] EXCEPT !.shown = seen] = [paid |-> charge[r].paid, shown |-> seen]
      BY Before DEF Charges
    <3>. QED  BY <2>3, <3>2, <3>3
  <2>. QED  BY <2>2, <2>3
<1>5. GoesOn(r, "done", c, h, b)
  BY <1>1, <1>2, <1>3, <1>4 DEF GoesOn
<1>6. /\ c \in Knows /\ c.has = asked[r].has \ {"seat"} /\ c.on = asked[r].on /\ c.kind = d.kind
      /\ c.end = d.end /\ c.priced = d.priced /\ c.wants = d.wants
  BY Before DEF Knows
<1>7. d.got \in Nat /\ d.counted \in Nat /\ d.extra \in Nat /\ charge[r].shown \in Nat /\ charge[r].paid \in Nat
        /\ reserve[r] \in Holds /\ Afford \in Nat
  BY Before DEF Knows, Charges, Assumed, Show!PictureBounds
<1>8. seen \in Nat /\ pays \in Nat
  BY <1>7, Before, ChargedIs
<1>. HIDE DEF c
<1>9. paid \in Nat /\ h \in Holds
  BY <1>7, <1>8 DEF Holds
<1>10. Permitted("done", c)
  BY <1>1, <1>6, Before DEF OneFine, Permitted, Asking
<1>11. /\ reserve[r] \in {"reserved", "released"} /\ charge[r].paid = 0
       /\ charge[r].shown + d.extra <= d.counted /\ charge[r].shown + d.extra <= Afford
  BY <1>1, Before DEF OneFine, Payable
<1>12. charge[r].shown <= Show!AtMost(d.counted, Afford)
  <2>1. charge[r].shown <= d.counted /\ charge[r].shown <= Afford
    BY <1>7, <1>11
  <2>. HIDE DEF d
  <2>. QED  BY <1>7, <2>1, LeastOf
<1>13. c.kind = "endpoint" /\ c.end # "success" => paid = 0
  BY <1>6, <1>11 DEF Show!Reports
<1>14. c.kind # "endpoint" /\ c.priced /\ h = "settled" => seen <= paid
  <2>. SUFFICES ASSUME c.kind # "endpoint", c.priced, h = "settled" PROVE seen <= paid
    OBVIOUS
  <2>1. reserve[r] = "reserved" /\ Show!Reports(d)
    BY <1>11
  <2>2. paid = Show!Charged(d) /\ seen = charge[r].shown
    BY <1>6, <2>1
  <2>3. Show!Charged(d) = Show!AtMost(d.counted, Afford)
    BY <1>6, Before, ChargedIs
  <2>. QED  BY <1>12, <2>2, <2>3
<1>15. b \in Charges /\ b.paid = paid /\ b.shown = seen
  BY <1>8, <1>9 DEF Charges
<1>. HIDE DEF b, h, paid, seen, pays
<1>16. OneFine("done", c, h, b)
  BY <1>10, <1>13, <1>14, <1>15 DEF OneFine, Payable, Settled
<1>17. CASE "seat" \in asked[r].has
  <2>1. Show!Returns(r, 1) /\ "seat" \in Show!Permits
    BY <1>17 DEF Show!Finish, Show!Permits
  <2>. QED  BY <1>1, <1>5, <1>6, <1>9, <1>15, <1>16, <1>17, <2>1, MovedFree DEF Show!Phases
<1>18. CASE "seat" \notin asked[r].has
  <2>1. UNCHANGED <<permits, leaked>>
    BY <1>1, <1>18 DEF Show!Finish
  <2>2. c.has = asked[r].has
    BY <1>6, <1>18
  <2>. QED  BY <1>5, <1>6, <1>9, <1>15, <1>16, <2>1, <2>2, MovedQuietly DEF Show!Phases
<1>. QED  BY <1>17, <1>18

LEMMA PNoRoom ==
  ASSUME PicInv, NEW r \in Requests, Show!NoRoom(r)
  PROVE  PicInv'
<1>1. Show!Closes(r, asked[r], "failed") /\ UNCHANGED <<reserve, charge, permits,
        leaked>> /\ Closable(r) /\ "failed" \in Show!Ends
  BY DEF Show!NoRoom, Show!At, Closable, Show!Ends
<1>. QED  BY <1>1, PCloses

LEMMA PBreaks ==
  ASSUME PicInv, NEW r \in Requests, Show!NoneLeft(r) \/ Show!BadFile(r) \/ Show!TurnBreaks(r)
  PROVE  PicInv'
<1>1. Show!Closes(r, asked[r], "failed") /\ UNCHANGED <<reserve, charge, permits,
        leaked>> /\ Closable(r) /\ "failed" \in Show!Ends
  BY DEF Show!NoneLeft, Show!BadFile, Show!TurnBreaks, Show!At, Closable, Show!Ends
<1>. QED  BY <1>1, PCloses

LEMMA PExpire ==
  ASSUME PicInv, NEW r \in Requests, Show!Expire(r)
  PROVE  PicInv'
<1>1. reserve' = [reserve EXCEPT ![r] = "released"] /\ UNCHANGED <<stage, asked, charge, permits, leaked>>
  BY DEF Show!Expire
<1>2. GoesOn(r, stage[r], asked[r], "released", charge[r]) /\ "released" \in Holds
  BY <1>1, Before DEF GoesOn, Holds
<1>3. Permitted(stage[r], asked[r]) /\ Payable(stage[r], asked[r], "released", charge[r])
        /\ Settled(stage[r], asked[r], "released", charge[r])
  BY Before DEF OneFine, Payable, Settled
<1>. QED  BY <1>1, <1>2, <1>3, Before, MovedQuietly DEF OneFine

LEMMA PInit ==
  ASSUME Assumed, Show!Init
  PROVE  PicInv
<1>. DEFINE k == CHOOSE x \in Kinds : TRUE
<1>1. k \in Kinds
  BY DEF Assumed, Show!PictureTurns
<1>2. stage = [r \in Requests |-> "idle"] /\ asked = [r \in Requests |-> Show!NewCall(k)]
           /\ reserve = [r \in Requests |-> "none"] /\ charge = [r \in Requests |-> Show!NoBill]
           /\ permits = [a \in Accounts |-> Seats] /\ leaked = [a \in Accounts |-> 0]
  BY DEF Show!Init
<1>. HIDE DEF k
<1>3. Show!NewCall(k) \in Knows /\ Show!NewCall(k).has = {}
        /\ (Show!NewCall(k).kind # "hosted" => Show!NewCall(k).wants = "picture")
  <2>1. <<>> \in Seq({"image", "search"})
    OBVIOUS
  <2>. QED  BY <1>1, <2>1 DEF Show!NewCall, Knows, Show!Wants, Show!Ends
<1>4. Seats \in Nat
  BY DEF Assumed, Show!PictureBounds
<1>5. Shapes
  BY <1>2, <1>3, <1>4 DEF Shapes, Show!Phases, Show!NoBill
<1>6. ASSUME NEW r \in Requests PROVE Fine(r)
  <2>1. stage[r] = "idle" /\ asked[r] = Show!NewCall(k)
    BY <1>2
  <2>. QED  BY <1>3, <2>1 DEF Fine, Permitted, Payable, Settled, Asking
<1>7. ASSUME NEW a \in Accounts PROVE Conserved(a)
  <2>1. Show!Held(a) = {}
    BY <1>2, <1>3 DEF Show!Held
  <2>2. IsFiniteSet(Show!Held(a)) /\ Cardinality(Show!Held(a)) = 0
    BY <2>1, FS_EmptySet
  <2>3. permits[a] = Seats /\ leaked[a] = 0
    BY <1>2
  <2>. QED  BY <1>4, <2>2, <2>3 DEF Conserved
<1>. QED  BY <1>5, <1>6, <1>7 DEF PicInv

LEMMA PNext ==
  ASSUME Assumed, PicInv, [Show!Next]_(Show!vars)
  PROVE  PicInv'
<1>1. CASE UNCHANGED Show!vars
  <2>1. UNCHANGED <<stage, asked, reserve, charge, permits, leaked>>
    BY <1>1 DEF Show!vars
  <2>2. Shapes'
    BY <2>1 DEF PicInv, Shapes
  <2>3. \A r \in Requests : Fine(r)'
    BY <2>1 DEF PicInv, Fine
  <2>4. \A a \in Accounts : Conserved(a)'
    BY <2>1 DEF PicInv, Conserved, Show!Held
  <2>. QED  BY <2>2, <2>3, <2>4 DEF PicInv
<1>2. ASSUME NEW r \in Requests, Show!Goes_(r) PROVE PicInv'
  <2>1. CASE \E a \in Accounts : Show!Choose(r, a)
    BY <2>1, PChoose
  <2>2. CASE Show!Order(r) \/ Show!Take(r) \/ Show!QueueTimeout(r)
    BY <2>2, POrder, PTake, PTimeout
  <2>3. CASE \E again \in BOOLEAN : Show!Refused(r, again)
    BY <2>3, PRefused
  <2>4. CASE \E n \in 1..MaxData : Show!Listed(r, n) \/ Show!Synthetic(r, n) \/ Show!Hosted(r, n)
    BY <2>4, PListed, PSynthetic, PHosted
  <2>5. CASE Show!NoBytes(r) \/ Show!Opened(r) \/ Show!ImageTool(r) \/ Show!SearchTool(r) \/ Show!ToolsEnd(r) \/ Show!Pass(r)
    BY <2>5, PNoBytes, POpened, PImageTool, PSearchTool, PToolsEnd, PPass
  <2>6. CASE \E todo \in Turns : Show!TurnEnds(r, todo)
    BY <2>6, PTurnEnds
  <2>7. CASE Show!FollowEnds(r, "success")
    BY <2>7, PFollowEnds DEF Show!Ends
  <2>8. CASE Show!Finish(r)
    BY <2>8, PFinish
  <2>. QED  BY <1>2, <2>1, <2>2, <2>3, <2>4, <2>5, <2>6, <2>7, <2>8 DEF Show!Goes_
<1>3. ASSUME NEW r \in Requests, Show!Happens(r) PROVE PicInv'
  <2>1. CASE \E kind \in Kinds, priced \in BOOLEAN : Show!Begin(r, kind, priced)
    BY <2>1, PBegin
  <2>2. CASE Show!NoneLeft(r) \/ Show!BadFile(r) \/ Show!TurnBreaks(r)
    BY <2>2, PBreaks
  <2>3. CASE Show!Fallback(r) \/ Show!NoRoom(r)
    BY <2>3, PFallback, PNoRoom
  <2>4. CASE Show!FollowEnds(r, "failed")
    BY <2>4, PFollowEnds DEF Show!Ends
  <2>5. CASE Show!Leaves(r) \/ Show!Expire(r)
    BY <2>5, PLeaves, PExpire
  <2>. QED  BY <1>3, <2>1, <2>2, <2>3, <2>4, <2>5 DEF Show!Happens
<1>. QED  BY <1>1, <1>2, <1>3 DEF Show!Next

\* Through every end of a call, a client's leaving included, its permits are
\* back or counted as lost; an endpoint's call that fails pays nothing; and what
\* a client was shown in a response is on its bill (_post_image, finish_call).
THEOREM PicturesAreRight ==
  ASSUME Assumed
  PROVE  Show!Spec => [](Show!PermitsBack /\ Show!FailedPaysNothing /\ Show!ShownArePaid)
<1>1. Show!Init => PicInv
  BY PInit
<1>2. PicInv /\ [Show!Next]_(Show!vars) => PicInv'
  BY PNext
<1>3. PicInv => Show!PermitsBack /\ Show!FailedPaysNothing /\ Show!ShownArePaid
  <2>. SUFFICES ASSUME PicInv PROVE Show!PermitsBack /\ Show!FailedPaysNothing /\ Show!ShownArePaid
    OBVIOUS
  <2>1. \A a \in Accounts : permits[a] + Count(Show!Held(a)) + leaked[a] = Seats
    BY SameCount DEF PicInv, Conserved
  <2>2. \A r \in Requests : stage[r] \in {"idle", "done", "choosing"} => asked[r].has = {}
    BY DEF PicInv, Fine, Permitted
  <2>3. Show!FailedPaysNothing /\ Show!ShownArePaid
    BY DEF PicInv, Fine, Settled, Show!FailedPaysNothing, Show!ShownArePaid, Show!At
  <2>. QED  BY <2>1, <2>2, <2>3 DEF Show!PermitsBack, Count
<1>. QED  BY <1>1, <1>2, <1>3, PTL DEF Show!Spec

-----------------------------------------------------------------------------
(* What a step may not do.                                                 *)

Ahead(a) == leaked'[a] > leaked[a] =>
  \E r \in Requests : Show!At(r, "passing") /\ asked[r].on = a /\ "follow" \in asked[r].has
Covers(r) == asked'[r].tries > asked[r].tries => reserve[r] = "reserved"

\* A client that leaves while pictures are passed on ahead takes its permit.
LEMMA LeavesAhead ==
  ASSUME PicInv, NEW r \in Requests, Show!Leaves(r), NEW a \in Accounts
  PROVE  Ahead(a)
<1>. DEFINE back == asked[r].has \cap Show!Closed(asked[r], stage[r])
            gone == asked[r].has \ (back \cup {"seat"})
<1>. SUFFICES ASSUME leaked'[a] > leaked[a]
              PROVE  Show!At(r, "passing") /\ asked[r].on = a /\ "follow" \in asked[r].has
  BY DEF Ahead
<1>1. leaked \in [Accounts -> Nat]
  BY DEF PicInv, Shapes
<1>2. asked[r].on = a /\ leaked' = [leaked EXCEPT ![asked[r].on] = @ + Count(gone)]
  <2>1. CASE asked[r].on = NoAccount
    <3>1. leaked' = leaked
      BY <2>1 DEF Show!Leaves
    <3>. QED  BY <1>1, <3>1
  <2>2. CASE asked[r].on # NoAccount
    <3>1. leaked' = [leaked EXCEPT ![asked[r].on] = @ + Count(gone)]
      BY <2>2 DEF Show!Leaves, Count
    <3>. HIDE DEF gone
    <3>. QED  BY <1>1, <3>1
  <2>. QED  BY <2>1, <2>2
<1>3. gone # {}
  <2>. SUFFICES ASSUME gone = {} PROVE FALSE
    OBVIOUS
  <2>1. Count(gone) = 0
    BY SameCount, FS_EmptySet
  <2>. HIDE DEF gone
  <2>. QED  BY <1>1, <1>2, <2>1
<1>4. stage[r] \notin {"idle", "done", "ending"}
  BY DEF Show!Leaves
<1>5. PICK p \in {"post", "follow"} : /\ p \in asked[r].has /\ asked[r].has \subseteq {"seat", p}
                                      /\ p = "post" => stage[r] # "passing"
  BY <1>3, <1>4, OneOther
<1>6. stage[r] = "passing"
  BY <1>3, <1>5 DEF Show!Closed
<1>. QED  BY <1>2, <1>5, <1>6 DEF Show!At

LEMMA KeepsLost ==
  ASSUME NEW r \in Requests, Show!Goes_(r) \/ Show!Happens(r), ~Show!Leaves(r)
  PROVE  UNCHANGED leaked
<1>1. CASE Show!Goes_(r)
  BY <1>1 DEF Show!Goes_, Show!Choose, Show!Order, Show!Take, Show!QueueTimeout, Show!Refused, Show!Listed,
              Show!Synthetic, Show!Hosted, Show!NoBytes, Show!Opened,
       Show!TurnEnds, Show!ImageTool, Show!SearchTool, Show!ToolsEnd, Show!Pass, Show!FollowEnds,
       Show!Finish
<1>2. CASE Show!Happens(r)
  BY <1>2 DEF Show!Happens, Show!Begin, Show!NoneLeft, Show!BadFile, Show!Fallback, Show!NoRoom,
              Show!TurnBreaks, Show!FollowEnds, Show!Expire
<1>. QED  BY <1>1, <1>2

\* A step of the others leaves the tries of a call as they are.
LEMMA KeepsTries ==
  ASSUME Assumed, PicInv, NEW r \in Requests, Show!Goes_(r) \/ Show!Happens(r), ~Show!Order(r),
         ~\E kind \in Kinds, priced \in BOOLEAN : Show!Begin(r, kind, priced)
  PROVE  asked'[r].tries = asked[r].tries /\ \A q \in Requests : q # r => asked'[q] = asked[q]
<1>1. asked \in [Requests -> Knows] /\ asked[r] \in Knows
  BY DEF PicInv, Shapes
<1>. DEFINE Keeps == asked'[r].tries = asked[r].tries /\ \A q \in Requests : q # r => asked'[q] = asked[q]
<1>2. ASSUME NEW c, asked' = [asked EXCEPT ![r] = c], c.tries = asked[r].tries PROVE Keeps
  BY <1>1, <1>2
<1>3. ASSUME NEW how, Show!Closes(r, asked[r], how) PROVE Keeps
  BY <1>1, <1>3 DEF Show!Closes, Show!Becomes, Knows
<1>4. ASSUME NEW p, NEW how, Show!Closes(r, Show!Without(asked[r], p), how) PROVE Keeps
  BY <1>1, <1>4 DEF Show!Closes, Show!Becomes, Show!Without, Knows
<1>5. ASSUME NEW again, Show!Errs(r, asked[r], again) PROVE Keeps
  BY <1>1, <1>3, <1>5 DEF Show!Errs, Show!Becomes
<1>6. ASSUME NEW again, NEW p, Show!Errs(r, Show!Without(asked[r], p), again) PROVE Keeps
  <2>1. CASE Show!Becomes(r, Show!Without(asked[r], p))
    BY <1>1, <2>1 DEF Show!Becomes, Show!Without, Knows
  <2>2. CASE Show!Closes(r, Show!Without(asked[r], p), "failed")
    BY <1>4, <2>2
  <2>. QED  BY <1>6, <2>1, <2>2 DEF Show!Errs
<1>7. CASE Show!Goes_(r)
  <2>1. CASE \E a \in Accounts : Show!Choose(r, a)
    BY <1>1, <2>1 DEF Show!Choose, Show!Becomes, Knows
  <2>2. CASE Show!Take(r)
    BY <1>1, <2>2 DEF Show!Take, Show!Becomes, Knows
  <2>3. CASE Show!QueueTimeout(r)
    BY <1>5, <2>3 DEF Show!QueueTimeout
  <2>4. CASE \E again \in BOOLEAN : Show!Refused(r, again)
    BY <1>6, <2>4 DEF Show!Refused
  <2>5. CASE \E n \in 1..MaxData : Show!Listed(r, n)
    BY <1>1, <2>5 DEF Show!Listed, Show!Becomes, Show!Without, Knows
  <2>6. CASE \E n \in 1..MaxData : Show!Synthetic(r, n) \/ Show!Hosted(r, n)
    <3>1. PICK n \in 1..MaxData : Show!Synthetic(r, n) \/ Show!Hosted(r, n)
      BY <2>6
    <3>. DEFINE w == Show!Counted(asked[r], n)
    <3>2. n \in Nat \ {0}
      BY DEF Assumed, Show!PictureBounds
    <3>3. w \in Knows /\ w.tries = asked[r].tries
      BY <1>1, <3>2, CountedIs
    <3>4. \/ asked' = [asked EXCEPT ![r] = w]
          \/ asked' = [asked EXCEPT ![r] = [w EXCEPT !.todo = Tail(@), !.priced = TRUE]]
      BY <3>1 DEF Show!Synthetic, Show!Hosted, Show!Becomes
    <3>. HIDE DEF w
    <3>. QED  BY <1>1, <3>3, <3>4 DEF Knows
  <2>7. CASE Show!NoBytes(r)
    BY <1>1, <2>7 DEF Show!NoBytes, Show!Becomes, Show!Without, Knows
  <2>8. CASE Show!Opened(r)
    BY <2>8 DEF Show!Opened
  <2>9. CASE \E todo \in Turns : Show!TurnEnds(r, todo)
    <3>1. ASSUME NEW todo, Show!TurnEnds(r, todo) PROVE Keeps
      <4>1. CASE Show!Closes(r, asked[r], "success")
        BY <1>3, <4>1
      <4>2. CASE Show!Becomes(r, [asked[r] EXCEPT !.todo = todo])
        BY <1>1, <4>2 DEF Show!Becomes, Knows
      <4>. QED  BY <3>1, <4>1, <4>2 DEF Show!TurnEnds
    <3>. QED  BY <2>9, <3>1
  <2>10. CASE Show!ImageTool(r)
    <3>1. CASE Show!Becomes(r, [asked[r] EXCEPT !.wants = "picture"])
      BY <1>1, <3>1 DEF Show!Becomes, Knows
    <3>2. CASE Show!Closes(r, asked[r], "failed")
      BY <1>3, <3>2
    <3>. QED  BY <2>10, <3>1, <3>2 DEF Show!ImageTool
  <2>11. CASE Show!SearchTool(r)
    BY <1>1, <2>11 DEF Show!SearchTool, Show!Becomes, Knows
  <2>12. CASE Show!ToolsEnd(r)
    <3>1. CASE Show!Becomes(r, [asked[r] EXCEPT !.wants = "follow"])
      BY <1>1, <3>1 DEF Show!Becomes, Knows
    <3>. QED  BY <2>12, <3>1 DEF Show!ToolsEnd
  <2>13. CASE Show!Pass(r)
    <3>1. CASE Show!Becomes(r, [asked[r] EXCEPT !.extra = @ - 1])
      BY <1>1, <3>1 DEF Show!Becomes, Knows
    <3>2. CASE Show!Closes(r, asked[r], "success")
      BY <1>3, <3>2
    <3>. QED  BY <2>13, <3>1, <3>2 DEF Show!Pass
  <2>14. CASE Show!FollowEnds(r, "success")
    BY <1>4, <2>14 DEF Show!FollowEnds
  <2>15. CASE Show!Finish(r)
    BY <1>1, <2>15 DEF Show!Finish, Show!Becomes, Knows
  <2>. QED  BY <1>7, <2>1, <2>2, <2>3, <2>4, <2>5, <2>6, <2>7, <2>8, <2>9, <2>10, <2>11, <2>12, <2>13,
               <2>14,
              <2>15 DEF Show!Goes_
<1>8. CASE Show!Happens(r)
  <2>1. CASE Show!NoneLeft(r) \/ Show!BadFile(r) \/ Show!TurnBreaks(r) \/ Show!NoRoom(r)
    BY <1>3, <2>1 DEF Show!NoneLeft, Show!BadFile, Show!TurnBreaks, Show!NoRoom
  <2>2. CASE Show!Fallback(r) \/ Show!Expire(r)
    BY <2>2 DEF Show!Fallback, Show!Expire
  <2>3. CASE Show!FollowEnds(r, "failed")
    BY <1>4, <2>3 DEF Show!FollowEnds
  <2>4. CASE Show!Leaves(r)
    BY <1>1, <2>4 DEF Show!Leaves, Show!Closes, Show!Becomes, Knows
  <2>. QED  BY <1>8, <2>1, <2>2, <2>3, <2>4 DEF Show!Happens
<1>. QED  BY <1>7, <1>8

LEMMA PAhead ==
  ASSUME PicInv, [Show!Next]_(Show!vars)
  PROVE  [\A a \in Accounts : Ahead(a)]_(Show!vars)
<1>1. leaked \in [Accounts -> Nat]
  BY DEF PicInv, Shapes
<1>2. CASE UNCHANGED leaked
  BY <1>1, <1>2 DEF Ahead
<1>3. ASSUME NEW r \in Requests, Show!Leaves(r) PROVE \A a \in Accounts : Ahead(a)
  BY <1>3, LeavesAhead
<1>4. ASSUME NEW r \in Requests, Show!Goes_(r) \/ Show!Happens(r), ~Show!Leaves(r) PROVE UNCHANGED leaked
  BY <1>4, KeepsLost
<1>. QED  BY <1>2, <1>3, <1>4 DEF Show!Next

LEMMA PCovers ==
  ASSUME Assumed, PicInv, [Show!Next]_(Show!vars)
  PROVE  [\A r \in Requests : Covers(r)]_(Show!vars)
<1>1. asked \in [Requests -> Knows] /\ \A r \in Requests : asked[r].tries \in Nat
  BY DEF PicInv, Shapes, Knows
<1>2. ASSUME NEW r \in Requests, Show!Goes_(r) \/ Show!Happens(r), NEW q \in Requests PROVE Covers(q)
  <2>1. CASE Show!Order(r)
    <3>1. CASE Show!Covered(r)
      <4>1. q # r => asked'[q] = asked[q]
        BY <1>1, <2>1, <3>1 DEF Show!Order, Show!Becomes
      <4>. QED  BY <1>1, <3>1, <4>1 DEF Covers, Show!Covered
    <3>2. CASE ~Show!Covered(r)
      <4>. DEFINE c == [asked[r] EXCEPT !.end = "failed"]
      <4>1. asked' = [asked EXCEPT ![r] = c]
        BY <2>1, <3>2 DEF Show!Order, Show!Closes, Show!Becomes
      <4>2. c.tries = asked[r].tries
        BY <1>1 DEF Knows
      <4>. HIDE DEF c
      <4>. QED  BY <1>1, <4>1, <4>2 DEF Covers
    <3>. QED  BY <3>1, <3>2
  <2>2. ASSUME NEW kind \in Kinds, NEW priced \in BOOLEAN, Show!Begin(r, kind, priced) PROVE Covers(q)
    <3>. DEFINE c == [Show!NewCall(kind) EXCEPT !.priced = priced]
    <3>1. asked' = [asked EXCEPT ![r] = c]
      BY <2>2 DEF Show!Begin, Show!Becomes
    <3>2. c.tries = 0
      BY DEF Show!NewCall
    <3>. HIDE DEF c
    <3>. QED  BY <1>1, <3>1, <3>2 DEF Covers
  <2>3. CASE ~Show!Order(r) /\ ~\E kind \in Kinds, priced \in BOOLEAN : Show!Begin(r, kind, priced)
    <3>1. asked'[q].tries = asked[q].tries
      BY <1>2, <2>3, KeepsTries
    <3>. QED  BY <1>1, <3>1 DEF Covers
  <2>. QED  BY <2>1, <2>2, <2>3
<1>. QED  BY <1>2 DEF Show!Next

\* A permit is lost only by a client that leaves while pictures are passed on
\* ahead of an open follow-up, and no upstream request of a call, a second try
\* or a hosted one, starts but under a hold that is still reserved (note_attempt).
THEOREM PicturesAreAsked ==
  ASSUME Assumed
  PROVE  Show!Spec => Show!LostOnlyAhead /\ Show!AskedUnderHold
<1>1. Show!Init => PicInv
  BY PInit
<1>2. PicInv /\ [Show!Next]_(Show!vars) => PicInv'
  BY PNext
<1>3. PicInv /\ [Show!Next]_(Show!vars) => [\A a \in Accounts : Ahead(a)]_(Show!vars)
  BY PAhead
<1>4. PicInv /\ [Show!Next]_(Show!vars) => [\A r \in Requests : Covers(r)]_(Show!vars)
  BY PCovers
<1>. QED  BY <1>1, <1>2, <1>3, <1>4, PTL DEF Show!Spec, Show!LostOnlyAhead, Show!AskedUnderHold, Ahead,
                                             Covers
=============================================================================
