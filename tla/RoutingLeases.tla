--------------------------- MODULE RoutingLeases ---------------------------
(***************************************************************************)
(* Routing of one provider's requests to its accounts: src/app/scheduler.py *)
(* (select, occupy_attempt, complete_route, maintain) and the heartbeat of *)
(* src/app/codex_gateway.py.                                               *)
(*                                                                         *)
(* A request takes a seat on an account: a row of routing_leases that ends *)
(* after five minutes unless the heartbeat renews it.  The heartbeat knows *)
(* the seats of its own process from _active_routing.  A response id and a *)
(* conversation id are bound to an account for seven days, so that a later *)
(* request that names one reaches the account that has the history.        *)
(*                                                                         *)
(* Each action is one statement or transaction of the store; a handler     *)
(* that runs several is several actions, with its place in pc.  Time moves *)
(* in ticks: `left' counts the ticks a seat has to go.  Health, quota and   *)
(* the administrator's preference are read afresh by every selection and   *)
(* are inputs here, as is the time a selection compares with: it was read  *)
(* before the transaction was queued, so a row that expired in between may *)
(* still look alive.                                                       *)
(***************************************************************************)
EXTENDS Integers, FiniteSets

CONSTANTS
  Accounts,
  Requests,        \* request ids; also the ids of their responses
  Conversations,   \* conversation ids clients may send
  Limit,           \* gateway_account_max_concurrency
  LeaseLife,       \* ticks a seat lasts unless renewed (five minutes)
  MaxSilence,      \* ticks from the start of a full heartbeat round to the
                   \* end of the next one, at most
  MaxFailures,     \* bound of the model: rounds that fail on the storage
  Continued,       \* bound of the model: responses that clients continue
  LegacyAccounts,  \* what routing_legacy may hold for the key
  NoAccount, NoToken

ASSUME LeaseAssumption ==
  /\ IsFiniteSet(Requests)
  /\ Limit \in Nat \ {0}
  /\ LeaseLife \in Nat /\ MaxSilence \in Nat /\ MaxFailures \in Nat
  /\ MaxSilence < LeaseLife
ASSUME RoutingNamesAssumption ==
  /\ NoAccount \notin Accounts
  /\ Continued \subseteq Requests
  /\ LegacyAccounts \subseteq Accounts \cup {NoAccount}
  /\ NoToken \notin Requests \cup Conversations
  /\ Requests \cap Conversations = {}

VARIABLES
  pc,         \* where the handler of a request is
  account,    \* the selected account, then context.account_id
  ask,        \* the tokens a request carries, and how it was routed
  lease,      \* routing_leases
  binding,    \* routing_bindings
  producer,   \* the account that answered a request
  tracked,    \* the keys of _active_routing
  round       \* the heartbeat

lvars == <<pc, account, ask, lease, binding, producer, tracked, round>>

----------------------------------------------------------------------------
(* State helpers *)

Tokens == Requests \cup Conversations
Places == {"idle", "granted", "routed", "sending", "closing", "binding", "done", "gone"}
Reasons == {"none", "dynamic", "continuation", "legacy"}

NoLease == [account |-> NoAccount, left |-> 0]
Leases == [account: Accounts \cup {NoAccount}, left: 0..LeaseLife]
Bindings == [account: Accounts \cup {NoAccount}, valid: BOOLEAN]
NoBinding == [account |-> NoAccount, valid |-> FALSE]
Asks == [previous: Requests \cup {NoToken}, conversation: Conversations \cup {NoToken},
         via: Reasons]
NoAsk == [previous |-> NoToken, conversation |-> NoToken, via |-> "none"]

\* The row that select and occupy_attempt insert, with its expiry().
NewLease(a) == [account |-> a, left |-> LeaseLife]
HasRow(r) == lease[r].account # NoAccount
Expired(r) == HasRow(r) /\ lease[r].left = 0

ExpiredRows == {r \in Requests : Expired(r)}
ExpiredBindings == {t \in Tokens : binding[t] # NoBinding /\ ~binding[t].valid}

\* The owner task of a seat is done, however it ended.
Ended(r) == pc[r] \in {"done", "gone"}

\* A fault to be caught: the sweep of an ended owner's seat is lost.
NeverEnded(r) == FALSE
OwnerDone(r) == Ended(r)

\* Faults to be caught: the count of the seats allows one too many, and the
\* UPDATE of the heartbeat changes nothing.
OneMoreSeat(a, r) ==
  Cardinality({s \in Requests \ {r} : lease[s].account = a /\ lease[s].left > 0}) > Limit
NotRenewed(l) == l

\* The other unexpired seats of account a, as occupy_attempt counts them.
Busy(a, r) ==
  Cardinality({s \in Requests \ {r} : lease[s].account = a /\ lease[s].left > 0}) >= Limit

\* The heartbeat's UPDATE; it does nothing where there is no row.
Renewed(l) == IF l.account = NoAccount THEN l ELSE [l EXCEPT !.left = LeaseLife]

\* A tick passes for a row.
Older(l) == [l EXCEPT !.left = IF @ > 0 THEN @ - 1 ELSE 0]

\* The token that decides is previous_response_id when there is one.
Token(q) == IF q.previous # NoToken THEN q.previous ELSE q.conversation

\* route_bound: a request with a token is never moved to another account.
RouteBound(r) == Token(ask[r]) # NoToken

\* A fault to be caught: a retry that forgets that the route is bound.
AnyTarget(r) == Accounts

\* Where a further attempt may go: to the same account, or, when the route is
\* not bound, to the one _select_configured_account returns.
Targets(r) == IF RouteBound(r) THEN {account[r]} ELSE Accounts

----------------------------------------------------------------------------
Init ==
  /\ pc = [r \in Requests |-> "idle"]
  /\ account = [r \in Requests |-> NoAccount]
  /\ ask = [r \in Requests |-> NoAsk]
  /\ lease = [r \in Requests |-> NoLease]
  /\ binding = [t \in Tokens |-> NoBinding]
  /\ producer = [r \in Requests |-> NoAccount]
  /\ tracked = {}
  /\ round = [phase |-> "asleep", todo |-> {}, rows |-> {}, bindings |-> {},
              age |-> 0, silent |-> 0, failures |-> 0]

----------------------------------------------------------------------------
(* select() *)

\* What one selection reads: the healthy accounts that can serve the model
\* (cand), those of them still active and out of cooldown in the transaction
\* (fresh), the quota verdicts, the administrator's choice, the legacy row.
Readings ==
  {d \in [cand: SUBSET Accounts, fresh: SUBSET Accounts, paused: SUBSET Accounts,
          empty: SUBSET Accounts, preferred: Accounts \cup {NoAccount},
          legacy: LegacyAccounts] :
     d.fresh \subseteq d.cand /\ d.paused \subseteq d.cand /\ d.empty \subseteq d.paused}

\* open_seats() after the DELETE of the expired rows in swept: every row
\* counts that is left, and none is the request's own.
OpenSeats(A, d, swept) ==
  {a \in A \cap d.fresh :
     Cardinality({s \in Requests \ swept : lease[s].account = a}) < Limit}

\* dynamic_pool(): accounts that are not saving quota, or the only candidate
\* as long as it has any quota left.
DynamicPool(d, swept) ==
  OpenSeats(IF d.cand \ d.paused # {} THEN d.cand \ d.paused
            ELSE IF Cardinality(d.cand) = 1 THEN d.cand \ d.empty ELSE {}, d, swept)

\* How a request is routed: by the binding of its token, by the legacy row
\* when only the previous response is given, else dynamically.  seen is what
\* the comparison with the time makes of the binding.
RoutedVia(q, seen) ==
  IF seen THEN "continuation"
  ELSE IF q.previous # NoToken THEN "legacy" ELSE "dynamic"

Pinned(q, d, seen) == IF seen THEN binding[Token(q)].account ELSE d.legacy

Pool(q, d, seen, swept) ==
  LET wanted == OpenSeats(({d.preferred} \cap d.cand) \ d.empty, d, swept)
  IN IF RoutedVia(q, seen) # "dynamic"
     THEN OpenSeats(({Pinned(q, d, seen)} \cap d.cand) \ d.empty, d, swept)
     ELSE IF wanted # {} THEN wanted ELSE DynamicPool(d, swept)

\* The pools a selection may end up with, an empty one meaning a refusal.
Pools(q, seen, swept) == {Pool(q, d, seen, swept) : d \in Readings}

\* An unexpired binding is seen; an expired row may still look alive.
Sightings(q) ==
  IF Token(q) = NoToken \/ binding[Token(q)] = NoBinding THEN {FALSE}
  ELSE IF binding[Token(q)].valid THEN {TRUE} ELSE BOOLEAN

\* The upsert of a conversation's binding refreshes the time of an existing
\* row and leaves its account.
BoundConversation(c, a) ==
  IF c = NoToken THEN binding
  ELSE IF binding[c] = NoBinding THEN [binding EXCEPT ![c] = [account |-> a, valid |-> TRUE]]
  ELSE [binding EXCEPT ![c].valid = TRUE]

\* The transaction of select().  score() compares loads that are not
\* modelled, so any account of the pool may be the minimum.
Select(r, q, a, seen, swept) ==
  /\ pc[r] = "idle"
  /\ seen \in Sightings(q)
  /\ a \in UNION Pools(q, seen, swept)
  /\ account' = [account EXCEPT ![r] = a]
  /\ lease' = [[s \in Requests |-> IF s \in swept THEN NoLease ELSE lease[s]]
                 EXCEPT ![r] = NewLease(a)]
  /\ binding' = BoundConversation(q.conversation, a)
  /\ ask' = [ask EXCEPT ![r] = [q EXCEPT !.via = RoutedVia(q, seen)]]
  /\ pc' = [pc EXCEPT ![r] = "granted"]
  /\ UNCHANGED <<producer, tracked, round>>

\* The selection raises (503, 409) and its transaction is rolled back.
SelectRefused(r, q, seen, swept) ==
  /\ pc[r] = "idle"
  /\ seen \in Sightings(q)
  /\ {} \in Pools(q, seen, swept)
  /\ pc' = [pc EXCEPT ![r] = "closing"]
  /\ UNCHANGED <<account, ask, lease, binding, producer, tracked, round>>

\* The coroutine of select() goes on after its transaction.
Track(r) ==
  /\ pc[r] = "granted"
  /\ pc' = [pc EXCEPT ![r] = "routed"]
  /\ tracked' = tracked \cup {r}
  /\ UNCHANGED <<account, ask, lease, binding, producer, round>>

----------------------------------------------------------------------------
(* Attempts and the end of a request *)

\* occupy_attempt(), called by note_attempt() before every dispatch: the seat
\* moves to the account of this attempt.
Occupy(r, a) ==
  /\ \/ pc[r] = "routed" /\ a = account[r]
     \/ pc[r] = "sending" /\ a \in Targets(r)
  /\ ~Busy(a, r)
  /\ lease' = [lease EXCEPT ![r] = NewLease(a)]
  /\ account' = [account EXCEPT ![r] = a]
  /\ tracked' = tracked \cup {r}
  /\ pc' = [pc EXCEPT ![r] = "sending"]
  /\ UNCHANGED <<ask, binding, producer, round>>

OccupyRefused(r, a) ==
  /\ \/ pc[r] = "routed" /\ a = account[r]
     \/ pc[r] = "sending" /\ a \in Targets(r)
  /\ Busy(a, r)
  /\ pc' = [pc EXCEPT ![r] = "closing"]
  /\ UNCHANGED <<account, ask, lease, binding, producer, tracked, round>>

\* The upstream answers in full: the response has an id from now on.
Answered(r) ==
  /\ pc[r] = "sending"
  /\ producer' = [producer EXCEPT ![r] = account[r]]
  /\ pc' = [pc EXCEPT ![r] = "closing"]
  /\ UNCHANGED <<account, ask, lease, binding, tracked, round>>

\* The request fails or its client goes away; finish_call() runs all the same.
Failed(r) ==
  /\ pc[r] \in {"granted", "routed", "sending"}
  /\ pc' = [pc EXCEPT ![r] = "closing"]
  /\ UNCHANGED <<account, ask, lease, binding, producer, tracked, round>>

\* complete_route(), first statement, then untrack_route().
Release(r) ==
  /\ pc[r] = "closing"
  /\ lease' = [lease EXCEPT ![r] = NoLease]
  /\ tracked' = tracked \ {r}
  /\ pc' = [pc EXCEPT ![r] = IF producer[r] = NoAccount THEN "done" ELSE "binding"]
  /\ UNCHANGED <<account, ask, binding, producer, round>>

\* The statement fails: finish_call() logs it and the request is over.
ReleaseFails(r) ==
  /\ pc[r] = "closing"
  /\ pc' = [pc EXCEPT ![r] = "gone"]
  /\ UNCHANGED <<account, ask, lease, binding, producer, tracked, round>>

\* complete_route(), second statement; this upsert does replace the account.
BindResponse(r) ==
  /\ pc[r] = "binding"
  /\ binding' = [binding EXCEPT ![r] = [account |-> account[r], valid |-> TRUE]]
  /\ pc' = [pc EXCEPT ![r] = "done"]
  /\ UNCHANGED <<account, ask, lease, producer, tracked, round>>

----------------------------------------------------------------------------
(* The heartbeat, maintain() every thirty seconds *)

BeatStart ==
  /\ round.phase = "asleep"
  /\ round' = [round EXCEPT !.phase = "renewing", !.todo = tracked, !.age = 0,
                           !.rows = ExpiredRows, !.bindings = ExpiredBindings]
  /\ UNCHANGED <<pc, account, ask, lease, binding, producer, tracked>>

\* One seat of the list taken at the start of the round.
BeatOne(r) ==
  /\ round.phase = "renewing" /\ r \in round.todo
  /\ round' = [round EXCEPT !.todo = @ \ {r}]
  /\ lease' = [lease EXCEPT ![r] = IF OwnerDone(r) THEN NoLease ELSE Renewed(@)]
  /\ tracked' = IF OwnerDone(r) THEN tracked \ {r} ELSE tracked
  /\ UNCHANGED <<pc, account, ask, binding, producer>>

\* The two DELETEs of what had expired when the round began.
BeatSweep ==
  /\ round.phase = "renewing" /\ round.todo = {}
  /\ round' = [round EXCEPT !.phase = "asleep", !.silent = round.age,
                           !.rows = {}, !.bindings = {}]
  /\ lease' = [s \in Requests |->
                 IF s \in round.rows \cap ExpiredRows THEN NoLease ELSE lease[s]]
  /\ binding' = [t \in Tokens |->
                   IF t \in round.bindings \cap ExpiredBindings THEN NoBinding ELSE binding[t]]
  /\ UNCHANGED <<pc, account, ask, producer, tracked>>

\* A statement of the round fails; the loop logs it and sleeps.
BeatFails ==
  /\ round.phase = "renewing"
  /\ round.failures < MaxFailures
  /\ round' = [round EXCEPT !.phase = "asleep", !.todo = {}, !.rows = {},
                           !.bindings = {}, !.failures = @ + 1]
  /\ UNCHANGED <<pc, account, ask, lease, binding, producer, tracked>>

----------------------------------------------------------------------------
(* Time, expiry and crashes *)

\* Full rounds of the heartbeat keep coming (MaxSilence), and a coroutine
\* whose transaction is done is not kept waiting for a whole tick.
Tick ==
  /\ round.silent < MaxSilence
  /\ \A r \in Requests : pc[r] # "granted"
  /\ lease' = [r \in Requests |-> Older(lease[r])]
  /\ round' = [round EXCEPT !.age = @ + 1, !.silent = @ + 1]
  /\ UNCHANGED <<pc, account, ask, binding, producer, tracked>>

\* Seven days without a request of this token.
BindingExpires(t) ==
  /\ binding[t].valid
  /\ \A r \in Requests : Token(ask[r]) = t \/ ask[r].conversation = t => Ended(r)
  /\ binding' = [binding EXCEPT ![t].valid = FALSE]
  /\ UNCHANGED <<pc, account, ask, lease, producer, tracked, round>>

\* The process dies and another is started: the rows stay.
Crash ==
  /\ \E r \in Requests : pc[r] \notin {"idle", "done", "gone"}
  /\ pc' = [r \in Requests |-> IF pc[r] \in {"idle", "done"} THEN pc[r] ELSE "gone"]
  /\ tracked' = {}
  /\ round' = [round EXCEPT !.phase = "asleep", !.todo = {}, !.rows = {},
                           !.bindings = {}, !.age = 0, !.silent = 0]
  /\ UNCHANGED <<account, ask, lease, binding, producer>>

----------------------------------------------------------------------------
\* The tokens a client can name: the id of a response that was sent to it.
Questions ==
  {[previous |-> p, conversation |-> c, via |-> "none"] :
     p \in {r \in Continued : producer[r] # NoAccount} \cup {NoToken},
     c \in Conversations \cup {NoToken}}

Handlers ==
  \E r \in Requests :
    \/ \E q \in Questions, seen \in BOOLEAN, swept \in SUBSET ExpiredRows :
         \/ \E a \in Accounts : Select(r, q, a, seen, swept)
         \/ SelectRefused(r, q, seen, swept)
    \/ Track(r)
    \/ \E a \in Accounts : Occupy(r, a) \/ OccupyRefused(r, a)
    \/ Answered(r) \/ Failed(r)
    \/ Release(r) \/ ReleaseFails(r) \/ BindResponse(r)

Heartbeat == BeatStart \/ (\E r \in Requests : BeatOne(r)) \/ BeatSweep \/ BeatFails

Next == Handlers \/ Heartbeat \/ Tick \/ (\E t \in Tokens : BindingExpires(t)) \/ Crash

Spec == Init /\ [][Next]_lvars

\* The heartbeat loop and the clock run; no request is assumed to end.
FairSpec ==
  /\ Spec
  /\ WF_lvars(BeatStart) /\ WF_lvars(BeatSweep) /\ WF_lvars(Tick)
  /\ \A r \in Requests : WF_lvars(BeatOne(r)) /\ WF_lvars(Track(r))

----------------------------------------------------------------------------
(* Properties *)

Rounds == [phase: {"asleep", "renewing"}, todo: SUBSET Requests, rows: SUBSET Requests,
           bindings: SUBSET Tokens, age: 0..MaxSilence, silent: 0..MaxSilence,
           failures: 0..MaxFailures]

\* Type invariant of the routing tables and of the heartbeat.
TypeOK ==
  /\ pc \in [Requests -> Places]
  /\ account \in [Requests -> Accounts \cup {NoAccount}]
  /\ ask \in [Requests -> Asks]
  /\ lease \in [Requests -> Leases]
  /\ binding \in [Tokens -> Bindings]
  /\ producer \in [Requests -> Accounts \cup {NoAccount}]
  /\ tracked \in SUBSET Requests
  /\ round \in Rounds

\* An account never has more unexpired seats than its limit, through
\* selections, retries on other accounts, lost renewals and crashes
\* (open_seats in select, the count in occupy_attempt).
Seats(l, a) == {r \in Requests : l[r].account = a /\ l[r].left > 0}
CapacityRespected == \A a \in Accounts : Cardinality(Seats(lease, a)) <= Limit

\* A request that may be talking to an account has an unexpired seat on that
\* very account, from its dispatch to its end: the heartbeat never loses a
\* live owner, however its rounds and failures fall (maintain, track_route).
SeatKept ==
  \A r \in Requests : pc[r] \in {"granted", "routed", "sending"} =>
    lease[r].account = account[r] /\ lease[r].left > 0

\* A request that continues a response is only ever sent to the account that
\* produced this response, in its retries too (select, complete_route,
\* route_bound in _open_text_with_retries; the comment "No request sent to an
\* account without the history").
HistoryAtHand ==
  \A r \in Requests :
    pc[r] = "sending" /\ ask[r].via = "continuation" /\ ask[r].previous # NoToken =>
      account[r] = producer[ask[r].previous]

\* Two open requests of one conversation run on the same account
\* (test_continuation_isolated_hashed_and_does_not_switch).
ConversationStays ==
  \A r, s \in Requests :
    /\ pc[r] = "sending" /\ pc[s] = "sending"
    /\ ask[r].conversation # NoToken /\ ask[r].conversation = ask[s].conversation
    /\ ask[r].previous = NoToken /\ ask[s].previous = NoToken
    => account[r] = account[s]

\* Whatever way a request ended (its release failed, its process died), its
\* seat and its entry in _active_routing are eventually given back.
SeatGivenBack ==
  \A r \in Requests : Ended(r) ~> lease[r] = NoLease /\ r \notin tracked
=============================================================================
