---------------------------- MODULE AccountHealth ----------------------------
(***************************************************************************)
(* The health of upstream accounts: what attempts report of them           *)
(* (CodexGateway._mark_invalid, _mark_failure, _mark_network_failure), what*)
(* the end of a call notes of the model (_route_failure), and what         *)
(* administrators do meanwhile (set_account_status, delete_account,        *)
(* restore_model, an import).  src/app/codex_gateway.py,                   *)
(* src/app/store/gateway.py.                                               *)
(*                                                                         *)
(* One provider, one model.  An action is one transaction; between two of  *)
(* them a coroutine keeps what it has read, in task[r] or admin[d].        *)
(***************************************************************************)
EXTENDS Integers, FiniteSets

CONSTANTS Accounts, NoAccount,
          Requests,    \* calls being served at a time
          Admins,      \* administrators acting at a time
          Threshold,   \* gateway_network_error_threshold
          ModelLimit   \* failures of a model on an account that cool the pair

HealthNames == NoAccount \notin Accounts
HealthLimits == Threshold \in Nat \ {0} /\ ModelLimit \in Nat \ {0, 1}

VARIABLES
  status,    \* accounts.status
  cooling,   \* accounts.cooldown_until lies in the future
  failures,  \* accounts.network_failures
  health,    \* account_model_health: failures, age of the window, cooldown
  task,      \* what a call is doing, on which account
  admin,     \* what an administrator's request has read and will write
  past       \* history: what happened to an account (see Past)

accounts == <<status, cooling, failures>>
vars == <<accounts, health, task, admin, past>>

Status == {"active", "disabled", "invalid", "deleted"}
Fresh == [failures |-> 0, cool |-> "no", old |-> FALSE]
Idle == [at |-> "idle", on |-> NoAccount, count |-> 0]
NoOp == [op |-> "none", account |-> NoAccount]

\* removed, barred: the account was deleted or disabled, and nothing that may undo
\* that happened since; "lost" when a request that had begun before overwrote it.
\* noted: failures of the model in this window, since the last reset or cooldown.
Kept == {"no", "yes", "lost"}
Past == [removed : Kept, barred : Kept, noted : 0..ModelLimit]
Clean == [removed |-> "no", barred |-> "no", noted |-> 0]
Overwritten(kept) == IF kept = "yes" THEN "lost" ELSE kept

TypeOK ==
  /\ status \in [Accounts -> Status]
  /\ cooling \in [Accounts -> BOOLEAN]
  /\ failures \in [Accounts -> 0..(Threshold - 1)]
  /\ health \in [Accounts -> [failures : 0..ModelLimit, cool : {"no", "running", "over"}, old : BOOLEAN]]
  /\ task \in [Requests ->
       [at : {"idle", "asking", "answered", "counting", "ended"},
        on : Accounts \cup {NoAccount}, count : 0..Threshold]]
  /\ \A r \in Requests : task[r].at # "idle" => task[r].on \in Accounts
  /\ admin \in [Admins -> [op : {"none", "enable", "disable", "delete"}, account : Accounts \cup {NoAccount}]]
  /\ \A d \in Admins : admin[d].op # "none" => admin[d].account \in Accounts
  /\ past \in [Accounts -> Past]

Init ==
  /\ status = [a \in Accounts |-> "active"]
  /\ cooling = [a \in Accounts |-> FALSE]
  /\ failures = [a \in Accounts |-> 0]
  /\ health = [a \in Accounts |-> Fresh]
  /\ task = [r \in Requests |-> Idle]
  /\ admin = [d \in Admins |-> NoOp]
  /\ past = [a \in Accounts |-> Clean]

-----------------------------------------------------------------------------
(* The calls.                                                              *)

\* healthy_accounts(): what a selection may take.
Healthy == {a \in Accounts : status[a] = "active" /\ ~cooling[a]}

At(r, place) == task[r].at = place
Goes(r, place) == task' = [task EXCEPT ![r].at = place]
Rests(r) == task' = [task EXCEPT ![r] = Idle]

\* The selection checks the account in its transaction; which models cool was
\* read before, and a bound request ignores it: any healthy account.
Start(r, a) ==
  /\ At(r, "idle")
  /\ a \in Healthy
  /\ task' = [task EXCEPT ![r] = [at |-> "asking", on |-> a, count |-> 0]]
  /\ UNCHANGED <<accounts, health, admin, past>>

\* A response below 400 wipes the failures and any cooldown of the account.
Accepted(r) ==
  LET a == task[r].on
  IN  /\ At(r, "asking")
      /\ failures' = [failures EXCEPT ![a] = 0]
      /\ cooling' = [cooling EXCEPT ![a] = FALSE]
      /\ Goes(r, "answered")
      /\ UNCHANGED <<status, health, admin, past>>

\* _mark_invalid: a 401, unreadable credentials or a refused refresh, whatever
\* became of the account since the call began.
MarkInvalid(r) ==
  LET a == task[r].on
  IN  /\ At(r, "asking")
      /\ status' = [status EXCEPT ![a] = "invalid"]
      /\ past' = [past EXCEPT ![a].removed = Overwritten(@), ![a].barred = Overwritten(@)]
      /\ Goes(r, "ended")
      /\ UNCHANGED <<cooling, failures, health, admin>>

\* _mark_failure of a 429: a cooldown, and nothing else.
RateLimited(r) ==
  /\ At(r, "asking")
  /\ cooling' = [cooling EXCEPT ![task[r].on] = TRUE]
  /\ Goes(r, "ended")
  /\ UNCHANGED <<status, failures, health, admin, past>>

\* _mark_network_failure reads the counter in one transaction ...
Broken(r) ==
  /\ task[r].at \in {"asking", "answered"}
  /\ task' = [task EXCEPT ![r].at = "counting", ![r].count = failures[task[r].on] + 1]
  /\ UNCHANGED <<accounts, health, admin, past>>
Counted(n) == IF n >= Threshold THEN 0 ELSE n
CountFailure(r, scoped) ==
  LET a == task[r].on
      n == task[r].count
  IN  /\ At(r, "counting")
      /\ failures' = [failures EXCEPT ![a] = Counted(n)]
      /\ cooling' = [cooling EXCEPT ![a] = n >= Threshold /\ ~scoped]
      /\ task' = [task EXCEPT ![r].at = "ended", ![r].count = 0]
      /\ UNCHANGED <<status, health, admin, past>>

\* A success, a failure that is not the account's, a cancelled handler: what
\* was not written is not written.
Ends(r) ==
  /\ ~At(r, "idle")
  /\ Rests(r)
  /\ UNCHANGED <<accounts, health, admin, past>>

\* One failure more of the model on an account: a window of 30 minutes, or a
\* cooldown that is over, starts the count anew.  A count beyond the limit has
\* the same consequences as the limit.
AtMost(n) == IF n < ModelLimit THEN n ELSE ModelLimit
Renewed(h, anew) ==
  LET count == IF anew THEN 1 ELSE h.failures + 1
  IN  [failures |-> AtMost(count), cool |-> IF count >= ModelLimit THEN "running" ELSE "no", old |-> FALSE]
NotedOn(h) == Renewed(h, h.old)
Noted(h) == Renewed(h, h.old \/ h.cool = "over")

\* _route_failure's transaction, when finish_call closes a call that failed for
\* a reason that is the account's.
NoteFailure(r) ==
  LET a == task[r].on
  IN  /\ task[r].at \in {"answered", "ended"}
      /\ health' = [health EXCEPT ![a] = Noted(@)]
      /\ past' = [past EXCEPT ![a].noted = AtMost(@ + 1)]
      /\ Rests(r)
      /\ UNCHANGED <<accounts, admin>>

-----------------------------------------------------------------------------
(* Administrators.                                                         *)

Done(d) == admin' = [admin EXCEPT ![d] = NoOp]
Reset(h) == [h EXCEPT !.failures = 0, !.cool = "no"]
Forgiven(p) == [p EXCEPT !.noted = 0]

\* set_account_status and delete_account look first ...
Look(d, op, a) ==
  /\ admin[d].op = "none"
  /\ \/ op = "enable" /\ status[a] \in {"disabled", "invalid"}
     \/ op = "disable" /\ status[a] = "active"
     \/ op = "delete" /\ status[a] # "deleted"
  /\ admin' = [admin EXCEPT ![d] = [op |-> op, account |-> a]]
  /\ UNCHANGED <<accounts, health, task, past>>
Revivable(a) == status[a] \in {"disabled", "invalid"}
Enable(d) ==
  LET a == admin[d].account
      may == Revivable(a)
  IN  /\ admin[d].op = "enable"
      /\ status' = [status EXCEPT ![a] = IF may THEN "active" ELSE @]
      /\ cooling' = [cooling EXCEPT ![a] = @ /\ ~may]
      /\ failures' = [failures EXCEPT ![a] = IF may THEN 0 ELSE @]
      /\ health' = [health EXCEPT ![a] = Reset(@)]
      /\ past' = [past EXCEPT ![a] = [Forgiven(past[a]) EXCEPT !.barred = IF may THEN "no" ELSE @]]
      /\ Done(d)
      /\ UNCHANGED task

\* Disabling and removing do not look again.
Disable(d) ==
  LET a == admin[d].account
  IN  /\ admin[d].op = "disable"
      /\ status' = [status EXCEPT ![a] = "disabled"]
      /\ past' = [past EXCEPT ![a].barred = "yes", ![a].removed = Overwritten(@)]
      /\ Done(d)
      /\ UNCHANGED <<cooling, failures, health, task>>

Delete(d) ==
  LET a == admin[d].account
  IN  /\ admin[d].op = "delete"
      /\ status' = [status EXCEPT ![a] = "deleted"]
      /\ cooling' = [cooling EXCEPT ![a] = FALSE]
      /\ past' = [past EXCEPT ![a].removed = "yes", ![a].barred = "no"]
      /\ Done(d)
      /\ UNCHANGED <<failures, health, task>>

\* upsert_account: importing a login brings its account back.
Import(a) ==
  /\ status' = [status EXCEPT ![a] = "active"]
  /\ cooling' = [cooling EXCEPT ![a] = FALSE]
  /\ failures' = [failures EXCEPT ![a] = 0]
  /\ past' = [past EXCEPT ![a].removed = "no", ![a].barred = "no"]
  /\ UNCHANGED <<health, task, admin>>
Unusable == {"invalid", "deleted"}
Revived(gone) ==
  IF Healthy # {} THEN {}
  ELSE {a \in Accounts : status[a] \in Unusable /\ (status[a] = "deleted" => a \notin gone)}
RestoreModel(gone) ==
  LET back == Revived(gone)
  IN  /\ status' = [a \in Accounts |-> IF a \in back THEN "active" ELSE status[a]]
      /\ cooling' = [a \in Accounts |-> cooling[a] /\ a \notin back]
      /\ failures' = [a \in Accounts |-> IF a \in back THEN 0 ELSE failures[a]]
      /\ health' = [a \in Accounts |-> Reset(health[a])]
      /\ past' = [a \in Accounts |->
                   [Forgiven(past[a]) EXCEPT !.removed = IF a \in back THEN "no" ELSE @]]
      /\ UNCHANGED <<task, admin>>

-----------------------------------------------------------------------------
(* Time.                                                                   *)

CooldownEnds(a) ==
  /\ cooling[a]
  /\ cooling' = [cooling EXCEPT ![a] = FALSE]
  /\ UNCHANGED <<status, failures, health, task, admin, past>>

\* MODEL_COOLDOWN passes, or MODEL_FAILURE_WINDOW.
ModelCooldownEnds(a) ==
  /\ health[a].cool = "running"
  /\ health' = [health EXCEPT ![a].cool = "over"]
  /\ past' = [past EXCEPT ![a] = Forgiven(@)]
  /\ UNCHANGED <<accounts, task, admin>>
WindowEnds(a) ==
  /\ health[a].failures > 0 /\ ~health[a].old
  /\ health' = [health EXCEPT ![a].old = TRUE]
  /\ past' = [past EXCEPT ![a].noted = 0]
  /\ UNCHANGED <<accounts, task, admin>>

-----------------------------------------------------------------------------
Serve(r) ==
  \/ \E a \in Accounts : Start(r, a)
  \/ Accepted(r) \/ MarkInvalid(r) \/ RateLimited(r) \/ Broken(r)
  \/ \E scoped \in BOOLEAN : CountFailure(r, scoped)
  \/ NoteFailure(r) \/ Ends(r)

Administer(d) ==
  \/ \E op \in {"enable", "disable", "delete"}, a \in Accounts : Look(d, op, a)
  \/ Enable(d) \/ Disable(d) \/ Delete(d)

Next ==
  \/ \E r \in Requests : Serve(r)
  \/ \E d \in Admins : Administer(d)
  \/ \E a \in Accounts : Import(a) \/ CooldownEnds(a) \/ ModelCooldownEnds(a) \/ WindowEnds(a)
  \/ \E gone \in SUBSET Accounts : RestoreModel(gone)

Spec == Init /\ [][Next]_vars

-----------------------------------------------------------------------------
(* What must hold.                                                         *)

\* A model is cooled on an account only for ModelLimit failures in one window
\* that began after the last cooldown and the last reset: the first failure
\* after a cooldown does not cool it again at once (_route_failure).
CooledForCause ==
  [][\A a \in Accounts :
       health'[a].cool = "running" /\ health[a].cool # "running" => past'[a].noted = ModelLimit]_vars

\* An account that was removed or disabled is not used again before somebody
\* brings it back who may: an import, restore_model for one whose credentials are
\* there, an administrator's enable for a disabled one; in particular an enable
\* that looked before another administrator's delete does nothing.  Only requests
\* that began before it can make it be forgotten: a call that is told 401, and a
\* disable that looked before a delete (_mark_invalid, set_account_status).
BackByHand == \A a \in Accounts : status[a] = "active" => past[a].removed # "yes" /\ past[a].barred # "yes"

\* What the message of set_account_status says: whoever was removed comes back by
\* an import (or restore_model) and is not enabled again.
RemovedStaysRemoved == \A a \in Accounts : past[a].removed # "no" => status[a] # "active"
=============================================================================
