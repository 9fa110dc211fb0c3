------------------------------ MODULE KeyRoutes ------------------------------
(***************************************************************************)
(* The route of an API key to an upstream account: which account the key's *)
(* requests prefer and which one it used last (api_key_routes), and the    *)
(* failures in a row that move it (route_streaks).  _route_success,        *)
(* _route_failure, _fallback_account, _select_configured_account,          *)
(* _save_active_route, update_provider_route and delete_account of         *)
(* src/app/codex_gateway.py, and select of src/app/scheduler.py.           *)
(*                                                                         *)
(* One provider.  Which accounts are healthy is an input of every choice   *)
(* (module AccountHealth).  An action is one transaction.                  *)
(***************************************************************************)
EXTENDS Integers, FiniteSets

CONSTANTS Accounts, Keys, NoAccount,
          Requests,    \* calls being served at a time
          Admins       \* administrators acting at a time

RouteNames == NoAccount \notin Accounts /\ Keys # {}

VARIABLES
  route,     \* api_key_routes: the preferred and the active account of a key
  streak,    \* route_streaks: one account of a key and its failures in a row
  task,      \* what a call is doing, for which key, on which account
  locked,    \* _route_locks: a key is being moved
  admin,     \* what an administrator's request has read and will write
  bad        \* history: failures of an account on a key since its last success

vars == <<route, streak, task, locked, admin, bad>>

Maybe == Accounts \cup {NoAccount}
NoStreak == [account |-> NoAccount, failures |-> 0]
Nowhere == [preferred |-> NoAccount, active |-> NoAccount]
AnyKey == CHOOSE k \in Keys : TRUE
Idle == [at |-> "idle", key |-> AnyKey, on |-> NoAccount, to |-> NoAccount, again |-> FALSE]
NoOp == [op |-> "none", account |-> NoAccount, key |-> AnyKey]
AtMostTwo(n) == IF n < 2 THEN n ELSE 2

TypeOK ==
  /\ route \in [Keys -> [preferred : Maybe, active : Maybe]]
  /\ streak \in [Keys -> [account : Maybe, failures : 0..2]]
  /\ task \in [Requests ->
       [at : {"idle", "asking", "failed", "noted", "moving", "looking", "saving", "clearing"},
        key : Keys, on : Maybe, to : Maybe, again : BOOLEAN]]
  /\ locked \in [Keys -> BOOLEAN]
  /\ admin \in [Admins -> [op : {"none", "delete", "prefer", "preferred"}, account : Maybe, key : Keys]]
  /\ bad \in [Keys -> [Accounts -> 0..2]]

Init ==
  /\ route = [k \in Keys |-> Nowhere]
  /\ streak = [k \in Keys |-> NoStreak]
  /\ task = [r \in Requests |-> Idle]
  /\ locked = [k \in Keys |-> FALSE]
  /\ admin = [d \in Admins |-> NoOp]
  /\ bad = [k \in Keys |-> [a \in Accounts |-> 0]]

-----------------------------------------------------------------------------
At(r, place) == task[r].at = place
Goes(r, place) == task' = [task EXCEPT ![r].at = place]
Rests(r) == task' = [task EXCEPT ![r] = Idle]

\* select() writes the account it chose into the key's route, and leaves the
\* streak alone.  A preference that is set is where the request goes, as long
\* as that account is healthy (an input).
SavedWhole(old, a) == [preferred |-> NoAccount, active |-> a]
Saved(old, a) == [old EXCEPT !.active = a]
Select(r, k, a) ==
  /\ At(r, "idle")
  /\ route' = [route EXCEPT ![k] = Saved(@, a)]
  /\ task' = [task EXCEPT ![r] = [Idle EXCEPT !.at = "asking", !.key = k, !.on = a]]
  /\ UNCHANGED <<streak, locked, admin, bad>>
EndsStreak(k, a) == IF streak[k].account = a THEN NoStreak ELSE streak[k]
Succeed(r) ==
  LET k == task[r].key
      a == task[r].on
  IN  /\ At(r, "asking")
      /\ streak' = [streak EXCEPT ![k] = EndsStreak(k, a)]
      /\ bad' = [bad EXCEPT ![k][a] = 0]
      /\ Rests(r)
      /\ UNCHANGED <<route, locked, admin>>

\* An attempt fails; or the call ends for a reason that is nobody's.
Fail(r) == At(r, "asking") /\ Goes(r, "failed") /\ UNCHANGED <<route, streak, locked, admin, bad>>
Ends(r) == task[r].at \in {"asking", "failed"} /\ Rests(r) /\ UNCHANGED <<route, streak, locked, admin, bad>>

\* finish_call of a failure: _route_failure's transaction counts it if the
\* key still is on that account.
Longer(k, a) == [account |-> a, failures |-> IF streak[k].account = a THEN AtMostTwo(streak[k].failures + 1) ELSE 1]
NoteFailure(r) ==
  LET k == task[r].key
      a == task[r].on
      mine == route[k].active = a
  IN  /\ At(r, "failed")
      /\ streak' = [streak EXCEPT ![k] = IF mine THEN Longer(k, a) ELSE @]
      /\ bad' = [bad EXCEPT ![k][a] = AtMostTwo(@ + 1)]
      /\ IF mine /\ streak'[k].failures = 2 THEN Goes(r, "noted") ELSE Rests(r)
      /\ UNCHANGED <<route, locked, admin>>

\* A key with a preferred account is not moved; any other one is.
MayMove(r) ==
  /\ At(r, "noted")
  /\ IF route[task[r].key].preferred # NoAccount THEN Rests(r) ELSE Goes(r, "moving")
  /\ UNCHANGED <<route, streak, locked, admin, bad>>
Unlock(k) == locked' = [locked EXCEPT ![k] = FALSE]

\* _balanced_account: one of the healthy accounts but the excluded one, which
\* of them depends on loads that are left out.
Alternatives(excluded) == Accounts \ {excluded}

\* _fallback_account, under the lock of the key: an alternative to the
\* account it leaves, or none.
Fallback(r) ==
  LET k == task[r].key
  IN  /\ At(r, "moving") /\ ~locked[k]
      /\ \/ Rests(r) /\ UNCHANGED locked
         \/ /\ \E a \in Alternatives(task[r].on) : task' = [task EXCEPT ![r].at = "saving", ![r].to = a]
            /\ locked' = [locked EXCEPT ![k] = TRUE]
      /\ UNCHANGED <<route, streak, admin, bad>>

\* A retry (_select_configured_account) reads the key's account under the
\* lock, of a Grok request or another's; a request bound to its account asks
\* that one again.
Retry(r) ==
  LET k == task[r].key
  IN  /\ At(r, "failed")
      /\ \/ /\ ~locked[k]
            /\ locked' = [locked EXCEPT ![k] = TRUE]
            /\ task' = [task EXCEPT ![r].at = "looking", ![r].to = route[k].active]
         \/ Goes(r, "asking") /\ UNCHANGED locked
      /\ UNCHANGED <<route, streak, admin, bad>>

\* It takes the key's account while that is well, and moves the key otherwise.
\* With nobody to move to the call asks the account it was on again, or ends
\* (a 401).
Looked(r) ==
  LET k == task[r].key
      now == task[r].to
  IN  /\ At(r, "looking")
      /\ \/ /\ now # NoAccount
            /\ task' = [task EXCEPT ![r].at = "asking", ![r].on = now, ![r].to = NoAccount]
            /\ Unlock(k)
         \/ /\ \E a \in Alternatives(now) : task' = [task EXCEPT ![r].at = "saving", ![r].to = a, ![r].again = TRUE]
            /\ UNCHANGED locked
         \/ /\ task' = [task EXCEPT ![r].at = "asking", ![r].to = NoAccount] \/ Rests(r)
            /\ Unlock(k)
      /\ UNCHANGED <<route, streak, admin, bad>>

\* _save_active_route: the upsert, which never touches the preference ...
Save(r) ==
  /\ At(r, "saving")
  /\ route' = [route EXCEPT ![task[r].key] = Saved(@, task[r].to)]
  /\ Goes(r, "clearing")
  /\ UNCHANGED <<streak, locked, admin, bad>>

\* ... and then the key's streak goes, whoever's it is.
Clear(r) ==
  LET k == task[r].key
  IN  /\ At(r, "clearing")
      /\ streak' = [streak EXCEPT ![k] = NoStreak]
      /\ Unlock(k)
      /\ IF task[r].again
         THEN task' = [task EXCEPT ![r].at = "asking", ![r].on = task[r].to, ![r].to = NoAccount, ![r].again = FALSE]
         ELSE Rests(r)
      /\ UNCHANGED <<route, admin, bad>>

\* The handler is cancelled: what it has not written is not written, and the
\* lock it holds is released (async with).
Cancel(r) ==
  LET holds == task[r].at \in {"looking", "saving", "clearing"}
  IN  /\ ~At(r, "idle")
      /\ Rests(r)
      /\ locked' = [locked EXCEPT ![task[r].key] = @ /\ ~holds]
      /\ UNCHANGED <<route, streak, admin, bad>>

-----------------------------------------------------------------------------
(* Administrators.                                                         *)

Intends(d, op, k, a) == admin' = [admin EXCEPT ![d] = [op |-> op, account |-> a, key |-> k]]
Done(d) == admin' = [admin EXCEPT ![d] = NoOp]

\* update_provider_route checks the key and the account, then writes the
\* preference (or none), and then deletes the streak.
Look(d, op, k, a) ==
  /\ admin[d].op = "none"
  /\ Intends(d, op, k, a)
  /\ UNCHANGED <<route, streak, task, locked, bad>>
Prefer(d) ==
  LET k == admin[d].key
      a == admin[d].account
  IN  /\ admin[d].op = "prefer"
      /\ route' = [route EXCEPT ![k] = [preferred |-> a, active |-> a]]
      /\ Intends(d, "preferred", k, a)
      /\ UNCHANGED <<streak, task, locked, bad>>
Preferred(d) ==
  /\ admin[d].op = "preferred"
  /\ streak' = [streak EXCEPT ![admin[d].key] = NoStreak]
  /\ Done(d)
  /\ UNCHANGED <<route, task, locked, bad>>

\* delete_account takes the account out of every route.
Without(a) == [k \in Keys |-> IF a \in {route[k].preferred, route[k].active} THEN Nowhere ELSE route[k]]
Delete(d) ==
  /\ admin[d].op = "delete"
  /\ route' = Without(admin[d].account)
  /\ Done(d)
  /\ UNCHANGED <<streak, task, locked, bad>>

-----------------------------------------------------------------------------
Serve(r) ==
  \/ Succeed(r) \/ Fail(r) \/ Ends(r) \/ NoteFailure(r) \/ MayMove(r)
  \/ Fallback(r) \/ Retry(r) \/ Looked(r) \/ Save(r) \/ Clear(r)

Administer(d) ==
  \/ \E k \in Keys, a \in Maybe : Look(d, "prefer", k, a)
  \/ \E a \in Accounts : Look(d, "delete", AnyKey, a)
  \/ Prefer(d) \/ Preferred(d) \/ Delete(d)

Next ==
  \/ \E r \in Requests, k \in Keys, a \in Accounts : Select(r, k, a)
  \/ \E r \in Requests : Serve(r) \/ Cancel(r)
  \/ \E d \in Admins : Administer(d)

Spec == Init /\ [][Next]_vars

\* The event loop runs what can go on; asyncio.Lock wakes its waiters in the
\* order they came.
FairSpec ==
  /\ Spec
  /\ \A r \in Requests : WF_vars(Serve(r)) /\ SF_vars(Fallback(r)) /\ SF_vars(Retry(r))

-----------------------------------------------------------------------------
(* What must hold.                                                         *)

\* A preference is the administrator's: no selection, failover or retry ever
\* sets, moves or drops it, not even one that had decided before it was set
\* (tests/test_mcp_routing.py, test_manual_route_remains_pinned_until_...).
PreferenceKept ==
  [][\A k \in Keys : route'[k].preferred # route[k].preferred =>
       \/ \E d \in Admins : /\ admin[d] = [op |-> "prefer", account |-> route'[k].preferred, key |-> k]
                            /\ admin'[d].op = "preferred"
       \/ /\ route'[k].preferred = NoAccount
          /\ \E d \in Admins : admin[d] = [op |-> "delete", account |-> route[k].preferred, key |-> AnyKey]
                               \/ admin[d] = [op |-> "delete", account |-> route[k].active, key |-> AnyKey]
    ]_vars

\* Whoever is blamed for failures in a row on a key had them: no success of
\* that account on that key lies in between, however the key moved meanwhile
\* to other accounts and back, and one account never inherits another's.
StreakEarned == \A k \in Keys : streak[k].failures > 0 => streak[k].failures <= bad[k][streak[k].account]
=============================================================================
