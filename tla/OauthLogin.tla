----------------------------- MODULE OauthLogin -----------------------------
(***************************************************************************)
(* Signing in to an upstream account from the console: start_oauth,        *)
(* oauth_status, complete_oauth and the loopback server of                 *)
(* src/app/codex_gateway.py, and the imports that write accounts without a *)
(* login.                                                                  *)
(*                                                                         *)
(* A login is started once.  Its page is polled ("device": Grok, "poll":   *)
(* WorkBuddy) or calls back ("loopback": Codex, Google), from the browser  *)
(* and from the address the administrator pastes, at the same time.  Every *)
(* section under _oauth_lock is one action, every await between two a step.*)
(***************************************************************************)
EXTENDS Integers, FiniteSets

CONSTANTS Logins,      \* values of state
          Mode,        \* login_mode of each
          AccountsOf,  \* the accounts each login brings
          Tasks,       \* requests of the console and of the loopback server
          MaxPending   \* OAUTH_LOGIN_MAX_PENDING

\* Every account that some login brings.
Brought == UNION {AccountsOf[l] : l \in Logins}

ModeAssumption == Mode \in [Logins -> {"loopback", "device", "poll"}]
MaxPendingAssumption == MaxPending \in Nat \ {0}

VARIABLES
  session,  \* _oauth_pending: the status of each login
  client,   \* workbuddy_client of each login
  task,     \* what each request is doing
  account,  \* accounts.status
  stored    \* history: the accounts each login has written

vars == <<session, client, task, account, stored>>

Idle == [pc |-> "idle", login |-> CHOOSE l \in Logins : TRUE, left |-> {}]

TypeOK ==
  /\ session \in [Logins -> {"new", "refused", "pending", "running", "completed", "failed", "gone"}]
  /\ client \in [Logins -> {"none", "open", "closed"}]
  /\ \A l \in Logins : client[l] = "none" <=> Mode[l] # "poll" \/ session[l] = "new"
  /\ task \in [Tasks -> [pc : {"idle", "ask", "store", "restore"}, login : Logins, left : SUBSET Brought]]
  /\ account \in [Brought -> {"none", "active", "deleted"}]
  /\ stored \in [Logins -> SUBSET Brought]

Init ==
  /\ session = [l \in Logins |-> "new"]
  /\ client = [l \in Logins |-> "none"]
  /\ task = [t \in Tasks |-> Idle]
  /\ account = [a \in Brought |-> "none"]
  /\ stored = [l \in Logins |-> {}]

Held == {l \in Logins : session[l] \in {"pending", "running", "completed", "failed"}}
Goes(t, pc, l, left) == task' = [task EXCEPT ![t] = [pc |-> pc, login |-> l, left |-> left]]
Rests(t) == task' = [task EXCEPT ![t] = Idle]
Closed(l) == IF client[l] = "open" THEN [client EXCEPT ![l] = "closed"] ELSE client

-----------------------------------------------------------------------------
\* start_oauth(): a WorkBuddy login opens a client of its own; the limit
\* counts every session that has not expired.
\* A login by code comes back to the servers _ensure_oauth_loopback() starts.
Listens(l) == Mode[l] = "loopback"
Full == Cardinality(Held) >= MaxPending
Start(l) ==
  /\ session[l] = "new"
  /\ session' = [session EXCEPT ![l] = IF Full THEN "refused" ELSE "pending"]
  /\ client' = [client EXCEPT ![l] = IF Mode[l] # "poll" THEN "none" ELSE IF Full THEN "closed" ELSE "open"]
  /\ UNCHANGED <<task, account, stored>>
Free(l) == session[l] = "pending"
Poll(t, l) ==
  /\ task[t].pc = "idle" /\ ~Listens(l) /\ Free(l)
  /\ session' = [session EXCEPT ![l] = "running"]
  /\ Goes(t, "ask", l, {})
  /\ UNCHANGED <<client, account, stored>>

\* complete_oauth() with a code.
Callback(t, l) ==
  /\ task[t].pc = "idle" /\ Listens(l) /\ Free(l)
  /\ session' = [session EXCEPT ![l] = "running"]
  /\ Goes(t, "ask", l, {})
  /\ UNCHANGED <<client, account, stored>>

\* The same address once more: _restore_deleted_oauth_accounts().
CallbackAgain(t, l) ==
  /\ task[t].pc = "idle" /\ Listens(l) /\ session[l] = "completed"
  /\ Goes(t, "restore", l, stored[l])
  /\ UNCHANGED <<session, client, account, stored>>
Restore(t) ==
  \E a \in task[t].left :
    /\ task[t].pc = "restore"
    /\ account' = [account EXCEPT ![a] = IF @ = "deleted" THEN "active" ELSE @]
    /\ Goes(t, "restore", task[t].login, task[t].left \ {a})
    /\ UNCHANGED <<session, client, stored>>
RestoreEnds(t) ==
  /\ task[t].pc = "restore" /\ task[t].left = {}
  /\ Rests(t)
  /\ UNCHANGED <<session, client, account, stored>>

\* The page calls back with an error.
Denied(l) ==
  /\ Listens(l) /\ session[l] \in {"pending", "running"}
  /\ session' = [session EXCEPT ![l] = "failed"]
  /\ UNCHANGED <<client, task, account, stored>>

\* _fail_oauth_session().
FailedQuietly(l) == session
Failed(l) == IF session[l] \in {"pending", "running", "failed"} THEN [session EXCEPT ![l] = "failed"] ELSE session

\* The provider answers: not yet, no, or with tokens.  A client that was
\* closed meanwhile answers nothing.
Asks(t) == task[t].pc = "ask"
Hears(t) == Asks(t) /\ client[task[t].login] # "closed"
NotYet(t) ==
  LET l == task[t].login
  IN  /\ Hears(t) /\ ~Listens(l)
      /\ session' = IF session[l] = "running" \/ (Mode[l] = "poll" /\ l \in Held)
                    THEN [session EXCEPT ![l] = "pending"] ELSE session
      /\ Rests(t)
      /\ UNCHANGED <<client, account, stored>>
Refuses(t) ==
  /\ Hears(t)
  /\ session' = Failed(task[t].login)
  /\ Rests(t)
  /\ UNCHANGED <<client, account, stored>>
Answers(t) ==
  /\ Hears(t)
  /\ Goes(t, "store", task[t].login, AccountsOf[task[t].login])
  /\ UNCHANGED <<session, client, account, stored>>
ClientGone(t) ==
  /\ Asks(t) /\ client[task[t].login] = "closed"
  /\ Rests(t)
  /\ UNCHANGED <<session, client, account, stored>>

\* _finish_oauth_import(): the accounts are written one by one, then the
\* session says so, if it is still there.
Store(t) ==
  \E a \in task[t].left :
    LET l == task[t].login
    IN  /\ task[t].pc = "store"
        /\ account' = [account EXCEPT ![a] = "active"]
        /\ stored' = [stored EXCEPT ![l] = @ \cup {a}]
        /\ Goes(t, "store", l, task[t].left \ {a})
        /\ UNCHANGED <<session, client>>
StoreFails(t) ==
  /\ task[t].pc = "store" /\ task[t].left # {}
  /\ session' = Failed(task[t].login)
  /\ client' = Closed(task[t].login)
  /\ Rests(t)
  /\ UNCHANGED <<account, stored>>
All(t) == task[t].left = {}
Finish(t) ==
  LET l == task[t].login
  IN  /\ task[t].pc = "store" /\ All(t)
      /\ session' = IF l \in Held THEN [session EXCEPT ![l] = "completed"] ELSE session
      /\ client' = Closed(l)
      /\ Rests(t)
      /\ UNCHANGED <<account, stored>>

\* _prune_oauth_sessions_locked(), ten minutes after the start.
KeepsClient(l) == client
Dropped(l) == Closed(l)
Expire(l) ==
  /\ l \in Held
  /\ session' = [session EXCEPT ![l] = "gone"]
  /\ client' = Dropped(l)
  /\ UNCHANGED <<task, account, stored>>

\* stop(), and the process starts again.
Restart ==
  /\ session' = [l \in Logins |-> IF l \in Held THEN "gone" ELSE session[l]]
  /\ client' = [l \in Logins |-> IF client[l] = "open" THEN "closed" ELSE client[l]]
  /\ task' = [t \in Tasks |-> Idle]
  /\ UNCHANGED <<account, stored>>

\* import_accounts() takes any account; import_local() those of the clients
\* installed beside the gateway, by the same write.  delete_account().
Import(a) ==
  /\ account' = [account EXCEPT ![a] = "active"]
  /\ UNCHANGED <<session, client, task, stored>>
ImportLocal(a) == account[a] # "none" /\ Import(a)
Delete(a) ==
  /\ account[a] = "active"
  /\ account' = [account EXCEPT ![a] = "deleted"]
  /\ UNCHANGED <<session, client, task, stored>>

Works(t) ==
  \/ NotYet(t) \/ Refuses(t) \/ Answers(t) \/ ClientGone(t)
  \/ Store(t) \/ StoreFails(t) \/ Finish(t) \/ Restore(t) \/ RestoreEnds(t)

Next ==
  \/ \E l \in Logins : Start(l) \/ Denied(l) \/ Expire(l)
  \/ \E t \in Tasks, l \in Logins : Poll(t, l) \/ Callback(t, l) \/ CallbackAgain(t, l)
  \/ \E t \in Tasks : Works(t)
  \/ \E a \in Brought : Import(a) \/ ImportLocal(a) \/ Delete(a)
  \/ Restart

Spec == Init /\ [][Next]_vars

\* Every call to a provider has a timeout, every write of the store ends.
FairSpec == Spec /\ \A t \in Tasks : WF_vars(Works(t))

-----------------------------------------------------------------------------
(* What must hold.                                                         *)

\* A login is worked on by one request at a time, whatever the browser, the
\* paste and the polls send at once: a code or a device code is exchanged
\* once (oauth_status, complete_oauth).
OneAtATime ==
  \A t, u \in Tasks :
    task[t].pc \in {"ask", "store"} /\ task[u].pc \in {"ask", "store"} /\ task[t].login = task[u].login => t = u

\* A login that is shown as completed has written every account it brought,
\* and an account that a failed write left out is not shown (_finish_oauth_import).
CompletedIsStored == \A l \in Logins : session[l] = "completed" => stored[l] = AccountsOf[l]

\* No WorkBuddy client stays open without a session that will close it.
NoClientLeft == \A l \in Logins : client[l] = "open" => l \in Held /\ session[l] # "completed"
=============================================================================
