----------------------------- MODULE AdminSessions -----------------------------
(***************************************************************************)
(* The administrator's password, the sessions made with it and the count   *)
(* of failed logins (src/app/admin_auth.py).                               *)
(*                                                                         *)
(* A login reads the count, then the row of the password, verifies it in   *)
(* a thread and writes its session in another operation of the store; a    *)
(* change of the password does the same.  The count is a list that a       *)
(* login keeps in hand while another login may throw it away.              *)
(***************************************************************************)
EXTENDS Integers, Sequences, FiniteSets, SequencesExt

CONSTANTS Passwords, Initial,  \* Initial = ADMIN_INITIAL_PASSWORD
          Logins,              \* requests at work at once
          MaxFailures, Window, \* admin_login_max_failures, admin_login_window_minutes
          MaxAge,              \* admin_session_hours
          MaxTime, MaxSessions, MaxTries   \* bounds: the clock, the sessions made, the tries

BoundsAssumption ==
  /\ Initial \in Passwords /\ IsFiniteSet(Logins) /\ Logins # {}
  /\ {MaxFailures, Window, MaxAge, MaxTime, MaxSessions, MaxTries} \subseteq Nat

VARIABLES
  clock,
  password,  \* admin_credentials
  sessions,  \* admin_sessions: number, password it was made with, expiry
  made,      \* how many sessions were made
  work,      \* each request: what it is, where it is, and what it has read
  lists,     \* the lists of failures, the one in use last
  wrong,     \* when wrong passwords were verified since the last good login
  tries,
  early      \* sessions of logins that began before the last change of password

vars == <<clock, password, sessions, made, work, lists, wrong, tries, early>>

Idle == [kind |-> "idle", pw |-> Initial, new |-> Initial, read |-> Initial, list |-> 1, early |-> FALSE]
Kinds == {"idle", "checked", "read", "verified", "asks", "proves", "changes", "renews"}

TypeOK ==
  /\ clock \in 0..MaxTime /\ password \in Passwords /\ made \in 0..MaxSessions
  /\ sessions \subseteq [id : 1..MaxSessions, pw : Passwords, until : 0..(MaxTime + MaxAge)]
  /\ \A s, t \in sessions : s.id = t.id => s = t
  /\ \A l \in Logins : /\ work[l].kind \in Kinds /\ {work[l].pw, work[l].new, work[l].read} \subseteq Passwords
                       /\ work[l].list \in DOMAIN lists
  /\ lists \in Seq(Seq(0..MaxTime)) /\ wrong \in Seq(0..MaxTime) /\ early \subseteq 1..MaxSessions

Init ==
  /\ clock = 0 /\ password = Initial /\ sessions = {} /\ made = 0 /\ work = [l \in Logins |-> Idle]
  /\ lists = << <<>> >> /\ wrong = <<>> /\ tries = 0 /\ early = {}

Tick ==
  /\ clock < MaxTime /\ clock' = clock + 1
  /\ UNCHANGED <<password, sessions, made, work, lists, wrong, tries, early>>

Go(l, value) == work' = [work EXCEPT ![l] = value]

\* The failures that go are those at the left (popleft) that are too old.
IsStale(time) == time <= clock - Window
Stale(list) ==
  CHOOSE n \in 0..Len(list) : /\ \A x \in 1..n : IsStale(list[x])
                              /\ n < Len(list) => ~IsStale(list[n + 1])
Pruned(list) == SubSeq(list, Stale(list) + 1, Len(list))

-----------------------------------------------------------------------------
(* login().                                                                *)

\* The failures of the window are counted before anything is read.
FullLate(list) == Len(Pruned(list)) > MaxFailures
Full(list) == Len(Pruned(list)) >= MaxFailures
Check(l, pw) ==
  /\ work[l].kind = "idle" /\ tries < MaxTries /\ tries' = tries + 1
  /\ lists' = [lists EXCEPT ![Len(lists)] = Pruned(@)]
  /\ IF Full(Last(lists)) THEN UNCHANGED work
     ELSE Go(l, [Idle EXCEPT !.kind = "checked", !.pw = pw, !.list = Len(lists)])
  /\ UNCHANGED <<clock, password, sessions, made, wrong, early>>
ReadRow(l) ==
  /\ work[l].kind = "checked" /\ Go(l, [work[l] EXCEPT !.kind = "read", !.read = password])
  /\ UNCHANGED <<clock, password, sessions, made, lists, wrong, tries, early>>

\* A wrong password goes on the list that was taken at the start; a good one
\* throws the list in use away.
Noted(l) == [lists EXCEPT ![work[l].list] = Append(@, clock)]
Verify(l) ==
  /\ work[l].kind = "read"
  /\ IF work[l].pw = work[l].read
       THEN Go(l, [work[l] EXCEPT !.kind = "verified"]) /\ lists' = Append(lists, <<>>) /\ wrong' = <<>>
       ELSE Go(l, Idle) /\ lists' = Noted(l) /\ wrong' = Append(Pruned(wrong), clock)
  /\ UNCHANGED <<clock, password, sessions, made, tries, early>>

\* create_session(), for a login and for a change of the password.
Session(pw) == [id |-> made + 1, pw |-> pw, until |-> clock + MaxAge]
Create(l) ==
  /\ work[l].kind \in {"verified", "renews"} /\ made < MaxSessions /\ made' = made + 1
  /\ sessions' = sessions \cup {Session(work[l].pw)}
  /\ early' = IF work[l].early THEN early \cup {made'} ELSE early
  /\ Go(l, Idle) /\ UNCHANGED <<clock, password, lists, wrong, tries>>

-----------------------------------------------------------------------------
(* change_password(), logout(), and what takes sessions away.              *)

Alive(s) == s.until > clock
Ask(l, pw, new) ==
  /\ work[l].kind = "idle" /\ tries < MaxTries /\ tries' = tries + 1
  /\ new # pw /\ \E s \in sessions : Alive(s)          \* require_write()
  /\ Go(l, [Idle EXCEPT !.kind = "asks", !.pw = pw, !.new = new])
  /\ UNCHANGED <<clock, password, sessions, made, lists, wrong, early>>
Prove(l) ==
  /\ work[l].kind = "asks" /\ Go(l, [work[l] EXCEPT !.kind = "proves", !.read = password])
  /\ UNCHANGED <<clock, password, sessions, made, lists, wrong, tries, early>>
Accept(l) ==
  /\ work[l].kind = "proves"
  /\ Go(l, IF work[l].pw = work[l].read THEN [work[l] EXCEPT !.kind = "changes"] ELSE Idle)
  /\ UNCHANGED <<clock, password, sessions, made, lists, wrong, tries, early>>
Left(l) == {}
Change(l) ==
  /\ work[l].kind = "changes" /\ password' = work[l].new /\ sessions' = Left(l) /\ early' = {}
  /\ work' = [k \in Logins |->
       IF k = l THEN [work[l] EXCEPT !.kind = "renews", !.pw = work[l].new]
       ELSE IF work[k].kind = "idle" THEN work[k] ELSE [work[k] EXCEPT !.early = TRUE]]
  /\ UNCHANGED <<clock, made, lists, wrong, tries>>

Logout(s) ==
  /\ s \in sessions /\ sessions' = sessions \ {s}
  /\ UNCHANGED <<clock, password, made, work, lists, wrong, tries, early>>
PruneSessions ==
  /\ (\E s \in sessions : ~Alive(s)) /\ sessions' = {s \in sessions : Alive(s)}
  /\ UNCHANGED <<clock, password, made, work, lists, wrong, tries, early>>

\* start(): the counts are of the process, the password and the sessions are not.
Restart ==
  /\ tries < MaxTries /\ tries' = tries + 1
  /\ work' = [l \in Logins |-> Idle] /\ lists' = << <<>> >> /\ wrong' = <<>>
  /\ UNCHANGED <<clock, password, sessions, made, early>>

Next ==
  \/ Tick \/ PruneSessions \/ Restart
  \/ \E l \in Logins :
       \/ \E pw \in Passwords : Check(l, pw) \/ \E new \in Passwords : Ask(l, pw, new)
       \/ ReadRow(l) \/ Verify(l) \/ Create(l) \/ Prove(l) \/ Accept(l) \/ Change(l)
  \/ \E s \in sessions : Logout(s)

Spec == Init /\ [][Next]_vars

-----------------------------------------------------------------------------
(* What must hold.                                                         *)

\* After a change of the password every session is of the new one, but for
\* those of requests that were under way when it changed.
OthersAreRevoked == \A s \in sessions : s.pw = password \/ s.id \in early

\* Since its last good login an address never has more wrong passwords verified
\* within a window than the limit and, twice, what may be under way beside it:
\* a count is read before the thread and written after it, and the requests
\* that a good login overtakes write theirs on the list it has thrown away.
After(list, time) == {x \in DOMAIN list : list[x] > time}
TriesBounded == Cardinality(After(wrong, clock - Window)) <= MaxFailures + 2 * (Cardinality(Logins) - 1)
=============================================================================
