----------------------------- MODULE PortalLogin -----------------------------
(***************************************************************************)
(* The self-service portal: a picture to solve, a code by mail, and the    *)
(* login that creates the user with its key and its reward.                *)
(* src/app/portal.py.                                                      *)
(*                                                                         *)
(* The store runs one operation at a time; the mail is sent, and what the  *)
(* desktop handler read before its login may be old, between two of them.  *)
(* Time is counted in ticks of one minute.                                 *)
(***************************************************************************)
EXTENDS Integers, Sequences, FiniteSets, FiniteSetsExt

CONSTANTS Emails, Devices, NoDevice,
          Grant,         \* billing_settings.new_user_usd, in cents
          CaptchaLife, CodeLife,     \* 5 and 10 minutes
          CaptchaLimit, HourLimit,   \* 40 and 10, of one address
          MaxAttempts,   \* 5
          MaxTime, MaxCaptchas, MaxCodes   \* bounds of the model

BoundsAssumption ==
  /\ Grant \in Nat \ {0} /\ MaxAttempts \in Nat \ {0}
  /\ CaptchaLife \in Nat \ {0} /\ CodeLife \in Nat \ {0}
  /\ NoDevice \notin Devices

VARIABLES
  now,
  captchas,   \* portal_captchas, by the time they expire: how many rows, how many unused
  codes,      \* portal_codes: [email, at, until, attempts, used, mail]
  users,      \* portal_users and their key: email -> [grant, device, via] or none
  keys,       \* how many keys api_keys has for the owner
  claimed,    \* signup_devices
  sessions,   \* portal_sessions: [email, via, code, until]
  pending     \* desktop logins between their two reads

vars == <<now, captchas, codes, users, keys, claimed, sessions, pending>>

NoUser == [grant |-> -1, device |-> NoDevice, via |-> "none"]
Known(email) == users[email] # NoUser
Vias == {"web", "desktop"}

TypeOK ==
  /\ now \in 0..MaxTime
  /\ captchas \in [1..(MaxTime + CaptchaLife) -> [rows : 0..MaxCaptchas, unused : 0..MaxCaptchas]]
  /\ \A u \in DOMAIN captchas : captchas[u].unused <= captchas[u].rows
  /\ codes \in Seq([email : Emails, at : Nat, until : Nat, attempts : Nat, used : BOOLEAN,
                    mail : {"sending", "sent", "failed"}])
  /\ \A e \in Emails : Known(e) => users[e] \in [grant : {0, Grant}, device : Devices \cup {NoDevice}, via : Vias]
  /\ keys \in [Emails -> Nat] /\ claimed \subseteq Devices
  /\ sessions \subseteq [email : Emails, via : Vias, code : 1..MaxCodes, until : Nat]

Init ==
  /\ now = 0 /\ codes = <<>> /\ claimed = {} /\ sessions = {} /\ pending = {}
  /\ captchas = [u \in 1..(MaxTime + CaptchaLife) |-> [rows |-> 0, unused |-> 0]]
  /\ users = [e \in Emails |-> NoUser] /\ keys = [e \in Emails |-> 0]

Tick == now < MaxTime /\ now' = now + 1 /\ UNCHANGED <<captchas, codes, users, keys, claimed, sessions, pending>>

Rows(times) == MapThenSumSet(LAMBDA u : captchas[u].rows, times)
\* captcha(): what expired is deleted, the rest of the address is counted.
Captcha ==
  /\ Rows(DOMAIN captchas) < MaxCaptchas
  /\ Rows({u \in DOMAIN captchas : u >= now}) < CaptchaLimit
  /\ captchas' = [captchas EXCEPT ![now + CaptchaLife] = [rows |-> @.rows + 1, unused |-> @.unused + 1]]
  /\ UNCHANGED <<now, codes, users, keys, claimed, sessions, pending>>

Live(code) == ~code.used /\ code.mail # "failed"
\* The codes of the last minute, and of the last hour.
Recent(email) == {k \in DOMAIN codes : codes[k].email = email /\ codes[k].at > now - 1 /\ codes[k].mail # "failed"}
Hourly == {k \in DOMAIN codes : codes[k].at > now - 60 /\ codes[k].mail # "failed"}
Superseded(email) == [k \in DOMAIN codes |-> IF codes[k].email = email THEN [codes[k] EXCEPT !.used = TRUE] ELSE codes[k]]
IssueCode(u, email, solved, named) ==
  /\ captchas[u].unused > 0 /\ u > now
  /\ captchas' = [captchas EXCEPT ![u].unused = @ - 1]
  /\ IF solved /\ (named \/ Known(email)) /\ Recent(email) = {} /\ Cardinality(Hourly) < HourLimit
     THEN /\ Len(codes) < MaxCodes
          /\ codes' = Append(Superseded(email),
               [email |-> email, at |-> now, until |-> now + CodeLife, attempts |-> 0, used |-> FALSE, mail |-> "sending"])
     ELSE UNCHANGED codes
  /\ UNCHANGED <<now, users, keys, claimed, sessions, pending>>

\* A mail that cannot be sent takes its row with it.
Mail(k, sent) ==
  /\ k \in DOMAIN codes /\ codes[k].mail = "sending"
  /\ codes' = [codes EXCEPT ![k].mail = IF sent THEN "sent" ELSE "failed"]
  /\ UNCHANGED <<now, captchas, users, keys, claimed, sessions, pending>>

\* complete(), one operation of the store: the code, the user, its reward, its
\* key and the session.
Tried(k, correct) == [codes EXCEPT ![k].attempts = @ + 1, ![k].used = correct]
Open(k, email) ==
  k \in DOMAIN codes /\ codes[k].email = email /\ Live(codes[k]) /\ codes[k].until > now
  /\ codes[k].attempts < MaxAttempts
Reward(device) == IF device \in claimed THEN 0 ELSE Grant
SessionLife(via) == IF via = "web" THEN 12 * 60 ELSE 30 * 24 * 60
RewardEachTime(k, email, correct, device, via) ==
  IF ~Open(k, email)
  THEN UNCHANGED <<codes, users, keys, claimed, sessions>>
  ELSE /\ codes' = Tried(k, correct)
       /\ IF ~correct THEN UNCHANGED <<users, keys, claimed, sessions>>
          ELSE /\ codes[k].mail = "sent"   \* nobody knows the code before
               /\ users' = [users EXCEPT ![email] = [grant |-> Reward(device), device |-> device, via |-> via]]
               /\ claimed' = IF Known(email) THEN claimed ELSE claimed \cup ({device} \ {NoDevice})
               /\ keys' = IF keys[email] = 0 THEN [keys EXCEPT ![email] = 1] ELSE keys
               /\ sessions' = sessions \cup {[email |-> email, via |-> via, code |-> k, until |-> now + SessionLife(via)]}
Complete(k, email, correct, device, via) ==
  IF ~Open(k, email)
  THEN UNCHANGED <<codes, users, keys, claimed, sessions>>
  ELSE /\ codes' = Tried(k, correct)
       /\ IF ~correct THEN UNCHANGED <<users, keys, claimed, sessions>>
          ELSE /\ codes[k].mail = "sent"   \* nobody knows the code before
               /\ users' = IF Known(email) THEN users
                           ELSE [users EXCEPT ![email] = [grant |-> Reward(device), device |-> device, via |-> via]]
               /\ claimed' = IF Known(email) THEN claimed ELSE claimed \cup ({device} \ {NoDevice})
               /\ keys' = IF keys[email] = 0 THEN [keys EXCEPT ![email] = 1] ELSE keys
               /\ sessions' = sessions \cup {[email |-> email, via |-> via, code |-> k, until |-> now + SessionLife(via)]}

\* verify(): a browser may name no device.
VerifyWeb(k, email, correct, device) ==
  /\ Complete(k, email, correct, device, "web")
  /\ UNCHANGED <<now, captchas, pending>>

\* desktop_verify(): whether the user exists is read first.
VerifyDesktopBegin(k, email, correct, device) ==
  /\ pending = {} /\ (Known(email) \/ device # NoDevice)
  /\ pending' = {[code |-> k, email |-> email, correct |-> correct, device |-> device]}
  /\ UNCHANGED <<now, captchas, codes, users, keys, claimed, sessions>>
VerifyDesktopEnd(p) ==
  /\ p \in pending /\ pending' = pending \ {p}
  /\ Complete(p.code, p.email, p.correct, p.device, "desktop")
  /\ UNCHANGED <<now, captchas>>

\* logout() and desktop_logout(); session() refuses one that expired.
Logout(s) ==
  /\ s \in sessions /\ s.until > now /\ sessions' = sessions \ {s}
  /\ UNCHANGED <<now, captchas, codes, users, keys, claimed, pending>>

Next ==
  \/ Tick \/ Captcha
  \/ \E u \in DOMAIN captchas, e \in Emails, solved, named \in BOOLEAN : IssueCode(u, e, solved, named)
  \/ \E k \in 1..MaxCodes, sent \in BOOLEAN : Mail(k, sent)
  \/ \E k \in 1..MaxCodes, e \in Emails, correct \in BOOLEAN, d \in Devices \cup {NoDevice} :
       VerifyWeb(k, e, correct, d)
  \/ \E k \in DOMAIN codes, correct \in BOOLEAN, d \in Devices \cup {NoDevice} :
       VerifyDesktopBegin(k, codes[k].email, correct, d)
  \/ \E p \in pending : VerifyDesktopEnd(p)
  \/ \E s \in sessions : Logout(s)

Spec == Init /\ [][Next]_vars

-----------------------------------------------------------------------------
(* What must hold.                                                         *)

\* Of the codes of an address only the last can still be used (l. 211).
OneLiveCode ==
  \A j, k \in DOMAIN codes : j < k /\ codes[j].email = codes[k].email /\ codes[k].mail # "failed" => ~Live(codes[j])

\* A code is tried five times at most, right or wrong, and opens one session.
FiveTries ==
  /\ \A k \in DOMAIN codes : codes[k].attempts <= MaxAttempts
  /\ \A s, t \in sessions : s.code = t.code => s = t

\* A computer that names itself is rewarded once, whatever the addresses; no
\* user of the desktop client is made without one, though the handler looks
\* for the user outside the operation that makes it.
RewardedOnce ==
  /\ \A e, f \in Emails : users[e].device = users[f].device /\ users[e].device # NoDevice
                          /\ users[e].grant > 0 /\ users[f].grant > 0 => e = f
  /\ \A e \in Emails : users[e].via = "desktop" => users[e].device # NoDevice

\* Every user has one key, and was sent the code it came in with; a session
\* belongs to a user.
UsersAreWhole ==
  /\ \A e \in Emails : keys[e] = IF Known(e) THEN 1 ELSE 0
  /\ \A e \in Emails : Known(e) => \E k \in DOMAIN codes : codes[k].email = e /\ codes[k].used /\ codes[k].mail = "sent"
  /\ \A s \in sessions : Known(s.email) /\ codes[s.code].email = s.email

\* A user keeps its first reward: no later login changes it.
RewardIsFinal == [][\A e \in Emails : Known(e) => users'[e] = users[e]]_vars
=============================================================================
