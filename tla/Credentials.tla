---------------------------- MODULE Credentials -----------------------------
(***************************************************************************)
(* The credential file of one account and the requests that renew it:      *)
(* credentials(), grok_credentials(), workbuddy_credentials() and          *)
(* antigravity_credentials() of src/app/codex_gateway.py with the          *)
(* refresh_credentials() of src/app/providers.                             *)
(*                                                                         *)
(* A token is a number, given out in order by the provider; a login of the *)
(* account starts a family of tokens of its own.  Every refresh token is   *)
(* accepted once (external: how the providers rotate them).  The file is   *)
(* replaced in one step; every await is a step of its own.                 *)
(***************************************************************************)
EXTENDS Integers, FiniteSets

CONSTANTS Requests,
          Google,     \* the provider is Antigravity
          MaxTokens,  \* bound: tokens given out
          MaxLogins   \* bound: logins of the account

NoOne == "no one"

BoundAssumption ==
  MaxTokens \in Nat /\ MaxLogins \in Nat /\ Google \in BOOLEAN /\ NoOne \notin Requests

VARIABLES
  file,    \* the credential on disk
  status,  \* accounts.status
  lock,    \* _refresh_locks of the account
  req,     \* what each request is doing and the credential it has read
  issued,  \* the last token given out
  valid,   \* the refresh tokens the provider accepts
  logins,  \* the family of the last login
  lost     \* history: an answer with new tokens of this family never arrived

vars == <<file, status, lock, req, issued, valid, logins, lost>>

Tokens == 0..MaxTokens
Credential == [token : Tokens, family : 0..MaxLogins, expired : BOOLEAN, project : BOOLEAN]

TypeOK ==
  /\ file \in Credential
  /\ status \in {"active", "invalid"}
  /\ lock \in Requests \cup {NoOne}
  /\ req \in [Requests -> [pc : {"idle", "wait", "ask", "send", "resend", "discover"}, has : Credential]]
  /\ issued \in Tokens /\ valid \subseteq 0..issued
  /\ logins \in 0..MaxLogins
  /\ lost \subseteq 0..logins
  /\ \A r \in Requests : req[r].pc = "ask" => lock = r

Init ==
  /\ file = [token |-> 0, family |-> 0, expired |-> FALSE, project |-> ~Google]
  /\ status = "active" /\ lock = NoOne
  /\ req = [r \in Requests |-> [pc |-> "idle", has |-> file]]
  /\ issued = 0 /\ valid = {0} /\ logins = 0 /\ lost = {}

At(r, pc) == req[r].pc = pc
Goes(r, pc, cred) == req' = [req EXCEPT ![r] = [pc |-> pc, has |-> cred]]
Ends(r) == Goes(r, "idle", file)

\* What a request does with a credential it may use: Antigravity needs the
\* Cloud Code project first.
Onward(cred) == IF cred.project THEN "send" ELSE "discover"

-----------------------------------------------------------------------------
\* The file is read; a token about to expire is renewed under the lock.
Load(r) ==
  /\ At(r, "idle") /\ status = "active"
  /\ Goes(r, IF file.expired THEN "wait" ELSE Onward(file), file)
  /\ UNCHANGED <<file, status, lock, issued, valid, logins, lost>>
LockFree == lock = NoOne
ReadAgain(r) == file
Lock(r) ==
  /\ At(r, "wait") /\ LockFree
  /\ LET cred == ReadAgain(r)
     IN IF cred.expired
        THEN lock' = r /\ Goes(r, "ask", cred)
        ELSE lock' = lock /\ Goes(r, Onward(cred), cred)
  /\ UNCHANGED <<file, status, issued, valid, logins, lost>>

\* The provider takes the refresh token and gives a new one.
Renewed(cred) == [cred EXCEPT !.token = issued + 1, !.expired = FALSE]
Gives(cred) ==
  /\ cred.token \in valid /\ issued < MaxTokens
  /\ issued' = issued + 1
  /\ valid' = (valid \ {cred.token}) \cup {issued + 1}
Persisted(r) == Renewed(req[r].has)
Unlocked(r) == NoOne
Refresh(r) ==
  /\ At(r, "ask")
  /\ Gives(req[r].has)
  /\ file' = Persisted(r)
  /\ lock' = Unlocked(r)
  /\ Goes(r, Onward(file'), file')
  /\ UNCHANGED <<status, logins, lost>>

\* The provider says no, or cannot be reached.  Antigravity marks the account
\* only when it said no, and sends what it has otherwise.
Refused(r) ==
  /\ At(r, "ask") /\ req[r].has.token \notin valid
  /\ status' = "invalid"
  /\ lock' = Unlocked(r)
  /\ Ends(r)
  /\ UNCHANGED <<file, issued, valid, logins, lost>>
Unreached(r) ==
  /\ At(r, "ask")
  /\ lock' = Unlocked(r)
  /\ IF Google
     THEN Goes(r, Onward(req[r].has), req[r].has) /\ UNCHANGED status
     ELSE Ends(r) /\ status' \in {"active", "invalid"}
  /\ UNCHANGED <<file, issued, valid, logins, lost>>

\* The answer is lost after the provider has changed the token.
Lose(r) ==
  /\ At(r, "ask")
  /\ Gives(req[r].has)
  /\ lost' = lost \cup {req[r].has.family}
  /\ lock' = Unlocked(r)
  /\ IF Google
     THEN Goes(r, Onward(req[r].has), req[r].has) /\ UNCHANGED status
     ELSE Ends(r) /\ status' \in {status, "invalid"}
  /\ UNCHANGED <<file, logins>>

\* The request is sent; a 401 marks the account, but Antigravity renews the
\* token first, without the lock, and sends once more.
Sent(r) ==
  /\ req[r].pc \in {"send", "resend"}
  /\ Ends(r)
  /\ UNCHANGED <<file, status, lock, issued, valid, logins, lost>>
Unauthorized(r) ==
  /\ At(r, "send")
  /\ IF Google THEN Goes(r, "resend", req[r].has) /\ UNCHANGED status
     ELSE Ends(r) /\ status' = "invalid"
  /\ UNCHANGED <<file, lock, issued, valid, logins, lost>>
RenewUnlocked(r) ==
  /\ At(r, "resend")
  /\ IF req[r].has.token \in valid
     THEN Gives(req[r].has) /\ file' = Renewed(req[r].has) /\ UNCHANGED status
     ELSE status' = "invalid" /\ UNCHANGED <<file, issued, valid>>
  /\ Ends(r)
  /\ UNCHANGED <<lock, logins, lost>>

\* _discover_antigravity_project() writes the credential it has read, with
\* the project.
Discover(r) ==
  /\ At(r, "discover")
  /\ file' = [req[r].has EXCEPT !.project = TRUE]
  /\ Goes(r, "send", file')
  /\ UNCHANGED <<status, lock, issued, valid, logins, lost>>

-----------------------------------------------------------------------------
\* The token runs out; the administrator signs in to the account again.
Expire ==
  /\ ~file.expired
  /\ file' = [file EXCEPT !.expired = TRUE]
  /\ UNCHANGED <<status, lock, req, issued, valid, logins, lost>>
Login ==
  /\ issued < MaxTokens /\ logins < MaxLogins
  /\ issued' = issued + 1 /\ valid' = valid \cup {issued + 1}
  /\ logins' = logins + 1
  /\ file' = [token |-> issued + 1, family |-> logins + 1, expired |-> FALSE, project |-> ~Google]
  /\ status' = "active"
  /\ UNCHANGED <<lock, req, lost>>

\* The process starts again: what was asked for may have been given.
Restart ==
  /\ req' = [r \in Requests |-> [pc |-> "idle", has |-> file]]
  /\ lock' = NoOne
  /\ \/ UNCHANGED <<issued, valid, lost>>
     \/ \E r \in Requests : At(r, "ask") /\ Gives(req[r].has) /\ lost' = lost \cup {req[r].has.family}
  /\ UNCHANGED <<file, status, logins>>

Works(r) ==
  \/ Lock(r) \/ Refresh(r) \/ Refused(r) \/ Unreached(r) \/ Lose(r)
  \/ Sent(r) \/ Unauthorized(r) \/ RenewUnlocked(r) \/ Discover(r)

Next == (\E r \in Requests : Load(r) \/ Works(r)) \/ Expire \/ Login \/ Restart

Spec == Init /\ [][Next]_vars

\* Every call to a provider has a timeout; asyncio.Lock serves its waiters in
\* turn.
FairSpec == Spec /\ \A r \in Requests : WF_vars(Works(r)) /\ SF_vars(Lock(r))

-----------------------------------------------------------------------------
(* What must hold.                                                         *)

\* As long as no answer was lost, the token on disk is one the provider still
\* accepts: two requests never spend it twice, and no request writes an older
\* one over a newer (the second read under the lock).
FileIsGood == file.family \notin lost => file.token \in valid

\* A request that has the lock asks with a token the provider still accepts:
\* as long as no answer was lost, no account is marked invalid because another
\* request was faster.
NeverRefused == \A r \in Requests : At(r, "ask") /\ req[r].has.family \notin lost => req[r].has.token \in valid
=============================================================================
