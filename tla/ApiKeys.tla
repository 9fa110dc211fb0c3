------------------------------- MODULE ApiKeys -------------------------------
(***************************************************************************)
(* The client keys: the console's and the portal's operations on a row of  *)
(* api_keys, and the requests that come in with a key.                     *)
(* src/app/codex_gateway.py, src/app/portal.py, src/app/bundle.py.         *)
(*                                                                         *)
(* A handler reads the row, then writes it in another operation of the     *)
(* store; what it read is in "ops" between the two.  A secret is a number: *)
(* each key that is made or rotated gets one nobody had before.            *)
(***************************************************************************)
EXTENDS Integers, FiniteSets

CONSTANTS Keys, Owners, Nobody,
          MaxSecrets,   \* bounds the keys made and rotated
          MaxOps        \* and the handlers at work at once

ASSUME BoundsAssumption == MaxSecrets \in Nat /\ MaxOps \in Nat /\ Nobody \notin Owners

VARIABLES
  row,      \* api_keys: status, fingerprint, key_ciphertext, owner_user_id
  secrets,  \* how many were made
  ops,      \* handlers between their read and their write
  known,    \* the secrets that were shown to somebody, by key
  replaced, \* secrets that were rotated away
  late,     \* those of them that were let in since
  quiet     \* keys that were deleted when no handler was at work on them

vars == <<row, secrets, ops, known, replaced, late, quiet>>

None == [st |-> "none", secret |-> 0, shown |-> 0, owner |-> Nobody, fast |-> FALSE]
Statuses == {"none", "active", "disabled", "deleted"}
Op(kind, key, by, value) == [kind |-> kind, key |-> key, by |-> by, value |-> value]
Kinds == {"rotate", "enable", "fast", "hand"}

TypeOK ==
  /\ row \in [Keys -> [st : Statuses, secret : 0..MaxSecrets, shown : 0..MaxSecrets,
                       owner : Owners \cup {Nobody}, fast : BOOLEAN]]
  /\ secrets \in 0..MaxSecrets
  /\ ops \subseteq [kind : Kinds, key : Keys, by : {"admin", "owner"}, value : BOOLEAN]
  /\ known \in [Keys -> SUBSET (1..MaxSecrets)]
  /\ late \subseteq replaced /\ replaced \subseteq 1..MaxSecrets /\ quiet \subseteq Keys

Init ==
  /\ row = [k \in Keys |-> None] /\ secrets = 0 /\ ops = {}
  /\ known = [k \in Keys |-> {}] /\ replaced = {} /\ late = {} /\ quiet = {}

Removed(k) == row[k].st = "deleted"
New == secrets < MaxSecrets /\ secrets' = secrets + 1
Fresh(owner) == [st |-> "active", secret |-> secrets', shown |-> secrets', owner |-> owner, fast |-> FALSE]
Begin(op) == op \notin ops /\ Cardinality(ops) < MaxOps /\ ops' = ops \cup {op}
End(op) == op \in ops /\ ops' = ops \ {op}

\* create_api_key(): an administrator's key has no owner, and is shown once.
Create(k) ==
  /\ row[k].st = "none" /\ New
  /\ row' = [row EXCEPT ![k] = Fresh(Nobody)]
  /\ known' = [known EXCEPT ![k] = @ \cup {secrets'}]
  /\ UNCHANGED <<ops, replaced, late, quiet>>
OwnedBy(owner) == {k \in Keys : row[k].st # "none" /\ row[k].owner = owner}
LoginCreates(k, owner) ==
  /\ row[k].st = "none" /\ OwnedBy(owner) = {} /\ New
  /\ row' = [row EXCEPT ![k] = Fresh(owner)]
  /\ UNCHANGED <<ops, known, replaced, late, quiet>>
RotateBegin(k, by) ==
  /\ IF by = "admin" THEN row[k].st \notin {"none", "deleted"}
     ELSE row[k].owner # Nobody /\ row[k].st = "active"
  /\ Begin(Op("rotate", k, by, TRUE))
  /\ UNCHANGED <<row, secrets, known, replaced, late, quiet>>
CipherOnly(k) == [row[k] EXCEPT !.st = "active", !.shown = secrets']
RotatedRow(k) == [row[k] EXCEPT !.st = "active", !.secret = secrets', !.shown = secrets']
RotateEnd(op) ==
  /\ op.kind = "rotate" /\ End(op) /\ New
  /\ row' = [row EXCEPT ![op.key] = RotatedRow(op.key)]
  /\ replaced' = replaced \cup ({row[op.key].secret} \ {row'[op.key].secret})
  /\ known' = IF op.by = "admin" THEN [known EXCEPT ![op.key] = @ \cup {secrets'}] ELSE known
  /\ UNCHANGED <<late, quiet>>

\* update_api_key(): the status is looked at before, not by the write.
UpdateBegin(k, kind, value) ==
  /\ kind \in {"enable", "fast"} /\ row[k].st \notin {"none", "deleted"}
  /\ Begin(Op(kind, k, "admin", value))
  /\ UNCHANGED <<row, secrets, known, replaced, late, quiet>>
UpdateEnd(op) ==
  /\ op.kind \in {"enable", "fast"} /\ End(op)
  /\ row' = IF op.kind = "fast" THEN [row EXCEPT ![op.key].fast = op.value]
            ELSE [row EXCEPT ![op.key].st = IF op.value THEN "active" ELSE "disabled"]
  /\ UNCHANGED <<secrets, known, replaced, late, quiet>>

\* delete_api_key(): one operation, and the ciphertext goes with it.
DeletedRow(k) == [row[k] EXCEPT !.st = "deleted", !.shown = 0]
Delete(k) ==
  /\ row[k].st \notin {"none", "deleted"}
  /\ row' = [row EXCEPT ![k] = DeletedRow(k)]
  /\ quiet' = IF \E op \in ops : op.key = k THEN quiet ELSE quiet \cup {k}
  /\ UNCHANGED <<secrets, ops, known, replaced, late>>

\* list_api_keys() and codex_bundle() show the secret of the row they read;
\* desktop_key() and the playground look at the status first.
Show(k) ==
  /\ row[k].st \notin {"none", "deleted"} /\ row[k].shown # 0
  /\ known' = [known EXCEPT ![k] = @ \cup {row[k].shown}]
  /\ UNCHANGED <<row, secrets, ops, replaced, late, quiet>>
HandBegin(k) ==
  /\ row[k].owner # Nobody /\ row[k].st = "active" /\ Begin(Op("hand", k, "owner", TRUE))
  /\ UNCHANGED <<row, secrets, known, replaced, late, quiet>>
HandEnd(op) ==
  /\ op.kind = "hand" /\ End(op)
  /\ known' = IF row[op.key].shown = 0 THEN known   \* "rotate it first"
              ELSE [known EXCEPT ![op.key] = @ \cup {row[op.key].shown}]
  /\ UNCHANGED <<row, secrets, replaced, late, quiet>>
Matches(secret) == {k \in Keys : row[k].secret = secret /\ row[k].st = "active"}
Authenticate(k, secret) ==
  /\ secret \in known[k] /\ Matches(secret) # {}
  /\ late' = late \cup ({secret} \cap replaced)
  /\ UNCHANGED <<row, secrets, ops, known, replaced, quiet>>

Next ==
  \/ \E k \in Keys :
       \/ Create(k) \/ Delete(k) \/ Show(k) \/ HandBegin(k)
       \/ \E owner \in Owners : LoginCreates(k, owner)
       \/ \E by \in {"admin", "owner"} : RotateBegin(k, by)
       \/ \E kind \in Kinds, value \in BOOLEAN : UpdateBegin(k, kind, value)
       \/ \E secret \in 1..MaxSecrets : Authenticate(k, secret)
  \/ \E op \in ops : RotateEnd(op) \/ UpdateEnd(op) \/ HandEnd(op)

Spec == Init /\ [][Next]_vars

-----------------------------------------------------------------------------
(* What must hold.                                                         *)

\* What the console, the bundle and the desktop client show of a key is the
\* secret that the key's fingerprint accepts, through every interleaving of
\* rotations, deletions and reads.
ShownIsAccepted == \A k \in Keys : row[k].shown # 0 => row[k].shown = row[k].secret

\* A secret that was rotated away lets nobody in, ever.
ReplacedSecretsDie == late = {}

\* A key that is deleted when nobody works on it is gone for good, and so is
\* what it showed.
QuietRemovalIsFinal == \A k \in quiet : Removed(k) /\ row[k].shown = 0

\* A user never has two keys, and an administrator's key belongs to nobody.
OneKeyEach == \A j, k \in Keys : row[j].owner = row[k].owner /\ row[j].owner # Nobody => j = k

\* All of it (rotate_api_key, delete_api_key, verify, codex_bundle).
KeysAreTrue == ShownIsAccepted /\ ReplacedSecretsDie /\ QuietRemovalIsFinal /\ OneKeyEach
=============================================================================
