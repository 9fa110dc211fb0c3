------------------------------ MODULE KeyProofs ------------------------------
(***************************************************************************)
(* Theorems about who gets in: ApiKeys, for any keys, owners, secrets and  *)
(* handlers, and in sections of their own Credentials (Renew), OauthLogin  *)
(* (SignIn), AdminSessions (Console) and PortalLogin (Entry).              *)
(*                                                                         *)
(* That a secret that was rotated away lets nobody in is not inductive: it *)
(* needs that no two rows have one secret, although a handler writes a row *)
(* that others have changed since it was read, and that no row ever gets   *)
(* an old one back (Owned).  A deletion is final as long as no handler has *)
(* read the row before it (Removals).                                      *)
(***************************************************************************)
EXTENDS ApiKeys, Sequences, FiniteSetTheorems, TLAPS

\* A key that exists has a secret of its own, which nobody has rotated away.
Owned ==
  \A k \in Keys :
    /\ row[k].st = "none" <=> row[k].secret = 0
    /\ row[k].st = "none" => row[k].owner = Nobody
    /\ row[k].secret <= secrets /\ row[k].secret \notin replaced
    /\ row[k].shown \in {0, row[k].secret}
    /\ \A j \in Keys : row[j].secret = row[k].secret /\ row[k].secret # 0 => j = k

\* Only secrets that were made are known, or replaced.
Made ==
  /\ \A s \in replaced : s <= secrets
  /\ \A k \in Keys : \A s \in known[k] : s <= secrets

\* A handler works on a key that exists, and on none that went quietly.
Removals ==
  /\ \A op \in ops : row[op.key].st # "none" /\ op.key \notin quiet
  /\ QuietRemovalIsFinal

KInv == TypeOK /\ Owned /\ Made /\ Removals /\ late = {} /\ OneKeyEach

Rows == [st : Statuses, secret : 0..MaxSecrets, shown : 0..MaxSecrets,
         owner : Owners \cup {Nobody}, fast : BOOLEAN]

LEMMA RowFacts ==
  ASSUME TypeOK, NEW k \in Keys
  PROVE  /\ row[k] \in Rows
         /\ row[k].st \in Statuses /\ row[k].secret \in 0..MaxSecrets
         /\ row[k].shown \in 0..MaxSecrets /\ row[k].owner \in Owners \cup {Nobody}
<1>1. row[k] \in Rows
  BY DEF TypeOK, Rows
<1>. QED  BY <1>1 DEF Rows

LEMMA OpFacts ==
  ASSUME TypeOK, NEW op \in ops
  PROVE  op.key \in Keys /\ op.kind \in Kinds
<1>1. op \in [kind : Kinds, key : Keys, by : {"admin", "owner"}, value : BOOLEAN]
  BY DEF TypeOK
<1>. QED  BY <1>1

LEMMA KInit == Init => KInv
<1>. SUFFICES ASSUME Init PROVE KInv
  OBVIOUS
<1>1. /\ row = [k \in Keys |-> None] /\ secrets = 0 /\ ops = {} /\ known = [k \in Keys |-> {}]
      /\ replaced = {} /\ late = {} /\ quiet = {}
  BY DEF Init
<1>2. None.st = "none" /\ None.secret = 0 /\ None.shown = 0 /\ None.owner = Nobody /\ None \in Rows
  <2>1. 0 \in 0..MaxSecrets
    BY BoundsAssumption
  <2>2. None.st = "none" /\ None.secret = 0 /\ None.shown = 0 /\ None.owner = Nobody
    BY DEF None
  <2>3. None \in Rows
    BY <2>1 DEF None, Rows, Statuses
  <2>. QED  BY <2>2, <2>3
<1>3. secrets \in 0..MaxSecrets
  BY <1>1, BoundsAssumption
<1>4. TypeOK
  BY <1>1, <1>2, <1>3 DEF TypeOK, Rows
<1>5. Owned
  BY <1>1, <1>2 DEF Owned
<1>6. Made /\ Removals /\ OneKeyEach
  BY <1>1, <1>2 DEF Made, Removals, QuietRemovalIsFinal, OneKeyEach
<1>. QED  BY <1>1, <1>4, <1>5, <1>6 DEF KInv

-----------------------------------------------------------------------------
(* A row is written.                                                       *)

\* A row gets a secret that nobody had before.
LEMMA NewSecret ==
  ASSUME KInv, New, NEW k \in Keys, NEW new \in Rows, row' = [row EXCEPT ![k] = new],
         new.st \notin {"none", "deleted"}, new.secret = secrets', new.shown = secrets', k \notin quiet,
         new.owner = row[k].owner \/ \A j \in Keys : row[j].owner # new.owner \/ new.owner = Nobody,
         ops' \subseteq ops, quiet' = quiet, late' = late,
         replaced' = replaced \/ (replaced' = replaced \cup ({row[k].secret} \ {new.secret}) /\ row[k].secret # 0),
         known' = known \/ known' = [known EXCEPT ![k] = @ \cup {secrets'}]
  PROVE  KInv'
<1>. USE DEF KInv
<1>1. secrets \in Nat /\ secrets' = secrets + 1 /\ secrets' \in 1..MaxSecrets
  BY BoundsAssumption DEF New, TypeOK
<1>2. row' \in [Keys -> Rows] /\ row'[k] = new /\ \A j \in Keys : j # k => row'[j] = row[j]
  BY DEF TypeOK, Rows
<1>3. known' \in [Keys -> SUBSET (1..MaxSecrets)] /\ \A j \in Keys : known'[j] \subseteq known[j] \cup {secrets'}
  BY <1>1 DEF TypeOK
<1>4. replaced' \subseteq 1..MaxSecrets /\ replaced' \subseteq replaced \cup {row[k].secret} /\ replaced \subseteq replaced'
  <2>1. row[k].secret \in 0..MaxSecrets /\ replaced \subseteq 1..MaxSecrets
    BY RowFacts DEF TypeOK
  <2>2. row[k].secret # 0 => row[k].secret \in 1..MaxSecrets
    BY <2>1, BoundsAssumption
  <2>. QED  BY <2>1, <2>2
<1>5. TypeOK'
  <2>1. row' \in [Keys -> [st : Statuses, secret : 0..MaxSecrets, shown : 0..MaxSecrets,
                           owner : Owners \cup {Nobody}, fast : BOOLEAN]]
    BY <1>2 DEF Rows
  <2>2. secrets' \in 0..MaxSecrets
    BY <1>1
  <2>. QED  BY <2>1, <2>2, <1>3, <1>4 DEF TypeOK
<1>6. \A j \in Keys : row[j].secret \in Nat /\ row[j].secret <= secrets
  BY RowFacts, BoundsAssumption DEF Owned
<1>7. Owned'
  <2>1. ASSUME NEW j \in Keys, j # k
        PROVE  /\ row'[j] = row[j] /\ row'[j].secret \notin replaced' /\ row'[j].secret <= secrets'
               /\ row'[j].secret # secrets'
    <3>1. row'[j] = row[j] /\ row[j].secret <= secrets'
      BY <1>1, <1>2, <1>6, <2>1
    <3>2. row[j].secret \notin replaced
      BY DEF Owned
    <3>3. row[j].secret \notin replaced'
      BY <3>2, <2>1 DEF Owned
    <3>. QED  BY <3>1, <3>3, <1>1, <1>6
  <2>2. secrets' \notin replaced'
    <3>1. secrets' \notin replaced
      BY <1>1 DEF Made
    <3>. QED  BY <3>1, <1>1, <1>4, <1>6
  <2>3. row'[k] = new /\ secrets' # 0
    BY <1>1, <1>2
  <2>4. ASSUME NEW j \in Keys
        PROVE  /\ row'[j].st = "none" <=> row'[j].secret = 0
               /\ row'[j].st = "none" => row'[j].owner = Nobody
               /\ row'[j].secret <= secrets' /\ row'[j].secret \notin replaced'
               /\ row'[j].shown \in {0, row'[j].secret}
    <3>1. CASE j = k
      BY <1>1, <2>2, <2>3, <3>1
    <3>2. CASE j # k
      BY <2>1, <3>2 DEF Owned
    <3>. QED  BY <3>1, <3>2
  <2>5. ASSUME NEW j \in Keys, NEW i \in Keys, row'[j].secret = row'[i].secret, row'[i].secret # 0
        PROVE  j = i
    <3>1. CASE j = k
      BY <2>1, <2>3, <2>5, <3>1
    <3>2. CASE i = k
      BY <2>1, <2>3, <2>5, <3>2
    <3>3. CASE j # k /\ i # k
      BY <2>1, <2>5, <3>3 DEF Owned
    <3>. QED  BY <3>1, <3>2, <3>3
  <2>. QED  BY <2>4, <2>5 DEF Owned
<1>8. Made'
  <2>1. \A s \in replaced' : s <= secrets'
    BY <1>1, <1>4, <1>6 DEF Made, TypeOK
  <2>2. ASSUME NEW j \in Keys, NEW s \in known'[j] PROVE s <= secrets'
    <3>1. s \in known[j] \/ s = secrets'
      BY <1>3
    <3>. QED  BY <3>1, <1>1 DEF Made, TypeOK
  <2>. QED  BY <2>1, <2>2 DEF Made
<1>9. Removals'
  <2>1. \A op \in ops' : op.key \in Keys /\ row[op.key].st # "none" /\ op.key \notin quiet'
    BY OpFacts DEF Removals
  <2>2. \A op \in ops' : row'[op.key].st # "none"
    BY <2>1, <1>2
  <2>3. quiet \subseteq Keys
    BY DEF TypeOK
  <2>4. QuietRemovalIsFinal'
    BY <1>2, <2>3 DEF Removals, QuietRemovalIsFinal, Removed
  <2>. QED  BY <2>1, <2>2, <2>4 DEF Removals
<1>10. OneKeyEach'
  BY <1>2 DEF OneKeyEach
<1>. QED  BY <1>5, <1>7, <1>8, <1>9, <1>10

\* A row keeps its secret and its owner.
LEMMA SameSecret ==
  ASSUME KInv, NEW k \in Keys, NEW new \in Rows, row' = [row EXCEPT ![k] = new],
         new.secret = row[k].secret, new.owner = row[k].owner, new.shown \in {0, row[k].shown},
         row[k].st # "none", new.st # "none", k \in quiet' => new.st = "deleted" /\ new.shown = 0,
         UNCHANGED <<secrets, known, replaced, late>>, ops' \subseteq ops,
         quiet' \subseteq quiet \cup {k}, \A op \in ops' : op.key \notin quiet'
  PROVE  KInv'
<1>. USE DEF KInv
<1>1. row' \in [Keys -> Rows] /\ row'[k] = new /\ \A j \in Keys : j # k => row'[j] = row[j]
  BY DEF TypeOK, Rows
<1>2. \A j \in Keys : row'[j].secret = row[j].secret /\ row'[j].owner = row[j].owner
  BY <1>1
<1>3. TypeOK'
  BY <1>1 DEF TypeOK, Rows
<1>4. Owned'
  BY <1>1, <1>2 DEF Owned
<1>5. Made'
  BY DEF Made
<1>6. Removals'
  <2>1. \A op \in ops' : row'[op.key].st # "none"
    BY <1>1, OpFacts DEF Removals
  <2>2. QuietRemovalIsFinal'
    <3>1. ASSUME NEW j \in quiet' PROVE row'[j].st = "deleted" /\ row'[j].shown = 0
      <4>1. CASE j = k
        BY <1>1, <3>1, <4>1
      <4>2. CASE j # k
        <5>1. j \in quiet /\ j \in Keys
          BY <3>1, <4>2 DEF TypeOK
        <5>. QED  BY <1>1, <4>2, <5>1 DEF Removals, QuietRemovalIsFinal, Removed
      <4>. QED  BY <4>1, <4>2
    <3>. QED  BY <3>1 DEF QuietRemovalIsFinal, Removed
  <2>. QED  BY <2>1, <2>2 DEF Removals
<1>7. OneKeyEach'
  BY <1>2 DEF OneKeyEach
<1>. QED  BY <1>3, <1>4, <1>5, <1>6, <1>7

\* No row is written: a handler begins or ends, or somebody learns a secret.
LEMMA SameRows ==
  ASSUME KInv, UNCHANGED <<row, secrets, replaced, quiet>>, late' = {}, NEW k \in Keys,
         \/ ops' \subseteq ops
         \/ \E kind \in Kinds, by \in {"admin", "owner"}, value \in BOOLEAN :
              ops' = ops \cup {Op(kind, k, by, value)} /\ row[k].st \notin {"none", "deleted"},
         known' = known \/ (known' = [known EXCEPT ![k] = @ \cup {row[k].shown}] /\ row[k].shown # 0)
  PROVE  KInv'
<1>. USE DEF KInv
<1>1. row[k].shown # 0 => row[k].shown \in 1..MaxSecrets /\ row[k].shown <= secrets
  BY RowFacts, BoundsAssumption DEF Owned
<1>2. known' \in [Keys -> SUBSET (1..MaxSecrets)]
      /\ \A j \in Keys : \A s \in known'[j] : s <= secrets
  BY <1>1 DEF TypeOK, Made
<1>. DEFINE all == [kind : Kinds, key : Keys, by : {"admin", "owner"}, value : BOOLEAN]
<1>3. /\ ops' \subseteq all
      /\ \A op \in ops' : op \in ops \/ (op.key = k /\ row[k].st \notin {"none", "deleted"})
  <2>. ops \subseteq all
    BY DEF TypeOK
  <2>1. CASE ops' \subseteq ops
    BY <2>1, Zenon
  <2>2. ASSUME NEW kind \in Kinds, NEW by \in {"admin", "owner"}, NEW value \in BOOLEAN,
               ops' = ops \cup {Op(kind, k, by, value)}, row[k].st \notin {"none", "deleted"}
        PROVE  <1>3!:
    <3>. DEFINE new == Op(kind, k, by, value)
    <3>1. new \in all /\ new.key = k
      BY DEF Op
    <3>. HIDE DEF new, all
    <3>. QED  BY <2>2, <3>1, Zenon DEF new
  <2>. QED  BY <2>1, <2>2
<1>4. TypeOK'
  BY <1>2, <1>3 DEF TypeOK
<1>5. Owned' /\ Made' /\ OneKeyEach'
  BY <1>2 DEF Owned, Made, OneKeyEach
<1>6. Removals'
  BY <1>3 DEF Removals, QuietRemovalIsFinal, Removed
<1>. QED  BY <1>4, <1>5, <1>6

-----------------------------------------------------------------------------
(* The handlers.                                                           *)

LEMMA CreateStep ==
  ASSUME KInv, NEW k \in Keys,
         Create(k) \/ \E owner \in Owners : LoginCreates(k, owner)
  PROVE  KInv'
<1>. USE DEF KInv
<1>1. row[k].st = "none" /\ row[k].owner = Nobody /\ k \notin quiet /\ New
  BY DEF Create, LoginCreates, Owned, Removals, QuietRemovalIsFinal, Removed
<1>2. secrets' \in 0..MaxSecrets
  BY <1>1, BoundsAssumption DEF New, TypeOK
<1>3. ASSUME NEW owner \in Owners \cup {Nobody}
      PROVE  /\ Fresh(owner) \in Rows /\ Fresh(owner).st = "active" /\ Fresh(owner).owner = owner
             /\ Fresh(owner).secret = secrets' /\ Fresh(owner).shown = secrets'
  BY <1>2 DEF Fresh, Rows, Statuses
<1>4. CASE Create(k)
  <2>. DEFINE new == Fresh(Nobody)
  <2>1. /\ row' = [row EXCEPT ![k] = new] /\ known' = [known EXCEPT ![k] = @ \cup {secrets'}]
        /\ UNCHANGED <<ops, replaced, late, quiet>>
    BY <1>4 DEF Create
  <2>2. new \in Rows /\ new.st = "active" /\ new.owner = Nobody /\ new.secret = secrets' /\ new.shown = secrets'
    BY <1>3
  <2>. HIDE DEF new
  <2>. QED  BY <1>1, <2>1, <2>2, NewSecret
<1>5. ASSUME NEW owner \in Owners, LoginCreates(k, owner) PROVE KInv'
  <2>. DEFINE new == Fresh(owner)
  <2>1. row' = [row EXCEPT ![k] = new] /\ UNCHANGED <<ops, known, replaced, late, quiet>>
    BY <1>5 DEF LoginCreates
  <2>2. new \in Rows /\ new.st = "active" /\ new.owner = owner /\ new.secret = secrets' /\ new.shown = secrets'
    BY <1>3
  <2>3. \A j \in Keys : row[j].owner # owner
    <3>1. \A j \in Keys : row[j].st # "none" => row[j].owner # owner
      BY <1>5 DEF LoginCreates, OwnedBy
    <3>2. \A j \in Keys : row[j].st = "none" => row[j].owner = Nobody
      BY DEF Owned
    <3>. QED  BY <3>1, <3>2, BoundsAssumption
  <2>. HIDE DEF new
  <2>. QED  BY <1>1, <2>1, <2>2, <2>3, NewSecret
<1>. QED  BY <1>4, <1>5

\* The row may have changed since the handler read it: it exists all the same,
\* and did not go quietly.
LEMMA RotateStep == ASSUME KInv, NEW op \in ops, RotateEnd(op) PROVE KInv'
<1>. USE DEF KInv
<1>. DEFINE k == op.key
            new == RotatedRow(k)
<1>1. k \in Keys /\ row[k].st # "none" /\ k \notin quiet /\ row[k].secret # 0
  BY OpFacts DEF Removals, Owned
<1>2. /\ New /\ ops' = ops \ {op} /\ row' = [row EXCEPT ![k] = new] /\ UNCHANGED <<late, quiet>>
      /\ known' = known \/ known' = [known EXCEPT ![k] = @ \cup {secrets'}]
  BY DEF RotateEnd, End
<1>3. row'[k] = new /\ replaced' = replaced \cup ({row[k].secret} \ {new.secret})
  BY <1>1, <1>2 DEF RotateEnd, TypeOK
<1>4. secrets' \in 0..MaxSecrets
  BY <1>2, BoundsAssumption DEF New, TypeOK
<1>5. new \in Rows /\ new.st = "active" /\ new.owner = row[k].owner /\ new.secret = secrets' /\ new.shown = secrets'
  <2>1. row[k] \in Rows
    BY <1>1, RowFacts
  <2>. QED  BY <1>4, <2>1 DEF RotatedRow, Rows, Statuses
<1>. HIDE DEF new, k
<1>. QED  BY <1>1, <1>2, <1>3, <1>5, NewSecret

LEMMA UpdateStep == ASSUME KInv, NEW op \in ops, UpdateEnd(op) PROVE KInv'
<1>. USE DEF KInv
<1>. DEFINE k == op.key
            new == IF op.kind = "fast" THEN [row[k] EXCEPT !.fast = op.value]
                   ELSE [row[k] EXCEPT !.st = IF op.value THEN "active" ELSE "disabled"]
<1>1. k \in Keys /\ row[k].st # "none" /\ k \notin quiet /\ row[k] \in Rows
  BY OpFacts, RowFacts DEF Removals
<1>2. /\ ops' = ops \ {op} /\ row' = [row EXCEPT ![k] = new]
      /\ UNCHANGED <<secrets, known, replaced, late, quiet>>
  BY <1>1 DEF UpdateEnd, End
<1>3. op.value \in BOOLEAN
  BY DEF TypeOK
<1>4. new \in Rows /\ new.st # "none" /\ new.owner = row[k].owner /\ new.secret = row[k].secret /\ new.shown = row[k].shown
  <2>1. CASE op.kind = "fast"
    <3>1. [row[k] EXCEPT !.fast = op.value] \in Rows
      BY <1>1, <1>3 DEF Rows
    <3>2. /\ [row[k] EXCEPT !.fast = op.value].st = row[k].st
          /\ [row[k] EXCEPT !.fast = op.value].owner = row[k].owner
          /\ [row[k] EXCEPT !.fast = op.value].secret = row[k].secret
          /\ [row[k] EXCEPT !.fast = op.value].shown = row[k].shown
      BY <1>1 DEF Rows
    <3>. QED  BY <2>1, <3>1, <3>2, <1>1
  <2>2. CASE op.kind # "fast"
    <3>. DEFINE st == IF op.value THEN "active" ELSE "disabled"
    <3>1. st \in {"active", "disabled"}
      OBVIOUS
    <3>. HIDE DEF st
    <3>2. [row[k] EXCEPT !.st = st] \in Rows
      BY <1>1, <3>1 DEF Rows, Statuses
    <3>3. /\ [row[k] EXCEPT !.st = st].st = st
          /\ [row[k] EXCEPT !.st = st].owner = row[k].owner
          /\ [row[k] EXCEPT !.st = st].secret = row[k].secret
          /\ [row[k] EXCEPT !.st = st].shown = row[k].shown
      BY <1>1 DEF Rows
    <3>4. new = [row[k] EXCEPT !.st = st]
      BY <2>2 DEF st
    <3>. QED  BY <3>1, <3>2, <3>3, <3>4
  <2>. QED  BY <2>1, <2>2
<1>. HIDE DEF new, k
<1>5. quiet' = quiet /\ \A o \in ops' : o.key \notin quiet'
  BY <1>2 DEF Removals
<1>. QED  BY <1>1, <1>2, <1>4, <1>5, SameSecret

LEMMA DeleteStep == ASSUME KInv, NEW k \in Keys, Delete(k) PROVE KInv'
<1>. USE DEF KInv
<1>. DEFINE new == DeletedRow(k)
<1>1. /\ row[k].st # "none" /\ row' = [row EXCEPT ![k] = new]
      /\ quiet' = (IF \E op \in ops : op.key = k THEN quiet ELSE quiet \cup {k})
      /\ UNCHANGED <<secrets, ops, known, replaced, late>>
  BY DEF Delete
<1>2. new \in Rows /\ new.st = "deleted" /\ new.shown = 0 /\ new.owner = row[k].owner /\ new.secret = row[k].secret
  <2>1. row[k] \in Rows /\ 0 \in 0..MaxSecrets
    BY RowFacts, BoundsAssumption
  <2>. QED  BY <2>1 DEF DeletedRow, Rows, Statuses
<1>. HIDE DEF new
<1>3. \A op \in ops' : op.key \notin quiet'
  BY <1>1 DEF Removals
<1>. QED  BY <1>1, <1>2, <1>3, SameSecret

LEMMA BeginStep ==
  ASSUME KInv, NEW k \in Keys,
         \/ \E by \in {"admin", "owner"} : RotateBegin(k, by)
         \/ \E kind \in Kinds, value \in BOOLEAN : UpdateBegin(k, kind, value)
         \/ HandBegin(k)
  PROVE  KInv'
<1>. USE DEF KInv
<1>1. /\ UNCHANGED <<row, secrets, known, replaced, quiet>> /\ late' = {}
      /\ row[k].st \notin {"none", "deleted"}
  BY DEF RotateBegin, UpdateBegin, HandBegin
<1>2. \E kind \in Kinds, by \in {"admin", "owner"}, value \in BOOLEAN : ops' = ops \cup {Op(kind, k, by, value)}
  <2>1. "rotate" \in Kinds /\ "hand" \in Kinds
    BY DEF Kinds
  <2>. QED  BY <2>1, Zenon DEF RotateBegin, UpdateBegin, HandBegin, Begin
<1>. QED  BY <1>1, <1>2, SameRows

LEMMA ShowStep ==
  ASSUME KInv, NEW k \in Keys, Show(k) \/ \E op \in ops : op.key = k /\ HandEnd(op)
  PROVE  KInv'
<1>. USE DEF KInv
<1>1. /\ UNCHANGED <<row, secrets, replaced, quiet>> /\ late' = {} /\ ops' \subseteq ops
  BY DEF Show, HandEnd, End
<1>2. known' = known \/ (known' = [known EXCEPT ![k] = @ \cup {row[k].shown}] /\ row[k].shown # 0)
  BY DEF Show, HandEnd
<1>. QED  BY <1>1, <1>2, SameRows

\* Whose secret lets somebody in has not rotated it away.
LEMMA AuthenticateStep == ASSUME KInv, NEW k \in Keys, NEW secret, Authenticate(k, secret) PROVE KInv'
<1>. USE DEF KInv
<1>1. PICK j \in Keys : row[j].secret = secret
  BY DEF Authenticate, Matches
<1>2. secret \notin replaced
  BY <1>1 DEF Owned
<1>3. late' = {} /\ UNCHANGED <<row, secrets, ops, known, replaced, quiet>>
  BY <1>2 DEF Authenticate
<1>. QED  BY <1>3, SameRows

LEMMA KStep == KInv /\ [Next]_vars => KInv'
<1>. SUFFICES ASSUME KInv, [Next]_vars PROVE KInv'
  OBVIOUS
<1>1. ASSUME NEW k \in Keys,
             \/ Create(k) \/ Delete(k) \/ Show(k) \/ HandBegin(k)
             \/ \E owner \in Owners : LoginCreates(k, owner)
             \/ \E by \in {"admin", "owner"} : RotateBegin(k, by)
             \/ \E kind \in Kinds, value \in BOOLEAN : UpdateBegin(k, kind, value)
             \/ \E secret \in 1..MaxSecrets : Authenticate(k, secret)
      PROVE  KInv'
  BY <1>1, CreateStep, DeleteStep, ShowStep, BeginStep, AuthenticateStep
<1>2. ASSUME NEW op \in ops, RotateEnd(op) \/ UpdateEnd(op) \/ HandEnd(op) PROVE KInv'
  <2>1. op.key \in Keys
    BY OpFacts DEF KInv
  <2>. QED  BY <1>2, <2>1, RotateStep, UpdateStep, ShowStep
<1>3. CASE UNCHANGED vars
  BY <1>3 DEF vars, KInv, TypeOK, Owned, Made, Removals, QuietRemovalIsFinal, Removed, OneKeyEach
<1>. QED  BY <1>1, <1>2, <1>3 DEF Next

\* However rotations, updates, deletions and reads of a row interleave: what is
\* shown of a key is the secret that its fingerprint accepts, a secret that was
\* rotated away lets nobody in, a key that was deleted when nobody worked on it
\* stays deleted, and a user has one key (rotate_api_key, update_api_key,
\* delete_api_key, verify, codex_bundle).
THEOREM KeysAreTrueAlways == Spec => []KeysAreTrue
<1>1. KInv => KeysAreTrue
  <2>. SUFFICES ASSUME KInv PROVE KeysAreTrue
    OBVIOUS
  <2>1. ShownIsAccepted
    BY DEF KInv, Owned, ShownIsAccepted
  <2>. QED  BY <2>1 DEF KInv, Removals, ReplacedSecretsDie, KeysAreTrue
<1>. QED  BY <1>1, KInit, KStep, PTL DEF Spec

-----------------------------------------------------------------------------
(* The credentials of the accounts behind the keys (Credentials), for any  *)
(* requests, tokens and logins, and for the providers whose tokens are     *)
(* only renewed under the lock: Codex, Grok and WorkBuddy.  (Antigravity   *)
(* also renews after a 401 and writes what its project discovery has read, *)
(* both without the lock: for it TLC finds that FileIsGood fails.)         *)
(*                                                                         *)
(* What makes the double use of a token impossible is not the lock alone:  *)
(* a login replaces the file while a renewal is under way.  Origin says    *)
(* that the credential being renewed is the one on disk or one of another  *)
(* family, so that whoever loses its answer loses no other family's token. *)
CONSTANTS Requests, Google, MaxTokens, MaxLogins
VARIABLES file, status, lock, req, issued, valid, logins, lost

Renew == INSTANCE Credentials


\* Nobody but Antigravity needs a project or renews without the lock.
Locked ==
  /\ file.project
  /\ \A r \in Requests : req[r].has.project /\ req[r].pc \notin {"resend", "discover"}

\* Tokens and families are numbered in the order in which they were given out.
Numbered ==
  /\ file.token <= issued /\ file.family <= logins
  /\ \A r \in Requests : Renew!At(r, "ask") => req[r].has.token <= issued /\ req[r].has.family <= logins

\* A credential that is being renewed is on disk, or is of another token.
Origin ==
  \A r \in Requests : Renew!At(r, "ask") /\ req[r].has.token = file.token =>
                        req[r].has.family = file.family

CInv == Renew!TypeOK /\ Locked /\ Numbered /\ Origin /\ Renew!FileIsGood /\ Renew!NeverRefused

-----------------------------------------------------------------------------
\* The assumptions of the theorems: names, bounds, and no Antigravity.
Renewing == Renew!BoundAssumption /\ ~Google

Places == {"idle", "wait", "ask", "send", "resend", "discover"}

LEMMA CInit == Renewing /\ Renew!Init => CInv
<1>. SUFFICES ASSUME Renewing, Renew!Init PROVE CInv
  OBVIOUS
<1>1. 0 \in 0..MaxTokens /\ 0 \in 0..MaxLogins /\ {0} \subseteq 0..0
  BY DEF Renewing, Renew!BoundAssumption
<1>3. file.token = 0 /\ file.family = 0 /\ file.project
  BY DEF Renew!Init, Renewing
<1>4. file \in Renew!Credential
  BY <1>1 DEF Renew!Init, Renew!Credential, Renew!Tokens
<1>5. req = [r \in Requests |-> [pc |-> "idle", has |-> file]] /\ \A r \in Requests : req[r].pc = "idle"
  BY DEF Renew!Init
<1>6. Renew!TypeOK
  <2>1. req \in [Requests -> [pc : {"idle", "wait", "ask", "send", "resend", "discover"},
                             has : Renew!Credential]]
    BY <1>4, <1>5
  <2>. QED  BY <1>1, <1>4, <1>5, <2>1 DEF Renew!Init, Renew!TypeOK, Renew!Tokens
<1>. QED  BY <1>3, <1>5, <1>6 DEF Renew!Init, CInv, Locked, Numbered, Origin, Renew!FileIsGood, Renew!NeverRefused, Renew!At

\* A renewed credential is the next token of the same family.
LEMMA RenewedType ==
  ASSUME NEW c \in Renew!Credential, issued \in Nat, issued + 1 \in Renew!Tokens
  PROVE  /\ Renew!Renewed(c) \in Renew!Credential /\ Renew!Renewed(c).token = issued + 1
         /\ Renew!Renewed(c).family = c.family /\ Renew!Renewed(c).project = c.project
BY DEF Renew!Renewed, Renew!Credential

\* The tokens given out so far, and one more.
LEMMA Giving ==
  ASSUME Renewing, Renew!TypeOK, issued < MaxTokens
  PROVE  /\ issued \in Nat /\ issued + 1 \in Renew!Tokens
         /\ \A t : (valid \ {t}) \cup {issued + 1} \subseteq 0..(issued + 1)
<1>1. MaxTokens \in Nat
  BY DEF Renewing, Renew!BoundAssumption
<1>2. issued \in 0..MaxTokens /\ valid \subseteq 0..issued
  BY DEF Renew!TypeOK, Renew!Tokens
<1>3. issued \in Nat /\ issued + 1 \in 0..MaxTokens
  BY <1>1, <1>2
<1>4. \A t \in valid : t \in 0..(issued + 1)
  BY <1>2, <1>3
<1>. QED  BY <1>3, <1>4 DEF Renew!Tokens

\* A request goes on, and the others stay where they were.
LEMMA Going ==
  ASSUME Renew!TypeOK, NEW r \in Requests, NEW p \in Places, NEW c \in Renew!Credential, Renew!Goes(r, p, c)
  PROVE  /\ req' \in [Requests -> [pc : Places, has : Renew!Credential]]
         /\ req'[r].pc = p /\ req'[r].has = c
         /\ \A q \in Requests \ {r} : req'[q] = req[q]
BY DEF Renew!Goes, Renew!TypeOK, Places

\* Only the request that has the lock is renewing.
LEMMA OnlyOne ==
  ASSUME Renewing, Renew!TypeOK, NEW r \in Requests, NEW q \in Requests, Renew!At(q, "ask"),
         lock = Renew!NoOne \/ lock = r
  PROVE  lock = r /\ q = r
BY DEF Renewing, Renew!BoundAssumption, Renew!TypeOK, Renew!At

\* A request that is not renewing goes where it does not renew either, and
\* neither the file nor the provider notices.
LEMMA GoesOn ==
  ASSUME Renewing, CInv, NEW r \in Requests, NEW p \in {"idle", "wait", "send"}, NEW c \in Renew!Credential,
         Renew!Goes(r, p, c), c.project, lock' \in {lock, Renew!NoOne},
         lock' = lock \/ lock = r \/ ~\E q \in Requests : Renew!At(q, "ask"),
         status' \in {"active", "invalid"}, UNCHANGED <<file, issued, valid, logins, lost>>
  PROVE  CInv'
<1>. USE DEF CInv
<1>1. /\ req' \in [Requests -> [pc : Places, has : Renew!Credential]]
      /\ req'[r].pc = p /\ req'[r].has = c
      /\ \A q \in Requests \ {r} : req'[q] = req[q]
  BY Going DEF Places
<1>2. ASSUME NEW q \in Requests, req'[q].pc = "ask" PROVE Renew!At(q, "ask") /\ req'[q] = req[q] /\ lock' = q
  <2>1. q # r /\ Renew!At(q, "ask") /\ req'[q] = req[q]
    BY <1>1, <1>2 DEF Renew!At
  <2>2. lock = q
    BY <2>1 DEF Renew!TypeOK, Renew!At
  <2>. QED  BY <2>1, <2>2
<1>3. Renew!TypeOK'
  BY <1>1, <1>2 DEF Renew!TypeOK, Places, Renew!At
<1>4. Locked'
  BY <1>1 DEF Locked
<1>5. Numbered' /\ Origin' /\ Renew!FileIsGood' /\ Renew!NeverRefused'
  BY <1>2 DEF Numbered, Origin, Renew!FileIsGood, Renew!NeverRefused, Renew!At
<1>. QED  BY <1>3, <1>4, <1>5

\* A family whose answer is lost loses this token; the file is of another
\* token, or of this family.
LEMMA Losing ==
  ASSUME Renewing, CInv, NEW r \in Requests, Renew!At(r, "ask"), Renew!Gives(req[r].has),
         lost' = lost \cup {req[r].has.family},
         \A q \in Requests : req'[q].pc # "ask" /\ req'[q].pc \notin {"resend", "discover"}
                            /\ req'[q].has.project,
         req' \in [Requests -> [pc : Places, has : Renew!Credential]],
         lock' = Renew!NoOne, status' \in {"active", "invalid"}, UNCHANGED <<file, logins>>
  PROVE  CInv'
<1>. USE DEF CInv
<1>1. /\ issued' = issued + 1 /\ issued < MaxTokens
      /\ valid' = (valid \ {req[r].has.token}) \cup {issued + 1}
  BY DEF Renew!Gives
<1>2. Renew!TypeOK'
  <2>1. req[r].has.family \in 0..logins
    BY DEF Renew!TypeOK, Numbered, Renew!Credential
  <2>2. issued' \in Renew!Tokens /\ valid' \subseteq 0..issued'
    BY <1>1, Giving
  <2>. QED  BY <1>1, <2>1, <2>2 DEF Renew!TypeOK, Places
<1>3. Renew!FileIsGood'
  <2>. SUFFICES ASSUME file.family \notin lost' PROVE file.token \in valid'
    BY DEF Renew!FileIsGood
  <2>1. file.family \notin lost /\ file.family # req[r].has.family
    OBVIOUS
  <2>2. file.token \in valid /\ file.token # req[r].has.token
    BY <2>1 DEF Renew!FileIsGood, Origin
  <2>. QED  BY <1>1, <2>2
<1>4. Locked' /\ Origin' /\ Renew!NeverRefused'
  BY DEF Locked, Origin, Renew!NeverRefused, Renew!At
<1>5. Numbered'
  BY <1>1 DEF Numbered, Renew!At, Renew!TypeOK, Renew!Credential, Renew!Tokens
<1>. QED  BY <1>2, <1>3, <1>4, <1>5

LEMMA CRefresh ==
  ASSUME Renewing, CInv, NEW r \in Requests, Renew!Refresh(r)
  PROVE  CInv'
<1>. USE DEF CInv
<1>. DEFINE c == Renew!Renewed(req[r].has)
<1>1. /\ Renew!At(r, "ask") /\ issued < MaxTokens /\ issued' = issued + 1
      /\ valid' = (valid \ {req[r].has.token}) \cup {issued + 1}
      /\ file' = c /\ lock' = Renew!NoOne /\ UNCHANGED <<status, logins, lost>>
  BY DEF Renew!Refresh, Renew!Gives, Renew!Persisted, Renew!Unlocked
<1>2. req[r].has \in Renew!Credential /\ req[r].has.project /\ req[r].has.family <= logins
  BY <1>1 DEF Renew!TypeOK, Locked, Renew!At, Numbered
<1>3. c \in Renew!Credential /\ c.token = issued + 1 /\ c.family = req[r].has.family /\ c.project
  BY <1>1, <1>2, Giving, RenewedType
<1>4. Renew!Onward(c) = "send" /\ Renew!Goes(r, "send", c)
  BY <1>1, <1>3 DEF Renew!Refresh, Renew!Onward
<1>. HIDE DEF c
<1>5. /\ req' \in [Requests -> [pc : Places, has : Renew!Credential]]
      /\ req'[r].pc = "send" /\ req'[r].has = c
      /\ \A q \in Requests \ {r} : req'[q] = req[q]
  BY <1>3, <1>4, Going DEF Places
<1>6. lock = r
  BY <1>1 DEF Renew!TypeOK, Renew!At
<1>7. \A q \in Requests : req'[q].pc # "ask"
  BY <1>5, <1>6, OnlyOne DEF Renew!At
<1>8. Renew!TypeOK'
  <2>1. issued' \in Renew!Tokens /\ valid' \subseteq 0..issued'
    BY <1>1, Giving
  <2>. QED  BY <1>1, <1>3, <1>5, <1>7, <2>1 DEF Renew!TypeOK, Places
<1>9. Locked' /\ Origin' /\ Renew!NeverRefused' /\ Renew!FileIsGood'
  BY <1>1, <1>3, <1>5, <1>7 DEF Locked, Origin, Renew!NeverRefused, Renew!FileIsGood, Renew!At
<1>10. Numbered'
  BY <1>1, <1>2, <1>3, <1>7 DEF Numbered, Renew!At, Renew!TypeOK, Renew!Tokens
<1>. QED  BY <1>8, <1>9, <1>10

\* The lock is taken with what is on disk then, whatever was read before.
LEMMA CLock ==
  ASSUME Renewing, CInv, NEW r \in Requests, Renew!Lock(r)
  PROVE  CInv'
<1>. USE DEF CInv
<1>1. /\ Renew!At(r, "wait") /\ lock = Renew!NoOne /\ UNCHANGED <<file, status, issued, valid, logins, lost>>
      /\ \/ lock' = r /\ Renew!Goes(r, "ask", file)
         \/ lock' = lock /\ Renew!Goes(r, "send", file)
  BY DEF Renew!Lock, Renew!LockFree, Renew!ReadAgain, Renew!Onward, Locked
<1>2. \A q \in Requests : ~Renew!At(q, "ask")
  BY <1>1, OnlyOne DEF Renewing, Renew!BoundAssumption
<1>3. CASE lock' = lock /\ Renew!Goes(r, "send", file)
  <2>1. file \in Renew!Credential /\ file.project /\ status \in {"active", "invalid"}
    BY DEF Renew!TypeOK, Locked
  <2>. QED  BY <1>1, <1>2, <1>3, <2>1, GoesOn
<1>4. CASE lock' = r /\ Renew!Goes(r, "ask", file)
  <2>1. /\ req' \in [Requests -> [pc : Places, has : Renew!Credential]]
        /\ req'[r].pc = "ask" /\ req'[r].has = file
        /\ \A q \in Requests \ {r} : req'[q] = req[q]
    BY <1>4, Going DEF Places, Renew!TypeOK
  <2>2. \A q \in Requests : req'[q].pc = "ask" => q = r
    BY <1>2, <2>1 DEF Renew!At
  <2>3. Renew!TypeOK'
    BY <1>1, <1>4, <2>1, <2>2 DEF Renew!TypeOK, Places
  <2>4. Locked' /\ Numbered' /\ Origin' /\ Renew!FileIsGood' /\ Renew!NeverRefused'
    BY <1>1, <2>1, <2>2 DEF Locked, Numbered, Origin, Renew!FileIsGood, Renew!NeverRefused, Renew!At
  <2>. QED  BY <2>3, <2>4
<1>. QED  BY <1>1, <1>3, <1>4

LEMMA CLogin ==
  ASSUME Renewing, CInv, Renew!Login
  PROVE  CInv'
<1>. USE DEF CInv
<1>1. /\ issued' = issued + 1 /\ issued < MaxTokens /\ logins' = logins + 1 /\ logins < MaxLogins
      /\ valid' = valid \cup {issued + 1} /\ status' = "active" /\ UNCHANGED <<lock, req, lost>>
      /\ file' = [token |-> issued + 1, family |-> logins + 1, expired |-> FALSE, project |-> ~Google]
  BY DEF Renew!Login
<1>2. Renew!TypeOK'
  BY <1>1 DEF Renew!TypeOK, Renew!Credential, Renew!Tokens, Renewing, Renew!BoundAssumption
<1>3. Locked'
  BY <1>1 DEF Locked, Renewing
<1>4. issued \in Nat /\ logins \in Nat /\ logins + 1 \notin lost
  BY DEF Renew!TypeOK, Renew!Tokens, Renewing, Renew!BoundAssumption
<1>5. \A r \in Requests : req[r].has.token \in Nat /\ req[r].has.family \in Nat
  BY DEF Renew!TypeOK, Renew!Credential, Renew!Tokens
<1>6. Numbered' /\ Origin'
  BY <1>1, <1>4, <1>5 DEF Numbered, Origin, Renew!At
<1>7. Renew!FileIsGood' /\ Renew!NeverRefused'
  BY <1>1 DEF Renew!FileIsGood, Renew!NeverRefused, Renew!At
<1>. QED  BY <1>2, <1>3, <1>6, <1>7

LEMMA CExpire ==
  ASSUME Renewing, CInv, Renew!Expire
  PROVE  CInv'
<1>. USE DEF CInv
<1>1. /\ file' \in Renew!Credential /\ file'.token = file.token /\ file'.family = file.family
      /\ file'.project = file.project /\ UNCHANGED <<status, lock, req, issued, valid, logins, lost>>
  BY DEF Renew!Expire, Renew!TypeOK, Renew!Credential
<1>2. Renew!TypeOK'
  BY <1>1 DEF Renew!TypeOK
<1>3. Locked' /\ Numbered' /\ Origin' /\ Renew!FileIsGood' /\ Renew!NeverRefused'
  BY <1>1 DEF Locked, Numbered, Origin, Renew!FileIsGood, Renew!NeverRefused, Renew!At
<1>. QED  BY <1>2, <1>3

LEMMA CRestart ==
  ASSUME Renewing, CInv, Renew!Restart
  PROVE  CInv'
<1>. USE DEF CInv
<1>1. /\ req' = [r \in Requests |-> [pc |-> "idle", has |-> file]] /\ lock' = Renew!NoOne
      /\ UNCHANGED <<file, status, logins>>
  BY DEF Renew!Restart
<1>2. /\ req' \in [Requests -> [pc : Places, has : Renew!Credential]]
      /\ \A r \in Requests : req'[r].pc = "idle" /\ req'[r].has.project
  BY <1>1 DEF Renew!TypeOK, Places, Locked
<1>3. CASE UNCHANGED <<issued, valid, lost>>
  <2>1. Renew!TypeOK'
    BY <1>1, <1>2, <1>3 DEF Renew!TypeOK, Places
  <2>2. Locked' /\ Numbered' /\ Origin' /\ Renew!FileIsGood' /\ Renew!NeverRefused'
    BY <1>1, <1>2, <1>3 DEF Locked, Numbered, Origin, Renew!FileIsGood, Renew!NeverRefused, Renew!At
  <2>. QED  BY <2>1, <2>2
<1>4. ASSUME NEW r \in Requests, Renew!At(r, "ask"), Renew!Gives(req[r].has), lost' = lost \cup {req[r].has.family}
      PROVE CInv'
  <2>1. status' \in {"active", "invalid"}
    BY <1>1 DEF Renew!TypeOK
  <2>. QED  BY <1>1, <1>2, <1>4, <2>1, Losing
<1>. QED  BY <1>3, <1>4 DEF Renew!Restart

\* What a request does that renews nothing: it reads the file, is refused or
\* not reached, sends, or is told that it is unauthorised.
LEMMA CQuiet ==
  ASSUME Renewing, CInv, NEW r \in Requests,
         Renew!Load(r) \/ Renew!Refused(r) \/ Renew!Unreached(r) \/ Renew!Sent(r) \/ Renew!Unauthorized(r)
  PROVE  CInv'
<1>1. /\ file \in Renew!Credential /\ file.project /\ ~Google /\ status \in {"active", "invalid"}
      /\ Renew!Onward(file) = "send" /\ (Renew!At(r, "ask") => lock = r)
  BY DEF CInv, Renew!TypeOK, Locked, Renew!Onward, Renew!At, Renewing
<1>2. PICK p \in {"idle", "wait", "send"} :
         /\ Renew!Goes(r, p, file) /\ lock' \in {lock, Renew!NoOne} /\ (lock' = lock \/ lock = r)
         /\ status' \in {"active", "invalid"} /\ UNCHANGED <<file, issued, valid, logins, lost>>
  <2>1. CASE Renew!Load(r)
    BY <1>1, <2>1 DEF Renew!Load
  <2>2. CASE Renew!Refused(r)
    BY <1>1, <2>2 DEF Renew!Refused, Renew!Ends, Renew!Unlocked
  <2>3. CASE Renew!Unreached(r)
    BY <1>1, <2>3 DEF Renew!Unreached, Renew!Ends, Renew!Unlocked
  <2>4. CASE Renew!Sent(r) \/ Renew!Unauthorized(r)
    BY <1>1, <2>4 DEF Renew!Sent, Renew!Unauthorized, Renew!Ends
  <2>. QED  BY <2>1, <2>2, <2>3, <2>4
<1>. QED  BY <1>1, <1>2, GoesOn

LEMMA CLose ==
  ASSUME Renewing, CInv, NEW r \in Requests, Renew!Lose(r)
  PROVE  CInv'
<1>. USE DEF CInv
<1>1. /\ Renew!At(r, "ask") /\ Renew!Gives(req[r].has) /\ lost' = lost \cup {req[r].has.family}
      /\ lock' = Renew!NoOne /\ Renew!Goes(r, "idle", file) /\ status' \in {"active", "invalid"}
      /\ UNCHANGED <<file, logins>>
  BY DEF Renew!Lose, Renewing, Renew!Unlocked, Renew!Ends, Renew!TypeOK
<1>2. /\ req' \in [Requests -> [pc : Places, has : Renew!Credential]]
      /\ req'[r].pc = "idle" /\ req'[r].has = file
      /\ \A q \in Requests \ {r} : req'[q] = req[q]
  BY <1>1, Going DEF Places, Renew!TypeOK
<1>3. \A q \in Requests : req'[q].pc # "ask"
  <2>1. lock = r
    BY <1>1 DEF Renew!TypeOK, Renew!At
  <2>. QED  BY <1>2, <2>1, OnlyOne DEF Renew!At
<1>4. \A q \in Requests : req'[q].pc \notin {"resend", "discover"} /\ req'[q].has.project
  BY <1>2 DEF Locked
<1>. QED  BY <1>1, <1>2, <1>3, <1>4, Losing

LEMMA CStep == Renewing /\ CInv /\ [Renew!Next]_(Renew!vars) => CInv'
<1>. SUFFICES ASSUME Renewing, CInv, [Renew!Next]_(Renew!vars) PROVE CInv'
  OBVIOUS
<1>1. ASSUME NEW r \in Requests PROVE ~Renew!RenewUnlocked(r) /\ ~Renew!Discover(r)
  BY DEF CInv, Locked, Renew!RenewUnlocked, Renew!Discover, Renew!At
<1>2. CASE UNCHANGED Renew!vars
  BY <1>2 DEF Renew!vars, CInv, Renew!TypeOK, Locked, Numbered, Origin, Renew!FileIsGood, Renew!NeverRefused, Renew!At
<1>. QED
  BY <1>1, <1>2, CLock, CRefresh, CLogin, CExpire, CRestart, CQuiet, CLose DEF Renew!Next, Renew!Works

-----------------------------------------------------------------------------
\* Two requests never spend the same refresh token, none writes an older
\* credential over a newer one, and none is refused because another was
\* faster, for any number of requests, logins and lost answers: a family is
\* only lost with an answer of its own.
THEOREM CredentialsStayGood ==
  Renew!BoundAssumption /\ ~Google => (Renew!Spec => [](Renew!FileIsGood /\ Renew!NeverRefused))
<1>. SUFFICES ASSUME Renewing PROVE Renew!Spec => [](Renew!FileIsGood /\ Renew!NeverRefused)
  BY DEF Renewing
<1>1. Renew!Init => CInv
  BY CInit
<1>2. CInv /\ [Renew!Next]_(Renew!vars) => CInv'
  BY CStep
<1>3. CInv => Renew!FileIsGood /\ Renew!NeverRefused
  BY DEF CInv
<1>. QED  BY <1>1, <1>2, <1>3, PTL DEF Renew!Spec

-----------------------------------------------------------------------------
(* Signing in to upstream accounts (OauthLogin), for any logins, accounts  *)
(* and requests.                                                           *)
(*                                                                         *)
(* That one request at a time asks for a login is not inductive: it needs  *)
(* that a login somebody works on is running, and a completed one has      *)
(* written whatever a request has yet to write of it.                      *)
CONSTANTS Logins, Mode, AccountsOf, Tasks, MaxPending
VARIABLES session, client, task, account, stored

SignIn == INSTANCE OauthLogin

Signing == SignIn!ModeAssumption /\ Logins # {}

Stages == {"new", "refused", "pending", "running", "completed", "failed", "gone"}
Doing == {"idle", "ask", "store", "restore"}
Work == [pc : Doing, login : Logins, left : SUBSET SignIn!Brought]

\* A request that asks the provider or writes accounts.
Working(t) == task[t].pc \in {"ask", "store"}

\* The login a request is working on was started, and is neither free for
\* another one nor completed.
Taken == \A t \in Tasks : Working(t) => session[task[t].login] \in {"running", "failed", "gone"}

\* What a request still has to write and what it has written is what its login
\* brought.
Gathered ==
  /\ \A l \in Logins : stored[l] \subseteq AccountsOf[l]
  /\ \A t \in Tasks : task[t].pc = "store" =>
       stored[task[t].login] \cup task[t].left = AccountsOf[task[t].login]

Shapes ==
  /\ session \in [Logins -> Stages] /\ client \in [Logins -> {"none", "open", "closed"}]
  /\ task \in [Tasks -> Work] /\ stored \in [Logins -> SUBSET SignIn!Brought]
  /\ \A l \in Logins : session[l] = "new" => client[l] = "none"

SInv == Shapes /\ Taken /\ Gathered /\ SignIn!OneAtATime /\ SignIn!CompletedIsStored /\ SignIn!NoClientLeft

LEMMA BroughtByEach == \A l \in Logins : AccountsOf[l] \subseteq SignIn!Brought
BY DEF SignIn!Brought

LEMMA IdleWork ==
  ASSUME Signing
  PROVE  SignIn!Idle \in Work /\ SignIn!Idle.pc = "idle"
<1>1. (CHOOSE l \in Logins : TRUE) \in Logins
  BY DEF Signing
<1>. QED  BY <1>1 DEF SignIn!Idle, Work, Doing

LEMMA SInit == Signing /\ SignIn!Init => SInv
<1>. SUFFICES ASSUME Signing, SignIn!Init PROVE SInv
  OBVIOUS
<1>1. /\ session = [l \in Logins |-> "new"] /\ client = [l \in Logins |-> "none"]
      /\ task = [t \in Tasks |-> SignIn!Idle] /\ stored = [l \in Logins |-> {}]
  BY DEF SignIn!Init
<1>2. \A t \in Tasks : ~Working(t)
  BY <1>1, IdleWork DEF Working
<1>3. Shapes
  BY <1>1, IdleWork DEF Shapes, Stages
<1>. QED
  BY <1>1, <1>2, <1>3, IdleWork DEF SInv, Taken, Gathered, SignIn!OneAtATime, SignIn!CompletedIsStored,
                                    SignIn!NoClientLeft, Working

\* One request starts, stops, or goes on working at the same login; the others
\* stay where they were.
LEMMA TaskStep ==
  ASSUME SInv, NEW t \in Tasks, NEW p \in Doing, NEW l \in Logins, NEW left \in SUBSET SignIn!Brought,
         SignIn!Goes(t, p, l, left)
  PROVE  /\ task' \in [Tasks -> Work]
         /\ task'[t].pc = p /\ task'[t].login = l /\ task'[t].left = left
         /\ \A u \in Tasks \ {t} : task'[u] = task[u]
BY DEF SignIn!Goes, SInv, Shapes, Work

LEMMA RestStep ==
  ASSUME Signing, SInv, NEW t \in Tasks, SignIn!Rests(t)
  PROVE  /\ task' \in [Tasks -> Work] /\ task'[t].pc = "idle"
         /\ \A u \in Tasks \ {t} : task'[u] = task[u]
BY IdleWork DEF SignIn!Rests, SInv, Shapes

\* A session changes while nobody works at it, or to what whoever does expects.
LEMMA SessionStep ==
  ASSUME SInv, NEW l \in Logins,
         session' \in [Logins -> Stages], client' \in [Logins -> {"none", "open", "closed"}],
         \A m \in Logins : m # l => session'[m] = session[m] /\ client'[m] = client[m],
         session'[l] = "new" => client'[l] = "none",
         client'[l] = "open" => session'[l] \in {"pending", "running", "failed"},
         session'[l] = "completed" => stored[l] = AccountsOf[l],
         stored' = stored,
         task' \in [Tasks -> Work],
         \A t \in Tasks : task'[t].pc \in {"ask", "store"} =>
           /\ task'[t] = task[t]
           /\ task[t].login = l => session'[l] \in {"running", "failed", "gone"}
  PROVE  SInv'
<1>. USE DEF SInv
<1>1. Shapes'
  BY DEF Shapes
<1>2. Taken'
  BY DEF Taken, Working, Shapes, Work
<1>3. Gathered' /\ SignIn!OneAtATime'
  BY DEF Gathered, SignIn!OneAtATime
<1>4. SignIn!CompletedIsStored'
  BY DEF SignIn!CompletedIsStored
<1>5. SignIn!NoClientLeft'
  BY DEF SignIn!NoClientLeft, SignIn!Held
<1>. QED  BY <1>1, <1>2, <1>3, <1>4, <1>5

\* Nothing happens to the sessions, and whoever works was working.
LEMMA Elsewhere ==
  ASSUME SInv, UNCHANGED <<session, client, stored>>, task' \in [Tasks -> Work],
         \A t \in Tasks : task'[t].pc \in {"ask", "store"} => task'[t] = task[t]
  PROVE  SInv'
BY DEF SInv, Shapes, Taken, Working, Gathered, SignIn!OneAtATime, SignIn!CompletedIsStored,
       SignIn!NoClientLeft, SignIn!Held

\* A free login is taken by one request.
LEMMA STake ==
  ASSUME SInv, NEW t \in Tasks, NEW l \in Logins, session[l] = "pending",
         session' = [session EXCEPT ![l] = "running"], SignIn!Goes(t, "ask", l, {}),
         UNCHANGED <<client, stored>>
  PROVE  SInv'
<1>. USE DEF SInv
<1>1. /\ task' \in [Tasks -> Work]
      /\ task'[t].pc = "ask" /\ task'[t].login = l
      /\ \A u \in Tasks \ {t} : task'[u] = task[u]
  BY TaskStep DEF Doing
<1>2. \A u \in Tasks : Working(u) => task[u].login # l
  BY DEF Taken
<1>3. Shapes'
  BY <1>1 DEF Shapes, Stages
<1>4. Taken'
  BY <1>1, <1>2 DEF Taken, Working, Shapes, Work
<1>5. Gathered' /\ SignIn!OneAtATime'
  BY <1>1, <1>2 DEF Gathered, SignIn!OneAtATime, Working
<1>6. SignIn!CompletedIsStored' /\ SignIn!NoClientLeft'
  BY DEF SignIn!CompletedIsStored, SignIn!NoClientLeft, SignIn!Held, Shapes
<1>. QED  BY <1>3, <1>4, <1>5, <1>6

LEMMA SStart ==
  ASSUME Signing, SInv, NEW l \in Logins, SignIn!Start(l)
  PROVE  SInv'
<1>1. PICK s \in {"refused", "pending"}, c \in {"none", "open", "closed"} :
        /\ session' = [session EXCEPT ![l] = s] /\ client' = [client EXCEPT ![l] = c]
        /\ c = "open" => s = "pending"
  BY DEF SignIn!Start
<1>2. \A t \in Tasks : Working(t) => task[t].login # l
  BY DEF SInv, Taken, SignIn!Start
<1>3. task' = task /\ task' \in [Tasks -> Work] /\ stored' = stored
  BY DEF SInv, Shapes, SignIn!Start
<1>4. /\ session' \in [Logins -> Stages] /\ client' \in [Logins -> {"none", "open", "closed"}]
      /\ session'[l] = s /\ client'[l] = c
      /\ \A m \in Logins : m # l => session'[m] = session[m] /\ client'[m] = client[m]
  BY <1>1 DEF SInv, Shapes, Stages
<1>. QED  BY <1>1, <1>2, <1>3, <1>4, SessionStep DEF Working

\* A request that works at a login leaves it, with a session that is free again,
\* failed, or complete, or as it was.
LEMMA SLeave ==
  ASSUME Signing, SInv, NEW t \in Tasks, Working(t), SignIn!Rests(t),
         NEW s \in Stages, NEW c \in {"none", "open", "closed"},
         session' = [session EXCEPT ![task[t].login] = s], client' = [client EXCEPT ![task[t].login] = c],
         c = "open" => s \in {"pending", "running", "failed"}, s # "new",
         s = "completed" => stored[task[t].login] = AccountsOf[task[t].login], stored' = stored
  PROVE  SInv'
<1>1. task[t].login \in Logins
  BY DEF SInv, Shapes, Work
<1>2. /\ task' \in [Tasks -> Work] /\ task'[t].pc = "idle"
      /\ \A u \in Tasks \ {t} : task'[u] = task[u]
  BY RestStep
<1>3. \A u \in Tasks : task'[u].pc \in {"ask", "store"} =>
        task'[u] = task[u] /\ task[u].login # task[t].login
  BY <1>2 DEF SInv, SignIn!OneAtATime, Working
<1>4. /\ session' \in [Logins -> Stages] /\ client' \in [Logins -> {"none", "open", "closed"}]
      /\ session'[task[t].login] = s /\ client'[task[t].login] = c
      /\ \A m \in Logins : m # task[t].login => session'[m] = session[m] /\ client'[m] = client[m]
  BY <1>1 DEF SInv, Shapes
<1>. QED  BY <1>1, <1>2, <1>3, <1>4, SessionStep

LEMMA SAsk ==
  ASSUME Signing, SInv, NEW t \in Tasks, SignIn!NotYet(t) \/ SignIn!Refuses(t) \/ SignIn!ClientGone(t)
  PROVE  SInv'
<1>. DEFINE l == task[t].login
<1>1. Working(t) /\ SignIn!Rests(t) /\ stored' = stored /\ client' = client
  BY DEF SignIn!NotYet, SignIn!Refuses, SignIn!ClientGone, SignIn!Hears, SignIn!Asks, Working
<1>2. l \in Logins /\ session[l] \in {"running", "failed", "gone"} /\ client[l] \in {"none", "open", "closed"}
  BY <1>1 DEF SInv, Shapes, Work, Taken
<1>3. client[l] = "open" => session[l] \in {"running", "failed"}
  BY <1>2 DEF SInv, SignIn!NoClientLeft, SignIn!Held
<1>4. PICK s \in Stages : session' = [session EXCEPT ![l] = s] /\ s \in {session[l], "pending", "failed"}
                            /\ (s = "pending" => l \in SignIn!Held)
                            /\ (s = "failed" => session[l] \in {"running", "failed"})
  <2>1. session = [session EXCEPT ![l] = session[l]] /\ session[l] \in Stages
    BY <1>2 DEF SInv, Shapes
  <2>. QED  BY <1>2, <2>1 DEF SignIn!NotYet, SignIn!Refuses, SignIn!ClientGone, SignIn!Failed, Stages,
                              SignIn!Held
<1>5. client' = [client EXCEPT ![l] = client[l]]
  BY <1>1, <1>2 DEF SInv, Shapes
<1>6. client[l] = "open" => s \in {"pending", "running", "failed"}
  BY <1>3, <1>4
<1>7. s # "new" /\ s # "completed"
  BY <1>2, <1>4
<1>. QED  BY <1>1, <1>2, <1>4, <1>5, <1>6, <1>7, SLeave

LEMMA SAnswers ==
  ASSUME Signing, SInv, NEW t \in Tasks, SignIn!Answers(t)
  PROVE  SInv'
<1>. USE DEF SInv
<1>. DEFINE l == task[t].login
<1>1. l \in Logins /\ task[t].pc = "ask" /\ SignIn!Goes(t, "store", l, AccountsOf[l])
        /\ UNCHANGED <<session, client, stored>>
  BY DEF SignIn!Answers, SignIn!Hears, SignIn!Asks, Shapes, Work
<1>2. /\ task' \in [Tasks -> Work]
      /\ task'[t].pc = "store" /\ task'[t].login = l /\ task'[t].left = AccountsOf[l]
      /\ \A u \in Tasks \ {t} : task'[u] = task[u]
  BY <1>1, BroughtByEach, TaskStep DEF Doing
<1>3. Shapes' /\ SignIn!CompletedIsStored' /\ SignIn!NoClientLeft'
  BY <1>1, <1>2 DEF Shapes, SignIn!CompletedIsStored, SignIn!NoClientLeft, SignIn!Held
<1>4. Taken' /\ SignIn!OneAtATime'
  BY <1>1, <1>2 DEF Taken, SignIn!OneAtATime, Working
<1>5. Gathered'
  BY <1>1, <1>2 DEF Gathered
<1>. QED  BY <1>3, <1>4, <1>5

LEMMA SStore ==
  ASSUME Signing, SInv, NEW t \in Tasks, SignIn!Store(t)
  PROVE  SInv'
<1>. USE DEF SInv
<1>. DEFINE l == task[t].login
<1>1. PICK a \in task[t].left :
        /\ task[t].pc = "store" /\ stored' = [stored EXCEPT ![l] = @ \cup {a}]
        /\ SignIn!Goes(t, "store", l, task[t].left \ {a}) /\ UNCHANGED <<session, client>>
  BY DEF SignIn!Store
<1>2. l \in Logins /\ task[t].left \in SUBSET SignIn!Brought
  BY DEF Shapes, Work
<1>3. /\ task' \in [Tasks -> Work]
      /\ task'[t].pc = "store" /\ task'[t].login = l /\ task'[t].left = task[t].left \ {a}
      /\ \A u \in Tasks \ {t} : task'[u] = task[u]
  BY <1>1, <1>2, TaskStep DEF Doing
<1>4. stored[l] \cup task[t].left = AccountsOf[l]
  BY <1>1 DEF Gathered
<1>5. stored'[l] = stored[l] \cup {a} /\ \A m \in Logins \ {l} : stored'[m] = stored[m]
  BY <1>1, <1>2 DEF Shapes
<1>6. Shapes' /\ SignIn!NoClientLeft'
  BY <1>1, <1>2, <1>3 DEF Shapes, SignIn!NoClientLeft, SignIn!Held
<1>7. Taken' /\ SignIn!OneAtATime'
  BY <1>1, <1>3 DEF Taken, SignIn!OneAtATime, Working
<1>8. \A u \in Tasks \ {t} : task[u].pc = "store" => task[u].login # l
  BY <1>1 DEF SignIn!OneAtATime
<1>9. Gathered'
  <2>1. \A m \in Logins : stored'[m] \subseteq AccountsOf[m]
    BY <1>1, <1>4, <1>5 DEF Gathered
  <2>2. stored'[l] \cup task'[t].left = AccountsOf[l]
    BY <1>1, <1>3, <1>4, <1>5
  <2>3. ASSUME NEW u \in Tasks \ {t}, task[u].pc = "store"
        PROVE  stored'[task[u].login] \cup task[u].left = AccountsOf[task[u].login]
    BY <1>5, <1>8, <2>3 DEF Gathered, Shapes, Work
  <2>. QED  BY <1>3, <2>1, <2>2, <2>3 DEF Gathered
<1>10. SignIn!CompletedIsStored'
  BY <1>1, <1>4, <1>5 DEF SignIn!CompletedIsStored
<1>. QED  BY <1>6, <1>7, <1>9, <1>10

LEMMA SEnds ==
  ASSUME Signing, SInv, NEW t \in Tasks, SignIn!StoreFails(t) \/ SignIn!Finish(t)
  PROVE  SInv'
<1>. DEFINE l == task[t].login
<1>1. Working(t) /\ SignIn!Rests(t) /\ stored' = stored /\ client' = SignIn!Closed(l) /\ task[t].pc = "store"
  BY DEF SignIn!StoreFails, SignIn!Finish, Working
<1>2. /\ l \in Logins /\ session[l] \in {"running", "failed", "gone"} /\ session[l] \in Stages
      /\ client[l] \in {"none", "open", "closed"}
  BY <1>1 DEF SInv, Shapes, Work, Taken
<1>3. PICK c \in {"none", "closed"} : client' = [client EXCEPT ![l] = c]
  BY <1>1, <1>2 DEF SignIn!Closed, SInv, Shapes
<1>4. SignIn!Finish(t) => stored[l] = AccountsOf[l]
  BY <1>1 DEF SignIn!Finish, SignIn!All, SInv, Gathered
<1>5. PICK s \in Stages : /\ session' = [session EXCEPT ![l] = s] /\ s # "new"
                          /\ s = "completed" => stored[l] = AccountsOf[l]
  <2>1. session = [session EXCEPT ![l] = session[l]]
    BY <1>2 DEF SInv, Shapes
  <2>. QED  BY <1>2, <1>4, <2>1 DEF SignIn!StoreFails, SignIn!Finish, SignIn!Failed, Stages
<1>. QED  BY <1>1, <1>3, <1>5, SLeave

LEMMA SDrops ==
  ASSUME Signing, SInv, NEW l \in Logins, SignIn!Denied(l) \/ SignIn!Expire(l)
  PROVE  SInv'
<1>1. task' = task /\ task' \in [Tasks -> Work] /\ stored' = stored
  BY DEF SInv, Shapes, SignIn!Denied, SignIn!Expire
<1>2. CASE SignIn!Denied(l)
  <2>1. /\ session' \in [Logins -> Stages] /\ session'[l] = "failed" /\ client' = client
        /\ \A m \in Logins : m # l => session'[m] = session[m]
    BY <1>2 DEF SignIn!Denied, SInv, Shapes, Stages
  <2>. QED  BY <1>1, <2>1, SessionStep DEF SInv, Shapes
<1>3. CASE SignIn!Expire(l)
  <2>1. PICK c \in {"none", "closed"} : client' = [client EXCEPT ![l] = c]
    <3>1. client[l] \in {"none", "open", "closed"} /\ client = [client EXCEPT ![l] = client[l]]
      BY DEF SInv, Shapes
    <3>. QED  BY <1>3, <3>1 DEF SignIn!Expire, SignIn!Dropped, SignIn!Closed
  <2>2. /\ session' \in [Logins -> Stages] /\ client' \in [Logins -> {"none", "open", "closed"}]
        /\ session'[l] = "gone" /\ client'[l] = c
        /\ \A m \in Logins : m # l => session'[m] = session[m] /\ client'[m] = client[m]
    BY <1>3, <2>1 DEF SignIn!Expire, SInv, Shapes, Stages
  <2>. QED  BY <1>1, <2>2, SessionStep
<1>. QED  BY <1>2, <1>3

LEMMA SRestart ==
  ASSUME Signing, SInv, SignIn!Restart
  PROVE  SInv'
<1>. USE DEF SInv
<1>1. task' = [t \in Tasks |-> SignIn!Idle] /\ stored' = stored
  BY DEF SignIn!Restart
<1>2. task' \in [Tasks -> Work] /\ \A t \in Tasks : task'[t].pc = "idle"
  BY <1>1, IdleWork
<1>3. \A l \in Logins : client'[l] \in {"none", "closed"} /\ session'[l] \in {session[l], "gone"}
  BY DEF SignIn!Restart, Shapes
<1>4. Shapes'
  BY <1>1, <1>2 DEF SignIn!Restart, Shapes, Stages, SignIn!Held
<1>5. Taken' /\ SignIn!OneAtATime' /\ Gathered'
  BY <1>1, <1>2 DEF Taken, SignIn!OneAtATime, Gathered, Working
<1>6. SignIn!CompletedIsStored' /\ SignIn!NoClientLeft'
  BY <1>1, <1>3 DEF SignIn!CompletedIsStored, SignIn!NoClientLeft
<1>. QED  BY <1>4, <1>5, <1>6

\* What touches no session: the repeated callback, and the other ways an
\* account comes and goes.
LEMMA SAside ==
  ASSUME Signing, SInv,
         \/ \E t \in Tasks : SignIn!Restore(t) \/ SignIn!RestoreEnds(t) \/ \E l \in Logins : SignIn!CallbackAgain(t, l)
         \/ \E a \in SignIn!Brought : SignIn!Import(a) \/ SignIn!ImportLocal(a) \/ SignIn!Delete(a)
         \/ UNCHANGED SignIn!vars
  PROVE  SInv'
<1>1. CASE UNCHANGED <<session, client, task, stored>>
  BY <1>1, Elsewhere DEF SInv, Shapes
<1>2. ASSUME NEW t \in Tasks, NEW l \in Logins, SignIn!CallbackAgain(t, l) PROVE SInv'
  <2>1. stored[l] \in SUBSET SignIn!Brought
    BY DEF SInv, Shapes
  <2>. QED  BY <1>2, <2>1, TaskStep, Elsewhere DEF SignIn!CallbackAgain, Doing
<1>3. ASSUME NEW t \in Tasks, SignIn!Restore(t) PROVE SInv'
  <2>1. PICK a \in task[t].left : SignIn!Goes(t, "restore", task[t].login, task[t].left \ {a})
    BY <1>3 DEF SignIn!Restore
  <2>2. task[t].login \in Logins /\ task[t].left \ {a} \in SUBSET SignIn!Brought
    BY DEF SInv, Shapes, Work
  <2>. QED  BY <1>3, <2>1, <2>2, TaskStep, Elsewhere DEF SignIn!Restore, Doing
<1>4. ASSUME NEW t \in Tasks, SignIn!RestoreEnds(t) PROVE SInv'
  BY <1>4, RestStep, Elsewhere DEF SignIn!RestoreEnds
<1>. QED  BY <1>1, <1>2, <1>3, <1>4 DEF SignIn!Import, SignIn!ImportLocal, SignIn!Delete, SignIn!vars

LEMMA SStep == Signing /\ SInv /\ [SignIn!Next]_(SignIn!vars) => SInv'
<1>. SUFFICES ASSUME Signing, SInv, [SignIn!Next]_(SignIn!vars) PROVE SInv'
  OBVIOUS
<1>1. ASSUME NEW t \in Tasks, NEW l \in Logins, SignIn!Poll(t, l) \/ SignIn!Callback(t, l) PROVE SInv'
  BY <1>1, STake DEF SignIn!Poll, SignIn!Callback, SignIn!Free
<1>2. ASSUME NEW t \in Tasks, SignIn!Works(t) PROVE SInv'
  BY <1>2, SAsk, SAnswers, SStore, SEnds, SAside DEF SignIn!Works
<1>3. ASSUME NEW l \in Logins, SignIn!Start(l) \/ SignIn!Denied(l) \/ SignIn!Expire(l) PROVE SInv'
  BY <1>3, SStart, SDrops
<1>. QED  BY <1>1, <1>2, <1>3, SRestart, SAside DEF SignIn!Next

\* A code or a device code is exchanged by one request, whatever the browser,
\* the paste and the polls send at once; a login that is shown as completed has
\* written every account it brought; and no client of a login stays open
\* without a session that will close it (oauth_status, complete_oauth,
\* _finish_oauth_import, _prune_oauth_sessions_locked).
THEOREM LoginsAreWholeAlways ==
  SignIn!ModeAssumption /\ Logins # {} =>
    (SignIn!Spec => [](SignIn!OneAtATime /\ SignIn!CompletedIsStored /\ SignIn!NoClientLeft))
<1>. SUFFICES ASSUME Signing PROVE SignIn!Spec =>
                       [](SignIn!OneAtATime /\ SignIn!CompletedIsStored /\ SignIn!NoClientLeft)
  BY DEF Signing
<1>1. SignIn!Init => SInv
  BY SInit
<1>2. SInv /\ [SignIn!Next]_(SignIn!vars) => SInv'
  BY SStep
<1>3. SInv => SignIn!OneAtATime /\ SignIn!CompletedIsStored /\ SignIn!NoClientLeft
  BY DEF SInv
<1>. QED  BY <1>1, <1>2, <1>3, PTL DEF SignIn!Spec

-----------------------------------------------------------------------------
(* The administrators' sessions (AdminSessions), for any passwords and     *)
(* requests at once.                                                       *)
(*                                                                         *)
(* A session of an old password cannot outlive its change, although a login *)
(* that verified the old one is still under way when the password changes: *)
(* what such a request has read is the password, or it is marked early.    *)
(* The tries are bounded because every request that is let in holds one of the *)
(* lists: the one in use has room for those that hold it (Room), and a wrong *)
(* password it lacks was noted by one that holds another (Close).          *)
CONSTANTS Passwords, Initial, MaxFailures, Window, MaxAge, MaxTime, MaxSessions, MaxTries
VARIABLES clock, password, sessions, made, work, lists, wrong, tries, early

Console == INSTANCE AdminSessions

\* What a request carries; its list is one of S.
Jobs(S) == [kind : Console!Kinds, pw : Passwords, new : Passwords, read : Passwords, list : S, early : BOOLEAN]
Serving == password \in Passwords /\ \E S : work \in [Logins -> Jobs(S)]

\* What a request has read is the password, unless it changed meanwhile.
UpToDate ==
  \A l \in Logins : ~work[l].early =>
    /\ work[l].kind = "read" => work[l].read = password
    /\ work[l].kind \in {"verified", "renews"} => work[l].pw = password

PInv == Serving /\ UpToDate /\ Console!OthersAreRevoked

LEMMA IdleJob ==
  ASSUME Console!BoundsAssumption, NEW S, 1 \in S
  PROVE  Console!Idle \in Jobs(S) /\ ~Console!Idle.early /\ Console!Idle.kind = "idle"
BY DEF Console!BoundsAssumption, Console!Idle, Jobs, Console!Kinds

\* A list more, for a request that takes the one in use.
LEMMA MoreLists ==
  ASSUME Serving, NEW n
  PROVE  \E S : n \in S /\ 1 \in S /\ work \in [Logins -> Jobs(S)]
<1>1. PICK S : work \in [Logins -> Jobs(S)]
  BY DEF Serving
<1>2. Jobs(S) \subseteq Jobs(S \cup {n, 1})
  BY DEF Jobs
<1>3. work \in [Logins -> Jobs(S \cup {n, 1})]
  BY <1>1, <1>2
<1>. QED  BY <1>3

LEMMA PInit == Console!BoundsAssumption /\ Console!Init => PInv
<1>. SUFFICES ASSUME Console!BoundsAssumption, Console!Init PROVE PInv
  OBVIOUS
<1>1. work = [l \in Logins |-> Console!Idle] /\ Console!Idle \in Jobs({1}) /\ ~Console!Idle.early
        /\ Console!Idle.kind = "idle"
  BY IdleJob DEF Console!Init
<1>2. Serving
  <2>1. work \in [Logins -> Jobs({1})]
    BY <1>1
  <2>. QED  BY <2>1 DEF Serving, Console!Init, Console!BoundsAssumption
<1>. QED  BY <1>1, <1>2 DEF Console!Init, PInv, UpToDate, Console!OthersAreRevoked

\* A request goes on while the password and the sessions stay.
LEMMA Onwards ==
  ASSUME PInv, NEW S, work \in [Logins -> Jobs(S)], NEW l \in Logins, NEW w \in Jobs(S), Console!Go(l, w),
         ~w.early /\ w.kind = "read" => w.read = password,
         ~w.early /\ w.kind \in {"verified", "renews"} => w.pw = password,
         UNCHANGED <<password, sessions, early>>
  PROVE  PInv'
<1>1. work' \in [Logins -> Jobs(S)] /\ work'[l] = w /\ \A k \in Logins : k # l => work'[k] = work[k]
  BY DEF Console!Go
<1>2. Serving'
  BY <1>1 DEF PInv, Serving
<1>3. UpToDate'
  BY <1>1 DEF PInv, UpToDate
<1>. QED  BY <1>2, <1>3 DEF PInv, Console!OthersAreRevoked

LEMMA ACheck ==
  ASSUME Console!BoundsAssumption, PInv, NEW l \in Logins, NEW pw \in Passwords, NEW new \in Passwords,
         Console!Check(l, pw) \/ Console!Ask(l, pw, new)
  PROVE  PInv'
<1>1. CASE UNCHANGED <<work, password, sessions, early>>
  BY <1>1 DEF PInv, Serving, UpToDate, Console!OthersAreRevoked
<1>. DEFINE n == Len(lists)
<1>2. PICK S : n \in S /\ 1 \in S /\ work \in [Logins -> Jobs(S)]
  BY MoreLists DEF PInv
<1>3. Console!Idle \in Jobs(S) /\ ~Console!Idle.early
  BY <1>2, IdleJob
<1>. HIDE DEF n
<1>4. CASE Console!Go(l, [Console!Idle EXCEPT !.kind = "checked", !.pw = pw, !.list = n])
             /\ UNCHANGED <<password, sessions, early>>
  <2>. DEFINE w == [Console!Idle EXCEPT !.kind = "checked", !.pw = pw, !.list = n]
  <2>1. w \in Jobs(S) /\ w.kind = "checked"
    BY <1>2, <1>3 DEF Jobs, Console!Kinds
  <2>. QED  BY <1>2, <1>4, <2>1, Onwards
<1>5. CASE Console!Go(l, [Console!Idle EXCEPT !.kind = "asks", !.pw = pw, !.new = new])
             /\ UNCHANGED <<password, sessions, early>>
  <2>. DEFINE w == [Console!Idle EXCEPT !.kind = "asks", !.pw = pw, !.new = new]
  <2>1. w \in Jobs(S) /\ w.kind = "asks"
    BY <1>2, <1>3 DEF Jobs, Console!Kinds
  <2>. QED  BY <1>2, <1>5, <2>1, Onwards
<1>. QED  BY <1>1, <1>4, <1>5 DEF Console!Check, Console!Ask, n

LEMMA AReads ==
  ASSUME Console!BoundsAssumption, PInv, NEW l \in Logins,
         Console!ReadRow(l) \/ Console!Prove(l) \/ Console!Verify(l) \/ Console!Accept(l)
  PROVE  PInv'
<1>1. PICK S : 1 \in S /\ work \in [Logins -> Jobs(S)]
  BY MoreLists DEF PInv
<1>2. Console!Idle \in Jobs(S) /\ Console!Idle.kind = "idle"
  BY <1>1, IdleJob
<1>3. ASSUME NEW kind \in {"read", "proves"},
             Console!Go(l, [work[l] EXCEPT !.kind = kind, !.read = password]),
             UNCHANGED <<password, sessions, early>>
      PROVE  PInv'
  <2>. DEFINE w == [work[l] EXCEPT !.kind = kind, !.read = password]
  <2>1. w \in Jobs(S) /\ w.kind = kind /\ w.read = password
    BY <1>1 DEF Jobs, Console!Kinds, PInv, Serving
  <2>. QED  BY <1>1, <1>3, <2>1, Onwards
<1>4. ASSUME NEW kind \in {"verified", "changes"}, Console!Go(l, [work[l] EXCEPT !.kind = kind]),
             kind = "verified" => work[l].kind = "read" /\ work[l].pw = work[l].read,
             UNCHANGED <<password, sessions, early>>
      PROVE  PInv'
  <2>. DEFINE w == [work[l] EXCEPT !.kind = kind]
  <2>1. w \in Jobs(S) /\ w.early = work[l].early /\ w.kind = kind /\ w.pw = work[l].pw
    BY <1>1 DEF Jobs, Console!Kinds
  <2>2. ~w.early /\ kind = "verified" => w.pw = password
    BY <1>4, <2>1 DEF PInv, UpToDate
  <2>. HIDE DEF w
  <2>. QED  BY <1>1, <1>4, <2>1, <2>2, Onwards DEF w
<1>5. CASE Console!Go(l, Console!Idle) /\ UNCHANGED <<password, sessions, early>>
  BY <1>1, <1>2, <1>5, Onwards
<1>. QED  BY <1>3, <1>4, <1>5 DEF Console!ReadRow, Console!Prove, Console!Verify, Console!Accept

LEMMA ACreate ==
  ASSUME Console!BoundsAssumption, PInv, NEW l \in Logins, Console!Create(l)
  PROVE  PInv'
<1>1. PICK S : 1 \in S /\ work \in [Logins -> Jobs(S)]
  BY MoreLists DEF PInv
<1>2. Console!Idle \in Jobs(S) /\ Console!Idle.kind = "idle"
  BY <1>1, IdleJob
<1>3. work' \in [Logins -> Jobs(S)] /\ work'[l] = Console!Idle /\ \A k \in Logins : k # l => work'[k] = work[k]
  BY <1>1, <1>2 DEF Console!Create, Console!Go
<1>4. Serving' /\ UpToDate'
  BY <1>2, <1>3 DEF PInv, Serving, UpToDate, Console!Create
<1>5. Console!OthersAreRevoked'
  <2>. DEFINE new == Console!Session(work[l].pw)
  <2>1. new.pw = work[l].pw /\ new.id = made'
    BY DEF Console!Create, Console!Session
  <2>2. work[l].early \/ work[l].pw = password
    BY DEF PInv, UpToDate, Console!Create
  <2>3. /\ sessions' = sessions \cup {new} /\ password' = password
        /\ early' = IF work[l].early THEN early \cup {made'} ELSE early
    BY DEF Console!Create
  <2>. HIDE DEF new
  <2>. QED  BY <2>1, <2>2, <2>3 DEF PInv, Console!OthersAreRevoked
<1>. QED  BY <1>4, <1>5 DEF PInv

\* The new password makes everybody early who is under way.
LEMMA AChange ==
  ASSUME PInv, NEW l \in Logins, Console!Change(l)
  PROVE  PInv'
<1>1. PICK S : work \in [Logins -> Jobs(S)]
  BY DEF PInv, Serving
<1>2. /\ password' = work[l].new /\ sessions' = {}
      /\ work' = [k \in Logins |->
           IF k = l THEN [work[l] EXCEPT !.kind = "renews", !.pw = work[l].new]
           ELSE IF work[k].kind = "idle" THEN work[k] ELSE [work[k] EXCEPT !.early = TRUE]]
  BY DEF Console!Change, Console!Left
<1>3. work'[l] \in Jobs(S) /\ work'[l].kind = "renews" /\ work'[l].pw = password' /\ password' \in Passwords
  BY <1>1, <1>2 DEF Jobs, Console!Kinds
<1>4. \A k \in Logins : k # l => work'[k] \in Jobs(S) /\ (work'[k].early \/ work'[k].kind = "idle")
  BY <1>1, <1>2 DEF Jobs
<1>5. work' \in [Logins -> Jobs(S)]
  BY <1>2, <1>3, <1>4
<1>6. Serving' /\ UpToDate'
  BY <1>3, <1>4, <1>5 DEF Serving, UpToDate
<1>. QED  BY <1>2, <1>6 DEF PInv, Console!OthersAreRevoked

LEMMA PStep == Console!BoundsAssumption /\ PInv /\ [Console!Next]_(Console!vars) => PInv'
<1>. SUFFICES ASSUME Console!BoundsAssumption, PInv, [Console!Next]_(Console!vars) PROVE PInv'
  OBVIOUS
<1>1. CASE Console!Tick \/ UNCHANGED Console!vars
  BY <1>1 DEF Console!Tick, Console!vars, PInv, Serving, UpToDate, Console!OthersAreRevoked
<1>2. CASE Console!PruneSessions \/ \E s \in sessions : Console!Logout(s)
  BY <1>2 DEF Console!PruneSessions, Console!Logout, PInv, Serving, UpToDate, Console!OthersAreRevoked
<1>3. CASE Console!Restart
  <2>1. work' = [l \in Logins |-> Console!Idle] /\ Console!Idle \in Jobs({1}) /\ Console!Idle.kind = "idle"
    BY <1>3, IdleJob DEF Console!Restart
  <2>2. work' \in [Logins -> Jobs({1})]
    BY <2>1
  <2>. QED  BY <1>3, <2>1, <2>2 DEF Console!Restart, PInv, Serving, UpToDate, Console!OthersAreRevoked
<1>. QED  BY <1>1, <1>2, <1>3, ACheck, AReads, ACreate, AChange DEF Console!Next

\* After a change of the administrator's password every session is of the new
\* one, but for those of requests that were under way when it changed, whatever
\* they had read before it (login, create_session, change_password).
THEOREM OthersAreRevokedAlways == Console!BoundsAssumption => (Console!Spec => []Console!OthersAreRevoked)
<1>. SUFFICES ASSUME Console!BoundsAssumption PROVE Console!Spec => []Console!OthersAreRevoked
  OBVIOUS
<1>1. Console!Init => PInv
  BY PInit
<1>2. PInv /\ [Console!Next]_(Console!vars) => PInv'
  BY PStep
<1>3. PInv => Console!OthersAreRevoked
  BY DEF PInv
<1>. QED  BY <1>1, <1>2, <1>3, PTL DEF Console!Spec

-----------------------------------------------------------------------------
(* How many passwords may be tried.                                        *)

\* The first number of a set of them.
LEMMA FirstIn ==
  ASSUME NEW T, T \subseteq Nat, T # {}
  PROVE  \E n \in T : \A m \in T : n <= m
<1>1. PICK n \in T : \A m \in T : ~(<<m, n>> \in OpToRel(<, Nat))
  BY WFMin, NatLessThanWellFounded, Zenon
<1>2. \A m \in T : ~(m < n)
  BY <1>1 DEF OpToRel
<1>. QED  BY <1>2

\* How many are stale is well defined.
LEMMA StaleIs ==
  ASSUME Console!BoundsAssumption, clock \in Nat, NEW s \in Seq(Nat)
  PROVE  /\ Console!Stale(s) \in 0..Len(s)
         /\ \A x \in 1..Console!Stale(s) : s[x] <= clock - Window
<1>. DEFINE T == {n \in 0..Len(s) : n < Len(s) => ~Console!IsStale(s[n + 1])}
<1>1. T \subseteq Nat /\ Len(s) \in T
  OBVIOUS
<1>2. PICK n \in T : \A m \in T : n <= m
  BY <1>1, FirstIn
<1>3. \A x \in 1..n : Console!IsStale(s[x])
  <2>. SUFFICES ASSUME NEW x \in 1..n, ~Console!IsStale(s[x]) PROVE FALSE
    OBVIOUS
  <2>1. n \in 0..Len(s) /\ x - 1 \in 0..Len(s) /\ (x - 1) + 1 = x
    BY <1>2
  <2>2. x - 1 \in T
    BY <2>1
  <2>3. n <= x - 1
    BY <1>2, <2>2
  <2>. HIDE DEF T
  <2>. QED  BY <2>1, <2>3
<1>4. \E k \in 0..Len(s) : (\A x \in 1..k : Console!IsStale(s[x])) /\ (k < Len(s) => ~Console!IsStale(s[k + 1]))
  BY <1>2, <1>3
<1>5. Console!Stale(s) \in 0..Len(s) /\ \A x \in 1..Console!Stale(s) : Console!IsStale(s[x])
  BY <1>4 DEF Console!Stale
<1>. QED  BY <1>5 DEF Console!IsStale

\* The number of the elements of a set, as the component counts them.
Size(S) == Console!Cardinality(S)

LEMMA SizeIs ==
  ASSUME NEW S
  PROVE  Size(S) = Cardinality(S)
BY DEF Size, Console!Cardinality, Cardinality

\* How many failures of a list are later than a time.
Later(s, time) == Cardinality(Console!After(s, time))

LEMMA AfterFinite ==
  ASSUME NEW s \in Seq(Nat), NEW time \in Int
  PROVE  IsFiniteSet(Console!After(s, time)) /\ Later(s, time) \in Nat /\ Later(s, time) <= Len(s)
<1>1. Console!After(s, time) \subseteq 1..Len(s)
  BY DEF Console!After
<1>. DEFINE n == Len(s)
<1>2. n \in Nat
  OBVIOUS
<1>3. IsFiniteSet(1..n) /\ Cardinality(1..n) = n
  <2>. HIDE DEF n
  <2>1. IsFiniteSet(1..n) /\ Cardinality(1..n) = IF 1 > n THEN 0 ELSE n - 1 + 1
    BY <1>2, FS_Interval
  <2>. QED  BY <1>2, <2>1
<1>. QED  BY <1>1, <1>3, FS_Subset, FS_CardinalityType DEF Later

LEMMA NoneLater ==
  ASSUME NEW time
  PROVE  Later(<<>>, time) = 0
<1>1. Console!After(<<>>, time) = {}
  BY DEF Console!After
<1>. QED  BY <1>1, FS_EmptySet DEF Later

LEMMA OneLater ==
  ASSUME NEW s \in Seq(Nat), NEW time \in Int, NEW now \in Nat
  PROVE  Append(s, now) \in Seq(Nat)
         /\ Later(Append(s, now), time) = IF now > time THEN Later(s, time) + 1 ELSE Later(s, time)
<1>. DEFINE t == Append(s, now)
            n == Len(s) + 1
<1>1. t \in Seq(Nat) /\ Len(t) = n /\ t[n] = now /\ \A x \in 1..Len(s) : t[x] = s[x]
  OBVIOUS
<1>2. DOMAIN t = DOMAIN s \cup {n} /\ n \notin DOMAIN s /\ DOMAIN s = 1..Len(s)
  BY <1>1
<1>. HIDE DEF t, n
<1>3. n \notin Console!After(s, time)
  BY <1>2 DEF Console!After
<1>4. CASE now > time
  <2>1. Console!After(t, time) = Console!After(s, time) \cup {n}
    BY <1>1, <1>2, <1>4 DEF Console!After
  <2>. QED  BY <1>1, <1>3, <1>4, <2>1, AfterFinite, FS_AddElement DEF Later, t
<1>5. CASE ~(now > time)
  <2>1. Console!After(t, time) = Console!After(s, time)
    BY <1>1, <1>2, <1>5 DEF Console!After
  <2>. QED  BY <1>1, <1>5, <2>1 DEF Later, t
<1>. QED  BY <1>4, <1>5

\* Pruning takes nothing that is still in the window.
LEMMA PrunedLater ==
  ASSUME Console!BoundsAssumption, clock \in Nat, NEW s \in Seq(Nat), NEW time \in Int,
         clock - Window <= time
  PROVE  Console!Pruned(s) \in Seq(Nat) /\ Later(Console!Pruned(s), time) = Later(s, time)
<1>. DEFINE n == Console!Stale(s)
            t == Console!Pruned(s)
<1>1. n \in 0..Len(s) /\ \A x \in 1..n : s[x] <= clock - Window
  BY StaleIs
<1>2. t \in Seq(Nat) /\ Len(t) = Len(s) - n /\ \A x \in 1..Len(t) : t[x] = s[x + n]
  <2>1. t = SubSeq(s, n + 1, Len(s))
    BY DEF Console!Pruned
  <2>. HIDE DEF n, t
  <2>. QED  BY <1>1, <2>1
<1>. HIDE DEF n, t
<1>3. Window \in Nat
  BY DEF Console!BoundsAssumption
<1>. DEFINE f == [x \in Console!After(t, time) |-> x + n]
<1>4. \A x \in Console!After(t, time) : x \in 1..Len(t) /\ x + n \in Console!After(s, time)
  <2>. SUFFICES ASSUME NEW x \in Console!After(t, time) PROVE x \in 1..Len(t) /\ x + n \in Console!After(s, time)
    OBVIOUS
  <2>1. x \in 1..Len(t) /\ t[x] > time
    BY <1>2 DEF Console!After
  <2>2. x + n \in 1..Len(s) /\ s[x + n] = t[x]
    BY <1>1, <1>2, <2>1
  <2>. QED  BY <2>1, <2>2 DEF Console!After
<1>5. \A y \in Console!After(s, time) : y - n \in Console!After(t, time) /\ (y - n) + n = y
  <2>. SUFFICES ASSUME NEW y \in Console!After(s, time) PROVE y - n \in Console!After(t, time) /\ (y - n) + n = y
    OBVIOUS
  <2>1. y \in 1..Len(s) /\ s[y] > time /\ s[y] \in Nat
    BY DEF Console!After
  <2>2. y \notin 1..n
    BY <1>1, <1>3, <2>1
  <2>3. y - n \in 1..Len(t) /\ (y - n) + n = y
    BY <1>1, <1>2, <2>1, <2>2
  <2>4. t[y - n] = s[y]
    BY <1>2, <2>3
  <2>. QED  BY <1>2, <2>1, <2>3, <2>4 DEF Console!After
<1>6. f \in Bijection(Console!After(t, time), Console!After(s, time))
  <2>1. f \in [Console!After(t, time) -> Console!After(s, time)]
    BY <1>4
  <2>2. \A x, y \in Console!After(t, time) : f[x] = f[y] => x = y
    BY <1>1, <1>4
  <2>3. \A y \in Console!After(s, time) : \E x \in Console!After(t, time) : f[x] = y
    BY <1>5
  <2>. QED  BY <2>1, <2>2, <2>3 DEF Bijection, Injection, Surjection, IsInjective
<1>7. Cardinality(Console!After(s, time)) = Cardinality(Console!After(t, time))
  BY <1>2, <1>6, AfterFinite, FS_Bijection DEF ExistsBijection
<1>. QED  BY <1>2, <1>7 DEF Later, t

\* The list in use, the requests that hold it and those that hold one that was
\* thrown away.
Latest == lists[Len(lists)]
Flying(l) == work[l].kind \in {"checked", "read"}
InUse == {l \in Logins : Flying(l) /\ work[l].list = Len(lists)}
Behind == {l \in Logins : Flying(l) /\ work[l].list # Len(lists)}

\* What is on the list of a window and who is still to write on it are at most
\* the limit and what may be under way beside one that was let in.
Room(list, users, now) == Later(list, now - Window) + Size(users) <= MaxFailures + Size(Logins) - 1

\* And a wrong password that is not on the list was noted on one that was
\* thrown away, by a request that was not the good login that threw it.
Close(all, list, losers, now) ==
  \A time \in Int : now - Window <= time =>
    Later(all, time) + Size(losers) <= Later(list, time) + Size(Logins) - 1

Carried ==
  /\ clock \in Nat /\ lists \in Seq(Seq(Nat)) /\ Len(lists) >= 1 /\ wrong \in Seq(Nat)
  /\ password \in Passwords /\ work \in [Logins -> Jobs(1..Len(lists))]
TInv == Carried /\ Room(Latest, InUse, clock) /\ Close(wrong, Latest, Behind, clock)

LEMMA SizeOf ==
  ASSUME Console!BoundsAssumption, NEW S, S \subseteq Logins
  PROVE  /\ Size(S) \in Nat /\ Size(Logins) \in Nat /\ Size(S) <= Size(Logins) /\ Size(Logins) >= 1
         /\ \A l \in Logins : S \subseteq Logins \ {l} => Size(S) <= Size(Logins) - 1
         /\ \A l \in S : Size(S \ {l}) = Size(S) - 1
<1>0. IsFiniteSet(Logins) /\ Logins # {}
  BY DEF Console!BoundsAssumption, Console!IsFiniteSet, IsFiniteSet
<1>1. /\ IsFiniteSet(Logins) /\ IsFiniteSet(S) /\ Logins # {}
      /\ Cardinality(S) \in Nat /\ Cardinality(Logins) \in Nat /\ Cardinality(S) <= Cardinality(Logins)
  BY <1>0, FS_Subset, FS_CardinalityType
<1>2. Cardinality(Logins) # 0
  BY <1>1, FS_EmptySet
<1>3. ASSUME NEW l \in Logins, S \subseteq Logins \ {l}
      PROVE  Cardinality(S) <= Cardinality(Logins) - 1
  <2>1. IsFiniteSet(Logins \ {l}) /\ Cardinality(Logins \ {l}) = Cardinality(Logins) - 1
    BY <1>1, FS_RemoveElement
  <2>. QED  BY <1>3, <2>1, FS_Subset
<1>4. \A l \in S : Cardinality(S \ {l}) = Cardinality(S) - 1
  BY <1>1, FS_RemoveElement
<1>. QED  BY <1>1, <1>2, <1>3, <1>4, SizeIs

LEMMA NoneSize == Size({}) = 0
BY FS_EmptySet, SizeIs

LEMMA LaterTypes ==
  ASSUME TInv, Console!BoundsAssumption
  PROVE  /\ Latest \in Seq(Nat) /\ clock \in Nat /\ Window \in Nat /\ MaxFailures \in Nat
         /\ InUse \subseteq Logins /\ Behind \subseteq Logins
         /\ \A time \in Int : Later(Latest, time) \in Nat /\ Later(wrong, time) \in Nat
<1>1. Latest \in Seq(Nat) /\ wrong \in Seq(Nat)
  BY DEF TInv, Carried, Latest
<1>. QED  BY <1>1, AfterFinite DEF TInv, Carried, Console!BoundsAssumption, InUse, Behind

\* Nothing is written: what is counted grows no more.
LEMMA Quiet ==
  ASSUME Console!BoundsAssumption, TInv, clock' \in Nat, clock' >= clock, UNCHANGED <<lists, wrong>>,
         Carried', InUse' = InUse, Behind' = Behind
  PROVE  TInv'
<1>1. Latest' = Latest
  BY DEF Latest
<1>. DEFINE c == clock - Window
            d == clock' - Window
<1>b. clock \in Nat /\ Window \in Nat /\ Latest \in Seq(Nat) /\ MaxFailures \in Nat
  BY LaterTypes
<1>d. clock' \in Nat /\ clock' >= clock
  OBVIOUS
<1>c. c \in Int /\ d \in Int /\ c <= d
  <2>1. \A i, j, k \in Nat : j >= i => i - k \in Int /\ j - k \in Int /\ i - k <= j - k
    OBVIOUS
  <2>. QED  BY <1>b, <1>d, <2>1
<1>2. Later(Latest, clock' - Window) <= Later(Latest, clock - Window)
  <2>1. Console!After(Latest, clock' - Window) \subseteq Console!After(Latest, clock - Window)
    <3>1. \A x \in DOMAIN Latest : Latest[x] \in Nat
      BY <1>b
    <3>. HIDE DEF c, d
    <3>2. Console!After(Latest, d) \subseteq Console!After(Latest, c)
      BY <1>c, <3>1 DEF Console!After
    <3>. QED  BY <3>2 DEF c, d
  <2>2. IsFiniteSet(Console!After(Latest, clock - Window))
    BY <1>b, <1>c, AfterFinite
  <2>. QED  BY <2>1, <2>2, FS_Subset DEF Later
<1>3. Room(Latest, InUse, clock')
  <2>1. Size(InUse) \in Nat /\ Size(Logins) \in Nat
    BY SizeOf, LaterTypes
  <2>2. Later(Latest, d) \in Nat /\ Later(Latest, c) \in Nat
    BY <1>b, <1>c, AfterFinite
  <2>3. Later(Latest, c) + Size(InUse) <= MaxFailures + Size(Logins) - 1
    BY DEF TInv, Room
  <2>. HIDE DEF c, d
  <2>4. Later(Latest, d) + Size(InUse) <= MaxFailures + Size(Logins) - 1
    BY <1>2, <1>b, <1>c, <2>1, <2>2, <2>3 DEF c, d
  <2>. QED  BY <2>4 DEF d, Room
<1>4. Close(wrong, Latest, Behind, clock')
  <2>. SUFFICES ASSUME NEW time \in Int, clock' - Window <= time
                PROVE  Later(wrong, time) + Size(Behind) <= Later(Latest, time) + Size(Logins) - 1
    BY DEF Close
  <2>1. clock - Window <= time
    BY LaterTypes
  <2>. QED  BY <2>1 DEF TInv, Close
<1>. QED  BY <1>1, <1>3, <1>4 DEF TInv

LEMMA TInit == Console!BoundsAssumption /\ Console!Init => TInv
<1>. SUFFICES ASSUME Console!BoundsAssumption, Console!Init PROVE TInv
  OBVIOUS
<1>1. work = [l \in Logins |-> Console!Idle] /\ Console!Idle \in Jobs(1..1) /\ Console!Idle.kind = "idle"
  BY IdleJob DEF Console!Init
<1>2. lists = << <<>> >> /\ Len(lists) = 1 /\ lists \in Seq(Seq(Nat)) /\ Latest = <<>> /\ wrong = <<>>
        /\ clock = 0
  BY DEF Console!Init, Latest
<1>3. Carried
  BY <1>1, <1>2 DEF Carried, Console!Init, Console!BoundsAssumption
<1>4. InUse = {} /\ Behind = {}
  BY <1>1 DEF InUse, Behind, Flying
<1>5. Size(Logins) \in Nat /\ Size(Logins) >= 1 /\ MaxFailures \in Nat
  BY SizeOf DEF Console!BoundsAssumption
<1>6. Room(<<>>, {}, clock) /\ Close(<<>>, <<>>, {}, clock)
  BY <1>5, NoneLater, NoneSize DEF Room, Close
<1>. QED  BY <1>2, <1>3, <1>4, <1>6 DEF TInv

\* A request that is let in takes the list in use, of which the count was read.
LEMMA TCheck ==
  ASSUME Console!BoundsAssumption, TInv, NEW l \in Logins, NEW pw \in Passwords, Console!Check(l, pw)
  PROVE  TInv'
<1>. DEFINE n == Len(lists)
            p == Console!Pruned(Latest)
<1>1. /\ n \in Nat /\ n >= 1 /\ Latest = Console!Last(lists) /\ lists \in Seq(Seq(Nat)) /\ Latest \in Seq(Nat)
      /\ clock \in Nat /\ Window \in Nat /\ MaxFailures \in Nat
  <2>1. n \in Nat /\ n >= 1 /\ lists \in Seq(Seq(Nat))
    BY DEF TInv, Carried
  <2>2. Latest = Console!Last(lists)
    BY DEF Latest, Console!Last
  <2>. QED  BY <2>1, <2>2, LaterTypes
<1>2. p \in Seq(Nat) /\ \A time \in Int : clock - Window <= time => Later(p, time) = Later(Latest, time)
  <2>1. clock - Window \in Int /\ clock - Window <= clock - Window
    BY <1>1
  <2>. QED  BY <1>1, <2>1, PrunedLater
<1>3. lists' = [lists EXCEPT ![n] = p]
  BY DEF Console!Check, Latest
<1>. HIDE DEF p
<1>4. lists' \in Seq(Seq(Nat)) /\ Len(lists') = n /\ Latest' = p
  BY <1>1, <1>2, <1>3 DEF Latest
<1>5. UNCHANGED <<clock, wrong, password>>
  BY DEF Console!Check
<1>6. Room(p, InUse, clock) /\ Close(wrong, p, Behind, clock)
  <2>1. clock - Window \in Int
    BY <1>1
  <2>. QED  BY <1>2, <2>1 DEF TInv, Room, Close
<1>7. CASE UNCHANGED work
  <2>1. InUse' = InUse /\ Behind' = Behind /\ Carried'
    BY <1>4, <1>5, <1>7 DEF InUse, Behind, Flying, TInv, Carried
  <2>. QED  BY <1>4, <1>5, <1>6, <2>1 DEF TInv
<1>8. CASE ~Console!Full(Console!Last(lists))
             /\ Console!Go(l, [Console!Idle EXCEPT !.kind = "checked", !.pw = pw, !.list = n])
  <2>. DEFINE w == [Console!Idle EXCEPT !.kind = "checked", !.pw = pw, !.list = n]
  <2>1. w \in Jobs(1..n) /\ w.kind = "checked" /\ w.list = n
    <3>1. Console!Idle \in Jobs(1..n) /\ n \in 1..n
      BY <1>1, IdleJob
    <3>. HIDE DEF n
    <3>. QED  BY <3>1 DEF Jobs, Console!Kinds
  <2>2. work' = [work EXCEPT ![l] = w] /\ work[l].kind = "idle" /\ work \in [Logins -> Jobs(1..n)]
    BY <1>8 DEF Console!Go, Console!Check, TInv, Carried
  <2>. HIDE DEF w
  <2>3. work' \in [Logins -> Jobs(1..n)] /\ work'[l] = w /\ \A k \in Logins : k # l => work'[k] = work[k]
    BY <2>1, <2>2
  <2>4. Behind' = Behind
    BY <1>4, <2>1, <2>2, <2>3 DEF Behind, Flying
  <2>5. Carried'
    BY <1>4, <1>5, <2>3 DEF TInv, Carried
  <2>6. Room(p, InUse', clock)
    <3>1. Len(p) < MaxFailures
      <4>1. Len(p) \in Nat
        BY <1>2
      <4>2. ~(Len(p) >= MaxFailures)
        BY <1>1, <1>8 DEF Console!Full, p
      <4>. QED  BY <1>1, <4>1, <4>2
    <3>2. Later(p, clock - Window) \in Nat /\ Later(p, clock - Window) <= Len(p) /\ Len(p) \in Nat
      <4>1. clock - Window \in Int
        BY <1>1
      <4>. QED  BY <1>2, <4>1, AfterFinite
    <3>3. Size(InUse') \in Nat /\ Size(Logins) \in Nat /\ Size(InUse') <= Size(Logins)
      <4>1. InUse' \subseteq Logins
        BY DEF InUse
      <4>. QED  BY <4>1, SizeOf
    <3>. QED  BY <1>1, <3>1, <3>2, <3>3 DEF Room
  <2>. QED  BY <1>4, <1>5, <1>6, <2>4, <2>5, <2>6 DEF TInv
<1>. QED  BY <1>7, <1>8 DEF Console!Check

\* A good login starts a list; it is not among those that hold another one.
LEMMA TGood ==
  ASSUME Console!BoundsAssumption, TInv, NEW l \in Logins, Console!Verify(l), work[l].pw = work[l].read
  PROVE  TInv'
<1>. DEFINE n == Len(lists)
            w == [work[l] EXCEPT !.kind = "verified"]
<1>1. /\ lists' = Append(lists, <<>>) /\ wrong' = <<>> /\ UNCHANGED <<clock, password>>
      /\ work' = [work EXCEPT ![l] = w]
  BY DEF Console!Verify, Console!Go
<1>2. n \in Nat /\ n >= 1 /\ lists \in Seq(Seq(Nat)) /\ clock \in Nat /\ work \in [Logins -> Jobs(1..n)]
        /\ password \in Passwords
  BY DEF TInv, Carried
<1>3. lists' \in Seq(Seq(Nat)) /\ Len(lists') = n + 1 /\ Latest' = <<>>
  BY <1>1, <1>2 DEF Latest
<1>4. Jobs(1..n) \subseteq Jobs(1..(n + 1))
  <2>1. 1..n \subseteq 1..(n + 1)
    BY <1>2
  <2>. QED  BY <2>1 DEF Jobs
<1>5. w \in Jobs(1..n) /\ w.kind = "verified"
  BY <1>2 DEF Jobs, Console!Kinds
<1>. HIDE DEF w, n
<1>6. work' \in [Logins -> Jobs(1..n)] /\ work'[l] = w
  BY <1>1, <1>2, <1>5
<1>7. \A k \in Logins : work'[k].list \in 1..n
  BY <1>6 DEF Jobs
<1>8. InUse' = {} /\ Behind' \subseteq Logins \ {l}
  BY <1>2, <1>3, <1>5, <1>6, <1>7 DEF InUse, Behind, Flying
<1>9. Carried'
  BY <1>1, <1>2, <1>3, <1>4, <1>6 DEF Carried
<1>10. /\ Size(Behind') \in Nat /\ Size(Logins) \in Nat /\ Size(Behind') <= Size(Logins) - 1
       /\ Size(Logins) >= 1 /\ MaxFailures \in Nat
  BY <1>8, SizeOf DEF Console!BoundsAssumption
<1>11. Room(<<>>, {}, clock) /\ Close(<<>>, <<>>, Behind', clock)
  BY <1>10, NoneLater, NoneSize DEF Room, Close
<1>. QED  BY <1>1, <1>3, <1>8, <1>9, <1>11 DEF TInv

\* A wrong password is noted on the list its request has taken.
LEMMA TBad ==
  ASSUME Console!BoundsAssumption, TInv, NEW l \in Logins, Console!Verify(l), work[l].pw # work[l].read
  PROVE  TInv'
<1>. DEFINE n == Len(lists)
            i == work[l].list
            kept == Console!Pruned(wrong)
            all == Append(kept, clock)
            list == Append(lists[i], clock)
<1>1. /\ work' = [work EXCEPT ![l] = Console!Idle] /\ lists' = [lists EXCEPT ![i] = list] /\ wrong' = all
      /\ UNCHANGED <<clock, password>> /\ work[l].kind = "read"
  BY DEF Console!Verify, Console!Go, Console!Noted
<1>2. /\ n \in Nat /\ n >= 1 /\ lists \in Seq(Seq(Nat)) /\ wrong \in Seq(Nat) /\ clock \in Nat
      /\ work \in [Logins -> Jobs(1..n)] /\ password \in Passwords
  BY DEF TInv, Carried
<1>3. Window \in Nat /\ MaxFailures \in Nat /\ i \in 1..n /\ lists[i] \in Seq(Nat) /\ clock - Window \in Int
  <2>1. work[l] \in Jobs(1..n)
    BY <1>2
  <2>2. i \in 1..n
    BY <2>1 DEF Jobs
  <2>3. Window \in Nat /\ MaxFailures \in Nat
    BY DEF Console!BoundsAssumption
  <2>. QED  BY <1>2, <2>2, <2>3
<1>4. kept \in Seq(Nat) /\ \A time \in Int : clock - Window <= time => Later(kept, time) = Later(wrong, time)
  <2>1. clock - Window <= clock - Window
    BY <1>3
  <2>. QED  BY <1>2, <1>3, <2>1, PrunedLater
<1>5. /\ all \in Seq(Nat) /\ list \in Seq(Nat)
      /\ \A time \in Int : /\ Later(all, time) = IF clock > time THEN Later(kept, time) + 1 ELSE Later(kept, time)
                           /\ Later(list, time) = IF clock > time
                                THEN Later(lists[i], time) + 1 ELSE Later(lists[i], time)
  <2>. HIDE DEF kept
  <2>1. all \in Seq(Nat) /\ list \in Seq(Nat)
    BY <1>2, <1>3, <1>4
  <2>. QED  BY <1>2, <1>3, <1>4, <2>1, OneLater
<1>6. Console!Idle \in Jobs(1..n) /\ Console!Idle.kind = "idle"
  BY <1>2, IdleJob
<1>. HIDE DEF n, i, kept, all, list
<1>7. work' \in [Logins -> Jobs(1..n)] /\ work'[l] = Console!Idle /\ \A k \in Logins : k # l => work'[k] = work[k]
  BY <1>1, <1>2, <1>6
<1>8. lists' \in Seq(Seq(Nat)) /\ Len(lists') = n
  BY <1>1, <1>2, <1>3, <1>5 DEF n
<1>9. Carried'
  BY <1>1, <1>2, <1>5, <1>7, <1>8 DEF Carried
<1>10. Latest \in Seq(Nat) /\ \A time \in Int : Later(Latest, time) \in Nat /\ Later(wrong, time) \in Nat
  BY LaterTypes
<1>11. /\ InUse' = InUse \ {l} /\ Behind' = Behind \ {l} /\ Flying(l)
       /\ InUse \subseteq Logins /\ Behind \subseteq Logins
  BY <1>1, <1>6, <1>7, <1>8 DEF InUse, Behind, Flying, n
<1>12. /\ Size(InUse) \in Nat /\ Size(Behind) \in Nat /\ Size(Logins) \in Nat
       /\ l \in InUse => Size(InUse \ {l}) = Size(InUse) - 1
       /\ l \in Behind => Size(Behind \ {l}) = Size(Behind) - 1
  BY <1>11, SizeOf
<1>13. Later(Latest, clock - Window) + Size(InUse) <= MaxFailures + Size(Logins) - 1
  BY DEF TInv, Room
<1>14. \A time \in Int : clock - Window <= time =>
         Later(wrong, time) + Size(Behind) <= Later(Latest, time) + Size(Logins) - 1
  BY DEF TInv, Close
<1>15. CASE i = n
  <2>1. Latest' = list /\ lists[i] = Latest
    BY <1>1, <1>2, <1>8, <1>15 DEF Latest, n
  <2>2. l \in InUse /\ Behind \ {l} = Behind
    BY <1>11, <1>15 DEF InUse, Behind, i, n
  <2>3. Room(list, InUse \ {l}, clock)
    <3>1. Later(list, clock - Window) <= Later(Latest, clock - Window) + 1 /\ Later(list, clock - Window) \in Nat
      <4>. DEFINE c == clock - Window
      <4>1. c \in Int
        BY <1>3
      <4>. HIDE DEF c
      <4>2. Later(list, c) = IF clock > c THEN Later(Latest, c) + 1 ELSE Later(Latest, c)
        BY <1>5, <2>1, <4>1
      <4>3. Later(Latest, c) \in Nat
        BY <1>10, <4>1
      <4>4. Later(list, c) <= Later(Latest, c) + 1 /\ Later(list, c) \in Nat
        BY <4>2, <4>3
      <4>. QED  BY <4>4 DEF c
    <3>2. Later(Latest, clock - Window) \in Nat
      BY <1>3, <1>10
    <3>3. Size(InUse \ {l}) = Size(InUse) - 1 /\ Size(InUse) \in Nat /\ Size(Logins) \in Nat
      BY <1>12, <2>2
    <3>. QED  BY <1>3, <1>13, <3>1, <3>2, <3>3 DEF Room
  <2>4. Close(all, list, Behind, clock)
    <3>. SUFFICES ASSUME NEW time \in Int, clock - Window <= time
                  PROVE  Later(all, time) + Size(Behind) <= Later(list, time) + Size(Logins) - 1
      BY DEF Close
    <3>1. Later(wrong, time) + Size(Behind) <= Later(Latest, time) + Size(Logins) - 1
      BY <1>14
    <3>2. CASE clock > time
      <4>1. Later(all, time) = Later(wrong, time) + 1 /\ Later(list, time) = Later(Latest, time) + 1
        BY <1>4, <1>5, <2>1, <3>2
      <4>2. /\ Later(Latest, time) \in Nat /\ Later(wrong, time) \in Nat
            /\ Size(Behind) \in Nat /\ Size(Logins) \in Nat
        BY <1>10, <1>12
      <4>. QED  BY <3>1, <4>1, <4>2
    <3>3. CASE ~(clock > time)
      <4>1. Later(all, time) = Later(wrong, time) /\ Later(list, time) = Later(Latest, time)
        BY <1>4, <1>5, <2>1, <3>3
      <4>. QED  BY <3>1, <4>1
    <3>. QED  BY <3>2, <3>3
  <2>. QED  BY <1>1, <1>9, <1>11, <2>1, <2>2, <2>3, <2>4 DEF TInv
<1>16. CASE i # n
  <2>1. Latest' = Latest
    BY <1>1, <1>2, <1>8, <1>16 DEF Latest, n
  <2>2. l \in Behind /\ InUse \ {l} = InUse
    BY <1>11, <1>16 DEF InUse, Behind, i, n
  <2>3. Room(Latest, InUse, clock)
    BY DEF TInv
  <2>4. Close(all, Latest, Behind \ {l}, clock)
    <3>. SUFFICES ASSUME NEW time \in Int, clock - Window <= time
                  PROVE  Later(all, time) + Size(Behind \ {l}) <= Later(Latest, time) + Size(Logins) - 1
      BY DEF Close
    <3>1. Later(wrong, time) + Size(Behind) <= Later(Latest, time) + Size(Logins) - 1
      BY <1>14
    <3>2. Later(all, time) \in Nat /\ Later(all, time) <= Later(wrong, time) + 1
      <4>1. Later(all, time) = IF clock > time THEN Later(kept, time) + 1 ELSE Later(kept, time)
        BY <1>5
      <4>2. Later(kept, time) = Later(wrong, time) /\ Later(wrong, time) \in Nat
        BY <1>4, <1>10
      <4>. QED  BY <4>1, <4>2
    <3>3. Later(Latest, time) \in Nat /\ Size(Behind \ {l}) = Size(Behind) - 1 /\ Size(Behind) \in Nat
            /\ Size(Logins) \in Nat
      BY <1>10, <1>12, <2>2
    <3>4. Later(wrong, time) \in Nat
      BY <1>10
    <3>. QED  BY <3>1, <3>2, <3>3, <3>4
  <2>. QED  BY <1>1, <1>9, <1>11, <2>1, <2>2, <2>3, <2>4 DEF TInv
<1>. QED  BY <1>15, <1>16

\* A request goes on that is not of these.
LEMMA TOther ==
  ASSUME Console!BoundsAssumption, TInv, NEW l \in Logins,
         \/ Console!ReadRow(l) \/ Console!Create(l) \/ Console!Prove(l) \/ Console!Accept(l) \/ Console!Change(l)
         \/ \E pw \in Passwords : \E new \in Passwords : Console!Ask(l, pw, new)
  PROVE  TInv'
<1>. DEFINE n == Len(lists)
<1>1. /\ n \in Nat /\ n >= 1 /\ lists \in Seq(Seq(Nat)) /\ wrong \in Seq(Nat) /\ clock \in Nat
      /\ work \in [Logins -> Jobs(1..n)] /\ password \in Passwords
  BY DEF TInv, Carried
<1>2. Console!Idle \in Jobs(1..n) /\ Console!Idle.kind = "idle"
  BY <1>1, IdleJob
<1>3. UNCHANGED <<clock, lists, wrong>>
  BY DEF Console!ReadRow, Console!Create, Console!Prove, Console!Accept, Console!Change, Console!Ask
<1>. HIDE DEF n
<1>4. /\ work' \in [Logins -> Jobs(1..n)] /\ password' \in Passwords
      /\ \A k \in Logins : (Flying(k)' <=> Flying(k)) /\ (Flying(k) => work'[k].list = work[k].list)
  <2>1. ASSUME NEW w \in Jobs(1..n), Console!Go(l, w), UNCHANGED password,
               (w.kind \in {"checked", "read"}) <=> Flying(l), Flying(l) => w.list = work[l].list
        PROVE  <1>4
    <3>1. work' \in [Logins -> Jobs(1..n)] /\ work'[l] = w /\ \A k \in Logins : k # l => work'[k] = work[k]
      BY <1>1, <2>1 DEF Console!Go
    <3>. QED  BY <1>1, <2>1, <3>1 DEF Flying
  <2>2. ASSUME NEW kind \in Console!Kinds, Console!Go(l, [work[l] EXCEPT !.kind = kind, !.read = password]),
               UNCHANGED password,
               (kind \in {"checked", "read"}) <=> Flying(l)
        PROVE  <1>4
    <3>. DEFINE w == [work[l] EXCEPT !.kind = kind, !.read = password]
    <3>1. w \in Jobs(1..n) /\ w.kind = kind /\ w.list = work[l].list
      BY <1>1 DEF Jobs
    <3>. HIDE DEF w
    <3>. QED  BY <2>1, <2>2, <3>1 DEF w
  <2>3. CASE Console!ReadRow(l) \/ Console!Prove(l)
    BY <2>2, <2>3 DEF Console!ReadRow, Console!Prove, Flying, Console!Kinds
  <2>4. CASE Console!Create(l)
    BY <1>2, <2>1, <2>4 DEF Console!Create, Flying
  <2>5. CASE Console!Accept(l)
    <3>1. CASE Console!Go(l, Console!Idle)
      BY <1>2, <2>1, <2>5, <3>1 DEF Console!Accept, Flying
    <3>2. CASE Console!Go(l, [work[l] EXCEPT !.kind = "changes"])
      <4>. DEFINE w == [work[l] EXCEPT !.kind = "changes"]
      <4>1. w \in Jobs(1..n) /\ ~(w.kind \in {"checked", "read"})
        BY <1>1 DEF Jobs, Console!Kinds
      <4>2. ~Flying(l) /\ UNCHANGED password
        BY <2>5 DEF Console!Accept, Flying
      <4>. HIDE DEF w
      <4>. QED  BY <2>1, <3>2, <4>1, <4>2 DEF w
    <3>. QED  BY <2>5, <3>1, <3>2 DEF Console!Accept
  <2>6. ASSUME NEW pw \in Passwords, NEW new \in Passwords, Console!Ask(l, pw, new)
        PROVE  <1>4
    <3>. DEFINE w == [Console!Idle EXCEPT !.kind = "asks", !.pw = pw, !.new = new]
    <3>1. w \in Jobs(1..n) /\ ~(w.kind \in {"checked", "read"})
      BY <1>2 DEF Jobs, Console!Kinds
    <3>2. ~Flying(l) /\ UNCHANGED password /\ Console!Go(l, w)
      BY <2>6 DEF Console!Ask, Flying
    <3>. HIDE DEF w
    <3>. QED  BY <2>1, <3>1, <3>2
  <2>7. CASE Console!Change(l)
    <3>1. work' = [k \in Logins |->
               IF k = l THEN [work[l] EXCEPT !.kind = "renews", !.pw = work[l].new]
               ELSE IF work[k].kind = "idle" THEN work[k] ELSE [work[k] EXCEPT !.early = TRUE]]
      BY <2>7 DEF Console!Change
    <3>2. /\ work'[l] \in Jobs(1..n) /\ work'[l].kind = "renews" /\ work[l].kind = "changes"
          /\ password' = work[l].new /\ work[l].new \in Passwords
      BY <1>1, <2>7, <3>1 DEF Jobs, Console!Kinds, Console!Change
    <3>3. \A k \in Logins : k # l => /\ work'[k] \in Jobs(1..n) /\ work'[k].kind = work[k].kind
                                     /\ work'[k].list = work[k].list
      BY <1>1, <3>1 DEF Jobs
    <3>4. work' \in [Logins -> Jobs(1..n)]
      BY <3>1, <3>2, <3>3
    <3>. QED  BY <3>2, <3>3, <3>4 DEF Flying
  <2>. QED  BY <2>3, <2>4, <2>5, <2>6, <2>7
<1>5. Carried' /\ InUse' = InUse /\ Behind' = Behind
  BY <1>1, <1>3, <1>4 DEF Carried, InUse, Behind, Flying, n
<1>. QED  BY <1>1, <1>3, <1>5, Quiet

LEMMA TStep == Console!BoundsAssumption /\ TInv /\ [Console!Next]_(Console!vars) => TInv'
<1>. SUFFICES ASSUME Console!BoundsAssumption, TInv, [Console!Next]_(Console!vars) PROVE TInv'
  OBVIOUS
<1>1. CASE Console!Tick \/ UNCHANGED Console!vars \/ Console!PruneSessions \/ \E s \in sessions : Console!Logout(s)
  <2>1. UNCHANGED <<work, lists, wrong, password>> /\ (clock' = clock \/ clock' = clock + 1)
    BY <1>1 DEF Console!Tick, Console!vars, Console!PruneSessions, Console!Logout
  <2>2. clock \in Nat /\ clock' \in Nat /\ clock' >= clock
    BY <2>1 DEF TInv, Carried
  <2>3. Carried' /\ InUse' = InUse /\ Behind' = Behind
    BY <2>1, <2>2 DEF TInv, Carried, InUse, Behind, Flying
  <2>. QED  BY <2>1, <2>2, <2>3, Quiet
<1>2. CASE Console!Restart
  <2>1. work' = [l \in Logins |-> Console!Idle] /\ lists' = << <<>> >> /\ wrong' = <<>>
          /\ UNCHANGED <<clock, password>>
    BY <1>2 DEF Console!Restart
  <2>2. Console!Idle \in Jobs(1..1) /\ Console!Idle.kind = "idle" /\ Len(lists') = 1
          /\ lists' \in Seq(Seq(Nat)) /\ Latest' = <<>>
    BY <2>1, IdleJob DEF Latest
  <2>3. Carried'
    BY <2>1, <2>2 DEF TInv, Carried
  <2>4. InUse' = {} /\ Behind' = {}
    BY <2>1, <2>2 DEF InUse, Behind, Flying
  <2>5. Size(Logins) \in Nat /\ Size(Logins) >= 1 /\ MaxFailures \in Nat
    BY SizeOf DEF Console!BoundsAssumption
  <2>6. Room(<<>>, {}, clock) /\ Close(<<>>, <<>>, {}, clock)
    BY <2>5, NoneLater, NoneSize DEF Room, Close
  <2>. QED  BY <2>1, <2>2, <2>3, <2>4, <2>6 DEF TInv
<1>3. ASSUME NEW l \in Logins, Console!Verify(l)
      PROVE  TInv'
  BY <1>3, TGood, TBad
<1>. QED  BY <1>1, <1>2, <1>3, TCheck, TOther DEF Console!Next

\* Since its last good login an address has at most the limit and twice the
\* requests under way beside it of wrong passwords verified within a window,
\* for any number of requests at once (login, _recent_failures).
THEOREM TriesAreBounded == Console!BoundsAssumption => (Console!Spec => []Console!TriesBounded)
<1>. SUFFICES ASSUME Console!BoundsAssumption PROVE Console!Spec => []Console!TriesBounded
  OBVIOUS
<1>1. Console!Init => TInv
  BY TInit
<1>2. TInv /\ [Console!Next]_(Console!vars) => TInv'
  BY TStep
<1>3. TInv => Console!TriesBounded
  <2>. SUFFICES ASSUME TInv PROVE Console!TriesBounded
    OBVIOUS
  <2>. DEFINE c == clock - Window
  <2>1. clock \in Nat /\ Window \in Nat /\ MaxFailures \in Nat /\ InUse \subseteq Logins
          /\ Behind \subseteq Logins
    BY LaterTypes
  <2>2. c \in Int /\ c <= c
    BY <2>1
  <2>3. Later(Latest, c) \in Nat /\ Later(wrong, c) \in Nat
    BY <2>2, LaterTypes
  <2>4. Size(InUse) \in Nat /\ Size(Behind) \in Nat /\ Size(Logins) \in Nat
    BY <2>1, SizeOf
  <2>5. Later(Latest, c) + Size(InUse) <= MaxFailures + Size(Logins) - 1
    BY DEF TInv, Room
  <2>6. Later(wrong, c) + Size(Behind) <= Later(Latest, c) + Size(Logins) - 1
    BY <2>2 DEF TInv, Close
  <2>. HIDE DEF c
  <2>7. Later(wrong, c) <= MaxFailures + 2 * (Size(Logins) - 1)
    BY <2>1, <2>3, <2>4, <2>5, <2>6
  <2>8. Later(wrong, c) = Size(Console!After(wrong, c))
    BY SizeIs DEF Later
  <2>. QED  BY <2>7, <2>8 DEF Console!TriesBounded, Size, c
<1>. QED  BY <1>1, <1>2, <1>3, PTL DEF Console!Spec

-----------------------------------------------------------------------------
(* The portal's logins (PortalLogin), for any addresses, computers, codes and *)
(* rewards.                                                                *)
(*                                                                         *)
(* That a computer is rewarded once rests on what was claimed when a user was *)
(* made; that no desktop login makes a user without one, on users that stay *)
(* known while a login waits (Claims).                                     *)
CONSTANTS Emails, Devices, NoDevice, Grant, CaptchaLife, CodeLife, CaptchaLimit, HourLimit, MaxAttempts, MaxCaptchas, MaxCodes
VARIABLES now, captchas, codes, users, keys, claimed, visits, pending

Entry == INSTANCE PortalLogin WITH sessions <- visits

Mailed == [email : Emails, at : Nat, until : Nat, attempts : 0..MaxAttempts, used : BOOLEAN,
           mail : {"sending", "sent", "failed"}]
Accounted == [grant : {0, Grant}, device : Devices \cup {NoDevice}, via : Entry!Vias]
Sessions == [email : Emails, via : Entry!Vias, code : Nat, until : Nat]
Waiting == [code : Nat, email : Emails, correct : BOOLEAN, device : Devices \cup {NoDevice}]

PortalTypes ==
  /\ now \in Nat /\ codes \in Seq(Mailed) /\ users \in [Emails -> Accounted \cup {Entry!NoUser}]
       /\ keys \in [Emails -> Nat]
  /\ visits \subseteq Sessions /\ pending \subseteq Waiting

\* Whatever came before the last code of an address is used up.
Older == \A j, k \in 1..Len(codes) : j < k /\ codes[j].email = codes[k].email => codes[j].used

\* A session, and a user, came in by a code of its own that is used.
Entered ==
  /\ \A s \in visits : s.code \in 1..Len(codes) /\ codes[s.code].used /\ codes[s.code].email = s.email
                         /\ Entry!Known(s.email)
  /\ \A s, t \in visits : s.code = t.code => s = t
  /\ \A e \in Emails : Entry!Known(e) =>
       \E k \in 1..Len(codes) : codes[k].email = e /\ codes[k].used /\ codes[k].mail = "sent"
  /\ \A e \in Emails : keys[e] = IF Entry!Known(e) THEN 1 ELSE 0

\* The computer of a user is claimed; and who signs in from the desktop without
\* naming one was a user before.
Claims ==
  /\ \A e \in Emails : users[e].device # NoDevice => users[e].device \in claimed
  /\ Entry!RewardedOnce
  /\ \A p \in pending : Entry!Known(p.email) \/ p.device # NoDevice

EInv == PortalTypes /\ Older /\ Entered /\ Claims

LEMMA PortalNumbers ==
  ASSUME Entry!BoundsAssumption
  PROVE  Grant \in Nat /\ Grant # 0 /\ MaxAttempts \in Nat /\ MaxAttempts > 0 /\ CodeLife \in Nat
           /\ NoDevice \notin Devices
BY DEF Entry!BoundsAssumption

LEMMA EInit == Entry!BoundsAssumption /\ Entry!Init => EInv
<1>. SUFFICES ASSUME Entry!BoundsAssumption, Entry!Init PROVE EInv
  OBVIOUS
<1>1. \A e \in Emails : users[e] = Entry!NoUser /\ ~Entry!Known(e) /\ users[e].device = NoDevice
        /\ users[e].via = "none"
  BY DEF Entry!Init, Entry!Known, Entry!NoUser
<1>2. codes = <<>> /\ visits = {} /\ pending = {}
  BY DEF Entry!Init
<1>3. PortalTypes
  BY <1>2 DEF Entry!Init, PortalTypes
<1>4. Older /\ Entered /\ Claims
  BY <1>1, <1>2 DEF Entry!Init, Older, Entered, Claims, Entry!RewardedOnce
<1>. QED  BY <1>3, <1>4 DEF EInv

\* A user that is not known has nothing, one that is has a reward.
LEMMA UserFacts ==
  ASSUME Entry!BoundsAssumption, users \in [Emails -> Accounted \cup {Entry!NoUser}], NEW e \in Emails
  PROVE  /\ Entry!Known(e) => users[e] \in Accounted
         /\ ~Entry!Known(e) => users[e].device = NoDevice /\ users[e].via = "none" /\ users[e].grant = -1
         /\ Entry!NoUser \notin Accounted
<1>1. Entry!NoUser \notin Accounted
  BY PortalNumbers DEF Entry!NoUser, Accounted
<1>. QED  BY <1>1 DEF Entry!Known, Entry!NoUser

\* The codes go on: none changes its address, is used no more, or is unsent.
GoOn ==
  /\ codes' \in Seq(Mailed) /\ Len(codes') >= Len(codes)
  /\ \A k \in 1..Len(codes) : /\ codes'[k].email = codes[k].email
                              /\ codes[k].used => codes'[k].used
                              /\ codes[k].mail = "sent" => codes'[k].mail = "sent"

\* Then what was entered by them stays so.
LEMMA StayEntered ==
  ASSUME EInv, GoOn, Older', UNCHANGED <<users, keys, claimed>>, visits' \subseteq visits,
         now' \in Nat, pending' \subseteq Waiting, \A p \in pending' : Entry!Known(p.email) \/ p.device # NoDevice
  PROVE  EInv'
<1>. USE DEF EInv
<1>1. Len(codes) \in Nat /\ Len(codes') \in Nat /\ Len(codes') >= Len(codes)
  BY DEF PortalTypes, GoOn
<1>2. PortalTypes'
  BY DEF PortalTypes, GoOn
<1>3. \A e \in Emails : Entry!Known(e)' <=> Entry!Known(e)
  BY DEF Entry!Known
<1>4. Entered'
  <2>1. \A s \in visits' : s.code \in 1..Len(codes') /\ codes'[s.code].used /\ codes'[s.code].email = s.email
                             /\ Entry!Known(s.email)'
    <3>. SUFFICES ASSUME NEW s \in visits'
                  PROVE  s.code \in 1..Len(codes') /\ codes'[s.code].used /\ codes'[s.code].email = s.email
                         /\ Entry!Known(s.email)'
      OBVIOUS
    <3>1. s \in visits /\ s.email \in Emails
      BY DEF PortalTypes, Sessions
    <3>2. s.code \in 1..Len(codes) /\ codes[s.code].used /\ codes[s.code].email = s.email /\ Entry!Known(s.email)
      BY <3>1 DEF Entered
    <3>. QED  BY <1>1, <1>3, <3>1, <3>2 DEF GoOn
  <2>2. \A e \in Emails : Entry!Known(e)' =>
          \E k \in 1..Len(codes') : codes'[k].email = e /\ codes'[k].used /\ codes'[k].mail = "sent"
    BY <1>1, <1>3 DEF GoOn, Entered
  <2>3. \A e \in Emails : keys'[e] = IF Entry!Known(e)' THEN 1 ELSE 0
    BY <1>3 DEF Entered
  <2>4. \A s, t \in visits' : s.code = t.code => s = t
    BY DEF Entered
  <2>. QED  BY <2>1, <2>2, <2>3, <2>4 DEF Entered
<1>5. Claims'
  <2>1. \A p \in pending' : Entry!Known(p.email)' \/ p.device # NoDevice
    BY <1>3 DEF Waiting
  <2>. QED  BY <2>1 DEF Claims, Entry!RewardedOnce
<1>. QED  BY <1>2, <1>4, <1>5

LEMMA CodeFacts ==
  ASSUME EInv, NEW k \in 1..Len(codes)
  PROVE  codes[k] \in Mailed
BY DEF EInv, PortalTypes

LEMMA EIssue ==
  ASSUME Entry!BoundsAssumption, EInv, NEW u, NEW email \in Emails, NEW solved, NEW named,
         Entry!IssueCode(u, email, solved, named)
  PROVE  EInv'
<1>. USE DEF EInv
<1>1. UNCHANGED <<now, users, keys, claimed, visits, pending>> /\ now \in Nat
  BY DEF Entry!IssueCode, PortalTypes
<1>2. GoOn /\ Older'
  <2>1. CASE codes' = codes
    BY <2>1 DEF GoOn, Older, PortalTypes
  <2>2. CASE codes' # codes
    <3>. DEFINE old == Entry!Superseded(email)
                new == [email |-> email, at |-> now, until |-> now + CodeLife, attempts |-> 0, used |-> FALSE,
                        mail |-> "sending"]
                n == Len(codes)
    <3>1. codes' = Append(old, new)
      BY <2>2 DEF Entry!IssueCode
    <3>2. new \in Mailed /\ new.email = email
      BY <1>1, PortalNumbers DEF Mailed
    <3>3. n \in Nat /\ DOMAIN codes = 1..n
      BY DEF PortalTypes
    <3>4. ASSUME NEW k \in 1..n
          PROVE  /\ old[k] \in Mailed /\ old[k].email = codes[k].email /\ old[k].mail = codes[k].mail
                 /\ codes[k].used => old[k].used
                 /\ codes[k].email = email => old[k].used
      <4>1. codes[k] \in Mailed
        BY CodeFacts
      <4>2. old[k] = IF codes[k].email = email THEN [codes[k] EXCEPT !.used = TRUE] ELSE codes[k]
        BY <3>3 DEF Entry!Superseded
      <4>. DEFINE spent == [codes[k] EXCEPT !.used = TRUE]
      <4>3. spent \in Mailed /\ spent.email = codes[k].email /\ spent.mail = codes[k].mail /\ spent.used
        BY <4>1 DEF Mailed
      <4>. HIDE DEF spent, old
      <4>4. CASE codes[k].email = email
        <5>1. old[k] = spent
          BY <4>2, <4>4 DEF spent
        <5>. QED  BY <4>3, <5>1
      <4>5. CASE codes[k].email # email
        <5>1. old[k] = codes[k]
          BY <4>2, <4>5
        <5>. QED  BY <4>1, <4>5, <5>1
      <4>. QED  BY <4>4, <4>5
    <3>5. old \in Seq(Mailed) /\ Len(old) = n
      <4>1. old = [k \in 1..n |-> old[k]]
        BY <3>3 DEF Entry!Superseded
      <4>. HIDE DEF old
      <4>. QED  BY <3>3, <3>4, <4>1
    <3>. HIDE DEF old, new
    <3>6. /\ codes' \in Seq(Mailed) /\ Len(codes') = n + 1 /\ codes'[n + 1] = new
          /\ \A k \in 1..n : codes'[k] = old[k]
      BY <3>1, <3>2, <3>3, <3>5
    <3>7. GoOn
      BY <3>3, <3>4, <3>6 DEF GoOn
    <3>8. Older'
      <4>1. ASSUME NEW j \in 1..(n + 1), NEW k \in 1..(n + 1), j < k, codes'[j].email = codes'[k].email
            PROVE  codes'[j].used
        <5>1. j \in 1..n
          BY <3>3, <4>1
        <5>2. CASE k = n + 1
          BY <3>2, <3>4, <3>6, <4>1, <5>1, <5>2
        <5>3. CASE k # n + 1
          <6>1. k \in 1..n
            BY <3>3, <4>1, <5>3
          <6>2. codes[j].used
            BY <3>4, <3>6, <4>1, <5>1, <6>1 DEF Older
          <6>. QED  BY <3>4, <3>6, <5>1, <6>2
        <5>. QED  BY <5>2, <5>3
      <4>. QED  BY <3>6, <4>1 DEF Older
    <3>. QED  BY <3>7, <3>8
  <2>. QED  BY <2>1, <2>2
<1>3. pending' \subseteq Waiting /\ \A p \in pending' : Entry!Known(p.email) \/ p.device # NoDevice
  BY <1>1 DEF PortalTypes, Claims
<1>. QED  BY <1>1, <1>2, <1>3, StayEntered

\* One code changes, to one of the same address.
LEMMA OneCode ==
  ASSUME EInv, NEW k \in 1..Len(codes), NEW next \in Mailed, codes' = [codes EXCEPT ![k] = next],
         next.email = codes[k].email, codes[k].used => next.used, codes[k].mail = "sent" => next.mail = "sent"
  PROVE  GoOn /\ Older' /\ codes'[k] = next /\ Len(codes') = Len(codes)
<1>. USE DEF EInv
<1>1. /\ codes' \in Seq(Mailed) /\ Len(codes') = Len(codes) /\ Len(codes) \in Nat /\ codes'[k] = next
      /\ \A j \in 1..Len(codes) : j # k => codes'[j] = codes[j]
  BY DEF PortalTypes
<1>2. \A j \in 1..Len(codes) : /\ codes'[j].email = codes[j].email
                               /\ codes[j].used => codes'[j].used
                               /\ codes[j].mail = "sent" => codes'[j].mail = "sent"
  <2>. SUFFICES ASSUME NEW j \in 1..Len(codes)
                PROVE  /\ codes'[j].email = codes[j].email
                       /\ codes[j].used => codes'[j].used
                       /\ codes[j].mail = "sent" => codes'[j].mail = "sent"
    OBVIOUS
  <2>1. CASE j = k
    BY <1>1, <2>1
  <2>2. CASE j # k
    <3>1. codes'[j] = codes[j]
      BY <1>1, <2>2
    <3>. QED  BY <3>1
  <2>. QED  BY <2>1, <2>2
<1>3. GoOn
  BY <1>1, <1>2 DEF GoOn
<1>4. Older'
  BY <1>1, <1>2 DEF Older
<1>. QED  BY <1>1, <1>3, <1>4

LEMMA EMail ==
  ASSUME Entry!BoundsAssumption, EInv, NEW k, NEW sent, Entry!Mail(k, sent)
  PROVE  EInv'
<1>. USE DEF EInv
<1>1. /\ k \in 1..Len(codes) /\ codes[k].mail = "sending"
      /\ UNCHANGED <<now, users, keys, claimed, visits, pending>>
  BY DEF Entry!Mail, PortalTypes
<1>2. PICK mail \in {"sent", "failed"} : codes' = [codes EXCEPT ![k].mail = mail]
  BY DEF Entry!Mail
<1>. DEFINE next == [codes[k] EXCEPT !.mail = mail]
<1>3. next \in Mailed /\ next.email = codes[k].email /\ (codes[k].used => next.used)
  BY <1>1, CodeFacts DEF Mailed
<1>4. codes' = [codes EXCEPT ![k] = next]
  BY <1>1, <1>2
<1>. HIDE DEF next
<1>5. GoOn /\ Older'
  BY <1>1, <1>3, <1>4, OneCode
<1>6. now' \in Nat /\ pending' \subseteq Waiting
        /\ \A p \in pending' : Entry!Known(p.email) \/ p.device # NoDevice
  BY <1>1 DEF PortalTypes, Claims
<1>. QED  BY <1>1, <1>5, <1>6, StayEntered

\* A login: the code is tried, and the first good one of an address makes the user.
LEMMA ECompletes ==
  ASSUME Entry!BoundsAssumption, EInv, NEW k \in Nat, NEW email \in Emails, NEW correct,
         correct \in BOOLEAN,
         NEW device \in Devices \cup {NoDevice}, NEW via \in Entry!Vias,
           Entry!Complete(k, email, correct, device, via),
         via = "desktop" => Entry!Known(email) \/ device # NoDevice,
         now' = now, pending' \subseteq pending
  PROVE  EInv'
<1>. USE DEF EInv
<1>0. pending' \subseteq Waiting /\ now' \in Nat
        /\ \A p \in pending' : Entry!Known(p.email) \/ p.device # NoDevice
  BY DEF PortalTypes, Claims
<1>1. CASE ~Entry!Open(k, email)
  <2>1. UNCHANGED <<codes, users, keys, claimed, visits>>
    BY <1>1 DEF Entry!Complete
  <2>2. GoOn /\ Older'
    BY <2>1 DEF GoOn, Older, PortalTypes
  <2>. QED  BY <1>0, <2>1, <2>2, StayEntered
<1>2. CASE Entry!Open(k, email)
  <2>1. /\ k \in 1..Len(codes) /\ codes[k].email = email /\ ~codes[k].used /\ codes[k].mail # "failed"
        /\ codes[k].attempts < MaxAttempts
    BY <1>2 DEF Entry!Open, Entry!Live, PortalTypes
  <2>. DEFINE more == codes[k].attempts + 1
              next == [codes[k] EXCEPT !.attempts = more, !.used = correct]
  <2>2. codes[k] \in Mailed /\ more \in 0..MaxAttempts
    BY <2>1, CodeFacts, PortalNumbers DEF Mailed
  <2>. HIDE DEF more
  <2>3. next \in Mailed
    BY <2>2 DEF Mailed
  <2>4. next.email = codes[k].email /\ next.mail = codes[k].mail
    BY <2>2 DEF Mailed
  <2>5. correct => next.used
    BY <2>2 DEF Mailed
  <2>6. codes' = [codes EXCEPT ![k] = next]
    BY <1>2, <2>1 DEF Entry!Complete, Entry!Tried, more
  <2>. HIDE DEF next
  <2>7. GoOn /\ Older' /\ codes'[k] = next /\ Len(codes') = Len(codes)
    BY <2>1, <2>3, <2>4, <2>6, OneCode
  <2>8. CASE ~correct
    <3>1. UNCHANGED <<users, keys, claimed, visits>>
      BY <1>2, <2>8 DEF Entry!Complete
    <3>. QED  BY <1>0, <2>7, <3>1, StayEntered
  <2>9. CASE correct
    <3>. DEFINE visit == [email |-> email, via |-> via, code |-> k, until |-> now + Entry!SessionLife(via)]
                reward == [grant |-> Entry!Reward(device), device |-> device, via |-> via]
    <3>1. /\ codes[k].mail = "sent"
          /\ users' = IF Entry!Known(email) THEN users ELSE [users EXCEPT ![email] = reward]
          /\ claimed' = IF Entry!Known(email) THEN claimed ELSE claimed \cup ({device} \ {NoDevice})
          /\ keys' = IF keys[email] = 0 THEN [keys EXCEPT ![email] = 1] ELSE keys
          /\ visits' = visits \cup {visit}
      BY <1>2, <2>9 DEF Entry!Complete
    <3>2. visit \in Sessions /\ visit.email = email /\ visit.code = k
      BY DEF Sessions, Entry!SessionLife, PortalTypes
    <3>3. reward \in Accounted /\ reward # Entry!NoUser /\ reward.device = device /\ reward.via = via
          /\ (device \in claimed => reward.grant = 0)
      BY PortalNumbers DEF Accounted, Entry!NoUser, Entry!Reward
    <3>. HIDE DEF visit, reward
    <3>4. /\ users' \in [Emails -> Accounted \cup {Entry!NoUser}] /\ Entry!Known(email)'
          /\ \A e \in Emails : Entry!Known(e) \/ e # email => users'[e] = users[e]
          /\ ~Entry!Known(email) => users'[email] = reward
      BY <3>1, <3>3 DEF PortalTypes, Entry!Known
    <3>5. \A e \in Emails : Entry!Known(e)' <=> Entry!Known(e) \/ e = email
      BY <3>4 DEF Entry!Known
    <3>6. PortalTypes'
      BY <1>0, <2>7, <3>1, <3>2, <3>4 DEF PortalTypes, GoOn
    <3>7. Entered'
      <4>1. ASSUME NEW s \in visits'
            PROVE  s.code \in 1..Len(codes') /\ codes'[s.code].used /\ codes'[s.code].email = s.email
                     /\ Entry!Known(s.email)'
        <5>1. CASE s = visit
          BY <2>1, <2>4, <2>5, <2>7, <2>9, <3>2, <3>4, <5>1
        <5>2. CASE s # visit
          <6>1. s \in visits /\ s.email \in Emails
            BY <3>1, <5>2 DEF PortalTypes, Sessions
          <6>2. s.code \in 1..Len(codes) /\ codes[s.code].used /\ codes[s.code].email = s.email
                  /\ Entry!Known(s.email)
            BY <6>1 DEF Entered
          <6>. QED  BY <2>7, <3>5, <6>1, <6>2 DEF GoOn
        <5>. QED  BY <5>1, <5>2
      <4>2. ASSUME NEW s \in visits', NEW t \in visits', s.code = t.code PROVE s = t
        <5>1. \A x \in visits : x.code # k
          BY <2>1 DEF Entered
        <5>. QED  BY <3>1, <3>2, <4>2, <5>1 DEF Entered
      <4>3. ASSUME NEW e \in Emails, Entry!Known(e)'
            PROVE  \E j \in 1..Len(codes') : codes'[j].email = e /\ codes'[j].used /\ codes'[j].mail = "sent"
        <5>1. CASE e = email
          BY <2>1, <2>4, <2>5, <2>7, <2>9, <3>1, <5>1
        <5>2. CASE e # email
          <6>1. PICK j \in 1..Len(codes) : codes[j].email = e /\ codes[j].used /\ codes[j].mail = "sent"
            BY <3>5, <4>3, <5>2 DEF Entered
          <6>. QED  BY <2>7, <6>1 DEF GoOn
        <5>. QED  BY <5>1, <5>2
      <4>4. ASSUME NEW e \in Emails PROVE keys'[e] = IF Entry!Known(e)' THEN 1 ELSE 0
        <5>1. keys[e] = IF Entry!Known(e) THEN 1 ELSE 0
          BY DEF Entered
        <5>2. keys[email] = IF Entry!Known(email) THEN 1 ELSE 0
          BY DEF Entered
        <5>3. keys'[e] = IF e = email THEN 1 ELSE keys[e]
          BY <3>1, <5>1, <5>2 DEF PortalTypes
        <5>. QED  BY <3>5, <5>1, <5>3
      <4>. QED  BY <4>1, <4>2, <4>3, <4>4 DEF Entered
    <3>8. Claims'
      <4>1. claimed \subseteq claimed' /\ (~Entry!Known(email) /\ device # NoDevice => device \in claimed')
        BY <3>1
      <4>2. ASSUME NEW e \in Emails
            PROVE  \/ users'[e] = users[e] /\ (Entry!Known(email) \/ e # email)
                   \/ users'[e] = reward /\ e = email /\ ~Entry!Known(email)
        BY <3>4
      <4>3. ASSUME NEW e \in Emails, users'[e].device # NoDevice PROVE users'[e].device \in claimed'
        BY <3>3, <4>1, <4>2, <4>3 DEF Claims
      <4>4. ASSUME NEW e \in Emails, users'[e].via = "desktop" PROVE users'[e].device # NoDevice
        BY <3>3, <4>2, <4>4 DEF Claims, Entry!RewardedOnce
      <4>5. ASSUME NEW e \in Emails, NEW f \in Emails, users'[e].device = users'[f].device,
                   users'[e].device # NoDevice,
                   users'[e].grant > 0, users'[f].grant > 0
            PROVE  e = f
        <5>1. CASE users'[e] = users[e] /\ users'[f] = users[f]
          BY <4>5, <5>1 DEF Claims, Entry!RewardedOnce
        <5>2. ASSUME NEW x \in Emails, users'[x] = users[x], device = users[x].device, device # NoDevice,
                     reward.grant > 0
              PROVE  FALSE
          BY <3>3, <5>2 DEF Claims
        <5>3. CASE users'[e] = reward /\ users'[f] = users[f]
          BY <3>3, <4>5, <5>2, <5>3
        <5>4. CASE users'[f] = reward /\ users'[e] = users[e]
          BY <3>3, <4>5, <5>2, <5>4
        <5>. QED  BY <4>2, <5>1, <5>3, <5>4
      <4>6. Entry!RewardedOnce'
        BY <4>4, <4>5 DEF Entry!RewardedOnce
      <4>7. \A p \in pending' : Entry!Known(p.email)' \/ p.device # NoDevice
        BY <1>0, <3>5 DEF Waiting
      <4>. QED  BY <4>3, <4>6, <4>7 DEF Claims
    <3>. QED  BY <2>7, <3>6, <3>7, <3>8
  <2>. QED  BY <2>8, <2>9
<1>. QED  BY <1>1, <1>2

LEMMA EStep == Entry!BoundsAssumption /\ EInv /\ [Entry!Next]_(Entry!vars) => EInv'
<1>. SUFFICES ASSUME Entry!BoundsAssumption, EInv, [Entry!Next]_(Entry!vars) PROVE EInv'
  OBVIOUS
<1>. USE DEF EInv
<1>1. ASSUME UNCHANGED <<codes, users, keys, claimed>>, visits' \subseteq visits, now' \in Nat,
             pending' \subseteq Waiting, \A p \in pending' : Entry!Known(p.email) \/ p.device # NoDevice
      PROVE  EInv'
  <2>1. GoOn /\ Older'
    BY <1>1 DEF GoOn, Older, PortalTypes
  <2>. QED  BY <1>1, <2>1, StayEntered
<1>2. pending \subseteq Waiting /\ (\A p \in pending : Entry!Known(p.email) \/ p.device # NoDevice) /\ now \in Nat
  BY DEF PortalTypes, Claims
<1>3. CASE UNCHANGED Entry!vars
  BY <1>1, <1>2, <1>3 DEF Entry!vars
<1>4. CASE Entry!Tick \/ Entry!Captcha
  BY <1>1, <1>2, <1>4 DEF Entry!Tick, Entry!Captcha
<1>5. CASE \E u \in DOMAIN captchas, e \in Emails, solved,
             named \in BOOLEAN : Entry!IssueCode(u, e, solved, named)
  BY <1>5, EIssue
<1>6. CASE \E k \in 1..MaxCodes, sent \in BOOLEAN : Entry!Mail(k, sent)
  BY <1>6, EMail
<1>7. ASSUME NEW k \in 1..MaxCodes, NEW e \in Emails, NEW correct \in BOOLEAN,
             NEW d \in Devices \cup {NoDevice},
             Entry!VerifyWeb(k, e, correct, d)
      PROVE  EInv'
  BY <1>7, ECompletes DEF Entry!VerifyWeb, Entry!Vias
<1>8. ASSUME NEW k \in DOMAIN codes, NEW correct \in BOOLEAN, NEW d \in Devices \cup {NoDevice},
             Entry!VerifyDesktopBegin(k, codes[k].email, correct, d)
      PROVE  EInv'
  <2>. DEFINE p == [code |-> k, email |-> codes[k].email, correct |-> correct, device |-> d]
  <2>1. k \in Nat /\ codes[k].email \in Emails
    <3>1. k \in 1..Len(codes)
      BY DEF PortalTypes
    <3>2. codes[k] \in Mailed
      BY <3>1, CodeFacts
    <3>. QED  BY <3>1, <3>2 DEF Mailed
  <2>2. p \in Waiting /\ (Entry!Known(p.email) \/ p.device # NoDevice)
    BY <1>8, <2>1 DEF Entry!VerifyDesktopBegin, Waiting
  <2>3. pending' = {p} /\ UNCHANGED <<now, codes, users, keys, claimed, visits>>
    BY <1>8 DEF Entry!VerifyDesktopBegin
  <2>. HIDE DEF p
  <2>. QED  BY <1>1, <1>2, <2>2, <2>3
<1>9. ASSUME NEW p \in pending, Entry!VerifyDesktopEnd(p) PROVE EInv'
  <2>1. /\ p \in Waiting /\ (Entry!Known(p.email) \/ p.device # NoDevice)
        /\ pending' \subseteq pending /\ now' = now
             /\ Entry!Complete(p.code, p.email, p.correct, p.device, "desktop")
    BY <1>2, <1>9 DEF Entry!VerifyDesktopEnd
  <2>2. p.code \in Nat /\ p.email \in Emails /\ p.correct \in BOOLEAN /\ p.device \in Devices \cup {NoDevice}
    BY <2>1 DEF Waiting
  <2>. QED  BY <2>1, <2>2, ECompletes DEF Entry!Vias
<1>10. CASE \E s \in visits : Entry!Logout(s)
  BY <1>1, <1>2, <1>10 DEF Entry!Logout
<1>. QED  BY <1>3, <1>4, <1>5, <1>6, <1>7, <1>8, <1>9, <1>10 DEF Entry!Next

\* Only the last code of an address can be used, five times at most and for one
\* session; a computer is rewarded once, and no desktop login makes a user
\* without one; and every user has one key and came in by a code it was sent
\* (complete, desktop_verify).
THEOREM PortalRewardsOnceAlways ==
  Entry!BoundsAssumption =>
    (Entry!Spec => [](Entry!OneLiveCode /\ Entry!FiveTries /\ Entry!RewardedOnce /\ Entry!UsersAreWhole))
<1>. SUFFICES ASSUME Entry!BoundsAssumption PROVE Entry!Spec =>
                       [](Entry!OneLiveCode /\ Entry!FiveTries /\ Entry!RewardedOnce /\ Entry!UsersAreWhole)
  OBVIOUS
<1>1. Entry!Init => EInv
  BY EInit
<1>2. EInv /\ [Entry!Next]_(Entry!vars) => EInv'
  BY EStep
<1>3. EInv => Entry!OneLiveCode /\ Entry!FiveTries /\ Entry!RewardedOnce /\ Entry!UsersAreWhole
  <2>. SUFFICES ASSUME EInv PROVE Entry!OneLiveCode /\ Entry!FiveTries /\ Entry!RewardedOnce
                         /\ Entry!UsersAreWhole
    OBVIOUS
  <2>1. DOMAIN codes = 1..Len(codes)
    BY DEF EInv, PortalTypes
  <2>2. Entry!OneLiveCode
    BY <2>1 DEF EInv, Older, Entry!OneLiveCode, Entry!Live
  <2>3. Entry!FiveTries
    BY <2>1, CodeFacts, PortalNumbers DEF EInv, Entered, Mailed, Entry!FiveTries
  <2>4. Entry!UsersAreWhole
    BY <2>1 DEF EInv, Entered, Entry!UsersAreWhole
  <2>. QED  BY <2>2, <2>3, <2>4 DEF EInv, Claims
<1>. QED  BY <1>1, <1>2, <1>3, PTL DEF Entry!Spec

\* No later login changes what a user was given at its first (complete).
THEOREM RewardStays == Entry!BoundsAssumption => (Entry!Spec => Entry!RewardIsFinal)
<1>. SUFFICES ASSUME Entry!BoundsAssumption PROVE Entry!Spec => Entry!RewardIsFinal
  OBVIOUS
<1>1. Entry!Init => EInv
  BY EInit
<1>2. EInv /\ [Entry!Next]_(Entry!vars) => EInv'
  BY EStep
<1>3. EInv /\ [Entry!Next]_(Entry!vars) => [\A e \in Emails : Entry!Known(e) => users'[e] = users[e]]_(Entry!vars)
  <2>. SUFFICES ASSUME EInv, Entry!Next, NEW e \in Emails, Entry!Known(e) PROVE users'[e] = users[e]
    OBVIOUS
  <2>1. ASSUME NEW k, NEW email \in Emails, NEW correct, NEW d, NEW via,
               Entry!Complete(k, email, correct, d, via)
        PROVE  users'[e] = users[e]
    BY <2>1 DEF Entry!Complete, EInv, PortalTypes
  <2>2. \A p \in pending : p.email \in Emails
    BY DEF EInv, PortalTypes, Waiting
  <2>. QED  BY <2>1, <2>2 DEF Entry!Next, Entry!Tick, Entry!Captcha, Entry!IssueCode, Entry!Mail,
                              Entry!VerifyWeb, Entry!VerifyDesktopBegin, Entry!VerifyDesktopEnd,
                              Entry!Logout
<1>. QED  BY <1>1, <1>2, <1>3, PTL DEF Entry!Spec, Entry!RewardIsFinal
=============================================================================
