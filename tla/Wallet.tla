------------------------------- MODULE Wallet -------------------------------
(***************************************************************************)
(* The prepaid wallet of the gateway: src/app/wallet_engine.py and the     *)
(* credit operations of src/app/billing.py, together with the startup      *)
(* recovery of unfinished bills in src/app/codex_gateway.py.               *)
(*                                                                         *)
(* Every sk- key has one balance (api_keys.usd_credit).  A generation      *)
(* request first holds part of it (billing_requests in state 'reserved'),  *)
(* and later the hold is settled against the provider's usage report,      *)
(* released, left 'pending' for a usage report that may still come, or     *)
(* reversed by an administrator.  wallet_ledger is the append-only record  *)
(* of every change of a balance.                                           *)
(*                                                                         *)
(* One action is one transaction of GatewayStore.call, which runs on a     *)
(* single writer; whatever a handler does across two calls is two actions  *)
(* with the local state between them in a variable.  Money is counted in   *)
(* indivisible units (the code keeps Decimals with eight places).  Time is *)
(* one bit per bill: whether its expires_at has passed.                    *)
(***************************************************************************)
EXTENDS Integers, Sequences, FiniteSets, Collections

CONSTANTS
  Keys,           \* ids of api_keys rows
  Requests,       \* request ids, one per generation request
  GrantIds,       \* idempotency keys an administrator or a billing peer sends
  Amounts,        \* amounts that can be granted
  Budgets,        \* request_budget_usd as configured, per settings or per user
  Quotes,         \* what quote_usage can return for a request
  Minimum,        \* the least a request of the model can cost
  MaxCredit,      \* bound of the model: no grant raises a balance above it
  SkipRecovery,   \* settings.gateway_skip_call_recovery_on_startup
  NoKey, NoRef    \* "no key", "no idempotency key"

ASSUME RequestsAssumption == IsFiniteSet(Requests)
ASSUME MoneyAssumption ==
  /\ Amounts \subseteq Nat \ {0}
  /\ Budgets \subseteq Nat
  /\ Quotes \subseteq Nat
  /\ Minimum \in Nat
  /\ MaxCredit \in Nat
ASSUME NamesAssumption ==
  /\ NoKey \notin Keys
  /\ NoRef \notin GrantIds \cup Requests \cup Keys
  /\ GrantIds \cap Keys = {}   \* a sign-up grant is named new-user:<id>
  /\ SkipRecovery \in BOOLEAN

VARIABLES
  keyStatus,   \* api_keys.status
  credit,      \* api_keys.usd_credit
  bill,        \* billing_requests
  call,        \* call_records.status of the request
  ledger,      \* wallet_ledger in insertion order
  reserving,   \* requests inside reserve(), between its two statements
  boot         \* where start() of a (re)started process is

vars == <<keyStatus, credit, bill, call, ledger, reserving, boot>>

----------------------------------------------------------------------------
(* State helpers *)

KeyStates == {"absent", "active", "deleted"}
OpenStates == {"reserved", "pending"}
BillStates == {"none", "reserved", "pending", "settled", "released", "reversed"}
Outcomes == {"success", "failed"}   \* 'interrupted' is handled as 'failed' is
CallStates == Outcomes \cup {"none", "in_progress"}

Bills == [state: BillStates, key: Keys \cup {NoKey}, reserved: Nat,
          actual: Nat, charged: Nat, absorbed: Nat, expired: BOOLEAN]

NoBill == [state |-> "none", key |-> NoKey, reserved |-> 0,
           actual |-> 0, charged |-> 0, absorbed |-> 0, expired |-> FALSE]

Entries == [key: Keys, kind: {"grant", "usage", "reversal"},
            ref: GrantIds \cup Requests \cup Keys \cup {NoRef},
            amount: Int, balance: Int]

Least(a, b) == IF a <= b THEN a ELSE b

IsHeld(b) == b.state \in OpenStates

\* A fault to be caught: only expired holds that were never dispatched are let go.
ExpireReserved(b) ==
  IF b.state = "reserved" /\ b.expired THEN [b EXCEPT !.state = "released"] ELSE b
\* A fault to be caught: the state condition of the UPDATE is lost.
ExpireAny(b) == IF b.expired THEN [b EXCEPT !.state = "released"] ELSE b

\* The UPDATE of expire_reservations(), applied to one bill.
Expire(b) == IF IsHeld(b) /\ b.expired THEN [b EXCEPT !.state = "released"] ELSE b

\* _held(): the sum of reserved_usd over the key's open bills.
HoldsIn(b, k) == {r \in Requests : IsHeld(b[r]) /\ b[r].key = k}
HeldIn(b, k) == Total([r \in Requests |-> b[r].reserved], HoldsIn(b, k))
Held(k) == HeldIn(bill, k)

\* A fault to be caught: money already promised to other requests is offered again.
BalanceOnly(k) == credit[k]

Available(k) == credit[k] - Held(k)
BalanceCappedCharge(b, quote) == Least(quote, credit[b.key])

\* What settle() takes for a quoted usage.
Charge(b, quote) == Least(Least(quote, b.reserved), credit[b.key])

\* A fault to be caught: a second reversal of the same bill is let through.
ReversibleAgain(b) == b.state \notin {"none", "released"}

\* reverse() answers a reversed or released bill without touching it.
Reversible(b) == b.state \notin {"none", "released", "reversed"}

\* A fault to be caught: balance_after is written from the balance read before.
CreditKeyStale(k, n, kind, ref) ==
  /\ credit' = [credit EXCEPT ![k] = @ + n]
  /\ ledger' = Append(ledger, [key |-> k, kind |-> kind, ref |-> ref,
                               amount |-> n, balance |-> credit[k]])

\* _credit_key_balance: the balance and its ledger row change together.
CreditKey(k, n, kind, ref) ==
  /\ credit' = [credit EXCEPT ![k] = @ + n]
  /\ ledger' = Append(ledger, [key |-> k, kind |-> kind, ref |-> ref,
                               amount |-> n, balance |-> credit[k] + n])

\* An earlier grant carries this idempotency key.
Granted(g) == \E i \in DOMAIN ledger : ledger[i].kind = "grant" /\ ledger[i].ref = g

----------------------------------------------------------------------------
Init ==
  /\ keyStatus = [k \in Keys |-> "absent"]
  /\ credit = [k \in Keys |-> 0]
  /\ bill = [r \in Requests |-> NoBill]
  /\ call = [r \in Requests |-> "none"]
  /\ ledger = << >>
  /\ reserving = [r \in Requests |-> NoKey]
  /\ boot = "up"

(* Keys and grants *)

\* A key is created with the sign-up grant (portal) or with nothing
\* (create_api_key); only a positive grant is written to the ledger.
CreateKey(k, n) ==
  /\ keyStatus[k] = "absent"
  /\ n <= MaxCredit
  /\ keyStatus' = [keyStatus EXCEPT ![k] = "active"]
  /\ IF n > 0 THEN CreditKey(k, n, "grant", k) ELSE UNCHANGED <<credit, ledger>>
  /\ UNCHANGED <<bill, call, reserving, boot>>

\* delete_api_key keeps the row, its balance and its open bills.
DeleteKey(k) ==
  /\ keyStatus[k] = "active"
  /\ keyStatus' = [keyStatus EXCEPT ![k] = "deleted"]
  /\ UNCHANGED <<credit, bill, call, ledger, reserving, boot>>

\* The UPDATE of rotate_api_key sets status='active' whatever the status is
\* by then: the check that the key is not deleted was an earlier statement.
RotateKey(k) ==
  /\ keyStatus[k] = "deleted"
  /\ keyStatus' = [keyStatus EXCEPT ![k] = "active"]
  /\ UNCHANGED <<credit, bill, call, ledger, reserving, boot>>

\* grant_key_credit, grant_credit and credit_from_hmac: a known idempotency
\* key answers with the earlier grant and changes nothing.
Grant(k, n, g) ==
  /\ g # NoRef => ~Granted(g)
  /\ keyStatus[k] = "active"
  /\ credit[k] + n <= MaxCredit
  /\ CreditKey(k, n, "grant", g)
  /\ UNCHANGED <<keyStatus, bill, call, reserving, boot>>

----------------------------------------------------------------------------
(* Holds *)

ExpireReservations ==
  /\ bill' = [r \in Requests |-> Expire(bill[r])]
  /\ UNCHANGED <<keyStatus, credit, call, ledger, reserving, boot>>

\* reserve(), first statement: expired holds are released.
ReserveBegin(r, k) ==
  /\ reserving[r] = NoKey
  /\ keyStatus[k] # "absent"
  /\ reserving' = [reserving EXCEPT ![r] = k]
  /\ bill' = [s \in Requests |-> Expire(bill[s])]
  /\ UNCHANGED <<keyStatus, credit, call, ledger, boot>>

\* reserve(), the transaction: a new hold takes everything that is available,
\* up to the configured request budget.
ReserveHold(r, cap) ==
  LET k == reserving[r]
      budget == Least(Available(k), cap)
  IN /\ k # NoKey
     /\ keyStatus[k] # "deleted"
     /\ bill[r].state = "none"
     /\ budget > 0
     /\ Minimum <= budget
     /\ bill' = [bill EXCEPT ![r] = [NoBill EXCEPT !.state = "reserved", !.key = k,
                                                   !.reserved = budget]]
     /\ reserving' = [reserving EXCEPT ![r] = NoKey]
     /\ UNCHANGED <<keyStatus, credit, call, ledger, boot>>

\* reserve(), the transaction, when it raises (403, 409, 402) or finds the
\* request's own hold and returns.
ReserveReturn(r, cap) ==
  LET k == reserving[r]
      budget == Least(Available(k), cap)
  IN /\ k # NoKey
     /\ \/ keyStatus[k] = "deleted"
        \/ bill[r].state # "none"
        \/ budget <= 0
        \/ Minimum > budget
     /\ reserving' = [reserving EXCEPT ![r] = NoKey]
     /\ UNCHANGED <<keyStatus, credit, bill, call, ledger, boot>>

\* settle() on an open bill whose expires_at has passed.
SettleExpired(r) ==
  /\ IsHeld(bill[r]) /\ bill[r].expired
  /\ bill' = [bill EXCEPT ![r].state = "released"]
  /\ UNCHANGED <<keyStatus, credit, call, ledger, reserving, boot>>

\* settle() without a usage report: only a dispatched success can still get one.
SettleUnmetered(r, outcome, dispatched) ==
  /\ IsHeld(bill[r]) /\ ~bill[r].expired
  /\ bill' = [bill EXCEPT ![r].state =
                IF dispatched /\ outcome = "success" THEN "pending" ELSE "released"]
  /\ UNCHANGED <<keyStatus, credit, call, ledger, reserving, boot>>

\* settle() with a usage report that quote_usage prices at quote.  The branch
\* for a missing api_keys row is not modelled: no statement deletes one.
SettleQuoted(r, quote) ==
  LET b == bill[r]
      charged == Charge(b, quote)
  IN /\ IsHeld(b) /\ ~b.expired
     /\ CreditKey(b.key, -charged, "usage", r)
     /\ bill' = [bill EXCEPT ![r] = [b EXCEPT !.state = "settled", !.actual = quote,
                                             !.charged = charged,
                                             !.absorbed = quote - charged]]
     /\ UNCHANGED <<keyStatus, call, reserving, boot>>

\* reverse(): gives back what was charged, and closes an open bill for good.
Reverse(r) ==
  LET b == bill[r]
  IN /\ Reversible(b)
     /\ CreditKey(b.key, b.charged, "reversal", r)
     /\ bill' = [bill EXCEPT ![r].state = "reversed"]
     /\ UNCHANGED <<keyStatus, call, reserving, boot>>

\* Twenty-four hours go by after the hold was taken.
TimePasses(r) ==
  /\ IsHeld(bill[r]) /\ ~bill[r].expired
  /\ bill' = [bill EXCEPT ![r].expired = TRUE]
  /\ UNCHANGED <<keyStatus, credit, call, ledger, reserving, boot>>

----------------------------------------------------------------------------
(* Call records, and what start() does with the bills of earlier processes.
   prune_calls() is left out: it deletes records older than a day, and by
   then their holds have expired.                                          *)

BeginCall(r) ==
  /\ bill[r].state # "none" /\ call[r] = "none"
  /\ call' = [call EXCEPT ![r] = "in_progress"]
  /\ UNCHANGED <<keyStatus, credit, bill, ledger, reserving, boot>>

FinalizeCall(r, status) ==
  /\ call[r] = "in_progress"
  /\ call' = [call EXCEPT ![r] = status]
  /\ UNCHANGED <<keyStatus, credit, bill, ledger, reserving, boot>>

\* start(): four statements, between which another process of the same
\* database may run.  A process that dies in reserve() forgets its request.
Restart ==
  /\ bill' = [r \in Requests |-> Expire(bill[r])]
  /\ reserving' = [r \in Requests |-> NoKey]
  /\ boot' = IF SkipRecovery THEN "release" ELSE "recover"
  /\ UNCHANGED <<keyStatus, credit, call, ledger>>

RecoverCalls ==
  /\ boot = "recover"
  /\ call' = [r \in Requests |-> IF call[r] = "in_progress" THEN "failed" ELSE call[r]]
  /\ boot' = "release"
  /\ UNCHANGED <<keyStatus, credit, bill, ledger, reserving>>

ReleaseFailed ==
  /\ boot = "release"
  /\ bill' = [r \in Requests |->
                IF bill[r].state = "reserved" /\ call[r] = "failed"
                THEN [bill[r] EXCEPT !.state = "released"] ELSE bill[r]]
  /\ boot' = "pend"
  /\ UNCHANGED <<keyStatus, credit, call, ledger, reserving>>

PendFinished ==
  /\ boot = "pend"
  /\ bill' = [r \in Requests |->
                IF bill[r].state = "reserved" /\ call[r] \in Outcomes
                THEN [bill[r] EXCEPT !.state = "pending"] ELSE bill[r]]
  /\ boot' = "up"
  /\ UNCHANGED <<keyStatus, credit, call, ledger, reserving>>

----------------------------------------------------------------------------
Admin ==
  \E k \in Keys :
    \/ \E n \in Amounts \cup {0} : CreateKey(k, n)
    \/ DeleteKey(k)
    \/ RotateKey(k)
    \/ \E n \in Amounts, g \in GrantIds \cup {NoRef} : Grant(k, n, g)

Hold ==
  \E r \in Requests :
    \/ \E k \in Keys : ReserveBegin(r, k)
    \/ \E cap \in Budgets : ReserveHold(r, cap) \/ ReserveReturn(r, cap)

Close ==
  \E r \in Requests :
    \/ SettleExpired(r)
    \/ \E outcome \in Outcomes, dispatched \in BOOLEAN :
         SettleUnmetered(r, outcome, dispatched)
    \/ \E quote \in Quotes : SettleQuoted(r, quote)
    \/ Reverse(r)
    \/ TimePasses(r)

Calls ==
  \E r \in Requests :
    \/ BeginCall(r)
    \/ \E status \in Outcomes : FinalizeCall(r, status)

Startup == Restart \/ RecoverCalls \/ ReleaseFailed \/ PendFinished

Next == Admin \/ Hold \/ Close \/ Calls \/ Startup \/ ExpireReservations

Spec == Init /\ [][Next]_vars

\* The maintenance loop runs expire_reservations() every minute, and time
\* passes; nothing else is assumed to happen.
FairSpec ==
  /\ Spec
  /\ WF_vars(ExpireReservations)
  /\ \A r \in Requests : WF_vars(TimePasses(r))

----------------------------------------------------------------------------
(* Properties *)

\* Type invariant: rows keep their shape and no balance is ever negative
\* (api_keys, billing_requests, wallet_ledger, call_records).
TypeOK ==
  /\ keyStatus \in [Keys -> KeyStates]
  /\ credit \in [Keys -> Nat]
  /\ bill \in [Requests -> Bills]
  /\ call \in [Requests -> CallStates]
  /\ ledger \in Seq(Entries)
  /\ reserving \in [Requests -> Keys \cup {NoKey}]
  /\ boot \in {"up", "recover", "release", "pend"}

\* The holds of a key never exceed its balance, through any order of
\* reservations, settlements, reversals, expiry, key deletion and restarts:
\* two requests can never be promised the same money (reserve, settle).
Solvent == \A k \in Keys : Held(k) <= credit[k]

\* A settled request is charged what its usage costs up to its own hold: the
\* third term of settle()'s min(), the balance, never decides, so another
\* request can not eat into this one's money; the rest is absorbed.
ExactCharge ==
  \A r \in Requests : bill[r].state = "settled" =>
    /\ bill[r].charged = Least(bill[r].actual, bill[r].reserved)
    /\ bill[r].absorbed = bill[r].actual - bill[r].charged

RowsOf(l, kind, r) == {i \in DOMAIN l : l[i].kind = kind /\ l[i].ref = r}
EntriesOf(kind, r) == RowsOf(ledger, kind, r)

BillAndLedgerAgree(r) ==
  /\ Cardinality(EntriesOf("usage", r)) <= 1
  /\ Cardinality(EntriesOf("reversal", r)) <= 1
  /\ \A i \in EntriesOf("usage", r) :
       /\ bill[r].state \in {"settled", "reversed"}
       /\ ledger[i].key = bill[r].key /\ ledger[i].amount = -bill[r].charged
  /\ \A i \in EntriesOf("reversal", r) :
       /\ bill[r].state = "reversed"
       /\ ledger[i].key = bill[r].key /\ ledger[i].amount = bill[r].charged
  /\ bill[r].state = "settled" => EntriesOf("usage", r) # {}
  /\ bill[r].state = "reversed" => EntriesOf("reversal", r) # {}
  /\ bill[r].charged > 0 => EntriesOf("usage", r) # {}

\* Bill and ledger agree: a request has at most one usage row and at most one
\* reversal row, the usage row takes exactly charged_usd, the reversal row
\* gives exactly it back, and a request that was released, or reversed while
\* still held, was never charged (settle, reverse, recovery at startup).
BillMatchesLedger == \A r \in Requests : BillAndLedgerAgree(r)

\* v is the balance_after of the key's last row among the first n rows of l,
\* or 0 when it has none.
IsLastBalance(l, k, n, v) ==
  \/ v = 0 /\ \A j \in 1..n : l[j].key # k
  \/ \E i \in 1..n : l[i].key = k /\ l[i].balance = v /\ \A j \in (i + 1)..n : l[j].key # k

\* The ledger alone explains every balance: each row's balance_after is the
\* balance_after of the key's previous row plus its own amount, and the last
\* row of a key shows its current balance (_credit_key_balance and the
\* sign-up grant).
LedgerExplainsBalance ==
  /\ \A i \in 1..Len(ledger) :
       IsLastBalance(ledger, ledger[i].key, i - 1, ledger[i].balance - ledger[i].amount)
  /\ \A k \in Keys : IsLastBalance(ledger, k, Len(ledger), credit[k])

\* One idempotency key credits at most once, whoever repeats the call and
\* whichever key the repetition names (grant_credit, grant_key_credit,
\* credit_from_hmac).
GrantOnce == \A g \in GrantIds : Cardinality(EntriesOf("grant", g)) <= 1

\* The ledger is the whole truth about the money: whoever reads it, a balance
\* is the sum of its rows and no credit is in it twice (wallet_ledger).
LedgerIsTrue == LedgerExplainsBalance /\ GrantOnce

StaysClosed(r) ==
  /\ bill[r].state = "released" => bill'[r].state = "released"
  /\ bill[r].state = "reversed" => bill'[r].state = "reversed"
  /\ bill[r].state = "settled" =>
       /\ bill'[r].state \in {"settled", "reversed"}
       /\ bill'[r].charged = bill[r].charged
  /\ bill[r].state = "pending" => bill'[r].state # "reserved"
  /\ bill[r].state # "none" =>
       bill'[r].key = bill[r].key /\ bill'[r].reserved = bill[r].reserved

\* A closed bill stays closed: once released it is never charged, once
\* reversed it never changes, and a charge can only be undone by a reversal;
\* the hold itself (key, amount) is never rewritten.
ClosedForGood == [][\A r \in Requests : StaysClosed(r)]_vars

\* No hold freezes a wallet forever: every open bill is eventually settled,
\* released or reversed, even if the process that took it is gone.
EveryHoldEnds == \A r \in Requests : IsHeld(bill[r]) ~> ~IsHeld(bill[r])
=============================================================================
