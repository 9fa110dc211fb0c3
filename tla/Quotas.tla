------------------------------- MODULE Quotas -------------------------------
(***************************************************************************)
(* What the console shows of the accounts' quotas, and the credits that    *)
(* reset one: account_quotas(), _account_quota(), reset_account_quota() of *)
(* src/app/codex_gateway.py.                                               *)
(*                                                                         *)
(* The quota of an account is the number of times it was reset.  A fetcher *)
(* is the part of a list, or of a reset, that asks for one account.        *)
(***************************************************************************)
EXTENDS Integers, FiniteSets

CONSTANTS Accounts, Lists, Resets, Nobody,
          Provider,       \* of an account: codex, grok, metered, antigravity, workbuddy
          AccountOf,      \* the account a reset is for
          Slots,          \* gateway_quota_max_concurrency
          MaxAge,         \* gateway_quota_cache_seconds, in ticks
          NewKeyEachTry,  \* what the client of the reset does with its key
          MaxTime, MaxTries   \* bounds of the model

BoundsAssumption ==
  /\ Slots \in Nat \ {0} /\ MaxAge \in Nat \ {0} /\ MaxTime \in Nat /\ MaxTries \in Nat
  /\ Provider \in [Accounts -> {"codex", "grok", "metered", "antigravity", "workbuddy"}]
  /\ \A r \in Resets : Provider[AccountOf[r]] = "codex"
  /\ AccountOf \in [Resets -> Accounts] /\ NewKeyEachTry \in BOOLEAN
  /\ Lists \cap Resets = {}
  /\ Nobody \notin (Lists \X Accounts) \cup {<<r, AccountOf[r]>> : r \in Resets}

VARIABLES
  now,
  quota,    \* the provider's: how many times the account was reset
  redeemed, \* the provider's: the redeem_request_id values it has seen
  cache,    \* _quota_cache
  lock,     \* _quota_locks
  resetting,\* _quota_reset_locks
  fetcher,  \* pc, what it read of the cache, what the provider said, its answer
  refresh,  \* lists that were asked to refresh
  reset     \* pc, how many tries, the credits it has cost, what its post made

vars == <<now, quota, redeemed, cache, lock, resetting, fetcher, refresh, reset>>

Fetchers == (Lists \X Accounts) \cup {<<r, AccountOf[r]>> : r \in Resets}
Account(f) == f[2]
ListOf(l) == {f \in Fetchers : f[1] = l}
Nothing == [at |-> -1, quota |-> -1]
Answer(entry, stale, cached) == [quota |-> entry.quota, at |-> entry.at, stale |-> stale, cached |-> cached]
NoAnswer == Answer(Nothing, TRUE, FALSE)
Idle == [pc |-> "idle", held |-> Nothing, seen |-> -1, answer |-> NoAnswer]
Asking == {"asking", "again", "details", "told"}
Versions == -1..(Cardinality(Resets) * MaxTries)

TypeOK ==
  /\ now \in 0..MaxTime
  /\ quota \in [Accounts -> Versions] /\ redeemed \subseteq Resets \X (0..MaxTries)
  /\ cache \in [Accounts -> [at : -1..MaxTime, quota : Versions]]
  /\ lock \in [Accounts -> Fetchers \cup {Nobody}] /\ resetting \in [Accounts -> Resets \cup {Nobody}]
  /\ \A f \in Fetchers :
       /\ fetcher[f].pc \in {"idle", "queued", "waiting", "asking", "again", "details", "told", "done"}
       /\ fetcher[f].pc \in Asking <=> lock[Account(f)] = f
  /\ refresh \subseteq Lists
  /\ \A r \in Resets : reset[r].pc \in {"idle", "waiting", "posting", "reading", "unknown", "done"}

Init ==
  /\ now = 0 /\ quota = [a \in Accounts |-> 0] /\ redeemed = {} /\ refresh = {}
  /\ cache = [a \in Accounts |-> Nothing]
  /\ lock = [a \in Accounts |-> Nobody] /\ resetting = [a \in Accounts |-> Nobody]
  /\ fetcher = [f \in Fetchers |-> Idle]
  /\ reset = [r \in Resets |-> [pc |-> "idle", tries |-> 0, cost |-> 0, made |-> 0]]

Tick == now < MaxTime /\ now' = now + 1 /\ UNCHANGED <<quota, redeemed, cache, lock, resetting, fetcher, refresh, reset>>

-----------------------------------------------------------------------------
(* The fetcher: _account_quota().                                          *)

Fresh(a) == cache[a] # Nothing /\ now - cache[a].at < MaxAge
Wants(f) == f[1] \in refresh \cup Resets
Done(f, answer) == fetcher' = [fetcher EXCEPT ![f].pc = "done", ![f].answer = answer]
FromCache(f) == Done(f, Answer(cache[Account(f)], FALSE, TRUE))

\* account_quotas() starts one fetcher of every account, each with its slot.
BeginList(l, again) ==
  /\ \A f \in ListOf(l) : fetcher[f].pc = "idle"
  /\ fetcher' = [f \in Fetchers |-> IF f[1] = l THEN [Idle EXCEPT !.pc = "queued"] ELSE fetcher[f]]
  /\ refresh' = IF again THEN refresh \cup {l} ELSE refresh
  /\ UNCHANGED <<now, quota, redeemed, cache, lock, resetting, reset>>

Busy(l) == {f \in ListOf(l) : fetcher[f].pc \in {"waiting"} \cup Asking}
Enter(f) ==
  /\ fetcher[f].pc = "queued" /\ Cardinality(Busy(f[1])) < Slots
  /\ IF ~Wants(f) /\ Fresh(Account(f)) THEN FromCache(f)
     ELSE fetcher' = [fetcher EXCEPT ![f].pc = "waiting"]
  /\ UNCHANGED <<now, quota, redeemed, cache, lock, resetting, refresh, reset>>
MayLock(f) == lock[Account(f)] = Nobody
Lock(f) ==
  /\ fetcher[f].pc = "waiting" /\ MayLock(f)
  /\ IF ~Wants(f) /\ Fresh(Account(f)) THEN FromCache(f) /\ UNCHANGED lock
     ELSE /\ lock' = [lock EXCEPT ![Account(f)] = f]
          /\ fetcher' = [fetcher EXCEPT ![f].pc = "asking", ![f].held = cache[Account(f)]]
  /\ UNCHANGED <<now, quota, redeemed, cache, resetting, refresh, reset>>

\* The provider looks at the account, and its answer takes its time.
To(f, pc) == fetcher' = [fetcher EXCEPT ![f].pc = pc, ![f].seen = quota[Account(f)]]
Unmoved == UNCHANGED <<now, quota, redeemed, cache, lock, resetting, refresh, reset>>

\* _fetch_account_quota(): the usage, and then the details of the credits; these
\* may fail, and the quota is shown without them.
LookCodex(f) ==
  /\ Provider[Account(f)] = "codex" /\ fetcher[f].pc = "asking"
  /\ To(f, "details") /\ Unmoved
Details(f) ==
  /\ fetcher[f].pc = "details"
  /\ fetcher' = [fetcher EXCEPT ![f].pc = "told"] /\ Unmoved

\* _fetch_workbuddy_account_quota(), and _fetch_grok_account_quota(), where a key
\* that is metered has no quota to ask for: one request.
AsksOnce(a) == Provider[a] \in {"workbuddy", "grok", "metered"}
LookOnce(f) ==
  /\ AsksOnce(Account(f)) /\ fetcher[f].pc = "asking"
  /\ To(f, "told") /\ Unmoved

\* _fetch_antigravity_account_quota(): a 401 refreshes the token, once.
LookAntigravity(f) ==
  /\ Provider[Account(f)] = "antigravity"
  /\ \/ fetcher[f].pc \in {"asking", "again"} /\ To(f, "told")
     \/ fetcher[f].pc = "asking" /\ To(f, "again")
  /\ Unmoved

Store(f) ==
  LET entry == [at |-> now, quota |-> fetcher[f].seen]
  IN  /\ fetcher[f].pc = "told"
      /\ cache' = [cache EXCEPT ![Account(f)] = entry]
      /\ lock' = [lock EXCEPT ![Account(f)] = Nobody]
      /\ Done(f, Answer(entry, FALSE, FALSE))
      /\ UNCHANGED <<now, quota, redeemed, resetting, refresh, reset>>

\* _quota_failure(): a timeout, an error or nonsense; what was in the cache is
\* shown as stale.
NotMarked(f) == Answer(fetcher[f].held, fetcher[f].held = Nothing, TRUE)
Failure(f) == Answer(fetcher[f].held, TRUE, fetcher[f].held # Nothing)
MayFail(f) == \/ fetcher[f].pc \in {"asking", "again"} /\ Provider[Account(f)] # "metered"
              \/ fetcher[f].pc = "told" /\ Provider[Account(f)] \notin {"codex", "metered"}
Fail(f) ==
  /\ MayFail(f) /\ Done(f, Failure(f))
  /\ lock' = [lock EXCEPT ![Account(f)] = Nobody]
  /\ UNCHANGED <<now, quota, redeemed, cache, resetting, refresh, reset>>

-----------------------------------------------------------------------------
(* The reset: reset_account_quota().                                       *)

Ask(r) ==
  /\ reset[r].pc \in {"idle", "unknown"} /\ reset[r].tries < MaxTries
  /\ reset' = [reset EXCEPT ![r].pc = "waiting", ![r].tries = @ + 1]
  /\ UNCHANGED <<now, quota, redeemed, cache, lock, resetting, fetcher, refresh>>

LockReset(r) ==
  /\ reset[r].pc = "waiting" /\ resetting[AccountOf[r]] = Nobody
  /\ resetting' = [resetting EXCEPT ![AccountOf[r]] = r]
  /\ reset' = [reset EXCEPT ![r].pc = "posting"]
  /\ UNCHANGED <<now, quota, redeemed, cache, lock, fetcher, refresh>>

\* The provider redeems a request once; "made" is the quota the post left.
TryKey(r) == <<r, reset[r].tries>>
Key(r) == IF NewKeyEachTry THEN TryKey(r) ELSE <<r, 0>>
Redeem(r) ==
  /\ redeemed' = redeemed \cup {Key(r)}
  /\ IF Key(r) \in redeemed
     THEN UNCHANGED quota /\ reset' = [reset EXCEPT ![r].made = quota[AccountOf[r]]]
     ELSE /\ quota' = [quota EXCEPT ![AccountOf[r]] = @ + 1]
          /\ reset' = [reset EXCEPT ![r].cost = @ + 1, ![r].made = quota'[AccountOf[r]]]
PostArrives(r) ==
  /\ reset[r].pc = "posting" /\ reset[r].made = 0 /\ Redeem(r)
  /\ UNCHANGED <<now, cache, lock, resetting, fetcher, refresh>>

\* An answer: the snapshot is dropped, and fetched again.
Forget(a) == [cache EXCEPT ![a] = Nothing]
Start(r) == [fetcher EXCEPT ![<<r, AccountOf[r]>>] = [Idle EXCEPT !.pc = "waiting"]]
PostAnswered(r) ==
  /\ reset[r].pc = "posting" /\ reset[r].made # 0
  /\ cache' = Forget(AccountOf[r])
  /\ fetcher' = Start(r)
  /\ reset' = [reset EXCEPT ![r].pc = "reading"]
  /\ UNCHANGED <<now, quota, redeemed, lock, resetting, refresh>>

\* A timeout or a lost connection: the result is unknown; a later try may meet
\* a post that has arrived.
PostLost(r) ==
  /\ reset[r].pc = "posting"
  /\ resetting' = [resetting EXCEPT ![AccountOf[r]] = Nobody]
  /\ reset' = [reset EXCEPT ![r].pc = "unknown", ![r].made = 0]
  /\ UNCHANGED <<now, quota, redeemed, cache, lock, fetcher, refresh>>

Answered(r) ==
  /\ reset[r].pc = "reading" /\ fetcher[<<r, AccountOf[r]>>].pc = "done"
  /\ resetting' = [resetting EXCEPT ![AccountOf[r]] = Nobody]
  /\ reset' = [reset EXCEPT ![r].pc = "done"]
  /\ UNCHANGED <<now, quota, redeemed, cache, lock, fetcher, refresh>>

Next ==
  \/ Tick
  \/ \E l \in Lists, again \in BOOLEAN : BeginList(l, again)
  \/ \E f \in Fetchers :
       \/ Enter(f) \/ Lock(f) \/ Store(f) \/ Fail(f)
       \/ LookCodex(f) \/ Details(f) \/ LookOnce(f) \/ LookAntigravity(f)
  \/ \E r \in Resets : Ask(r) \/ LockReset(r) \/ PostArrives(r) \/ PostAnswered(r) \/ PostLost(r) \/ Answered(r)

Moves(f) == LookCodex(f) \/ Details(f) \/ LookOnce(f) \/ LookAntigravity(f) \/ Store(f) \/ Fail(f)
Spec == Init /\ [][Next]_vars

\* Every await of a fetcher ends: the locks are fair, the slots are given back,
\* and the provider's answer has a timeout.
FairSpec ==
  /\ Spec
  /\ \A f \in Fetchers : SF_vars(Enter(f) \/ Lock(f)) /\ WF_vars(Moves(f))

-----------------------------------------------------------------------------
(* What must hold.                                                         *)

\* What is not marked stale is younger than the cache's age: it was fetched now
\* or less than MaxAge ago, and it is something.
Young(f) ==
  LET answer == fetcher'[f].answer
  IN  ~answer.stale => answer.at >= 0 /\ now - answer.at < MaxAge
FreshIsYoung == [][\A f \in Fetchers : fetcher[f].pc # "done" /\ fetcher'[f].pc = "done" => Young(f)]_vars

\* The answer of a reset, unless it says stale, shows the quota after it: a
\* fetch that was under way when the post was made cannot slip in.
ResetIsSeen ==
  \A r \in Resets : reset[r].pc = "done" =>
    LET answer == fetcher[<<r, AccountOf[r]>>].answer IN answer.stale \/ answer.quota >= reset[r].made

\* The cache never goes back to an older quota: the fetches of an account
\* follow one another.
NeverBackwards ==
  [][\A a \in Accounts : cache[a] # Nothing /\ cache'[a] # Nothing => cache'[a].quota >= cache[a].quota]_vars

\* Whoever retries a reset with its idempotency key pays once.
PaidOnce == \A r \in Resets : reset[r].cost <= 1
=============================================================================
