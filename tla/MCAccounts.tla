------------------------------ MODULE MCAccounts ------------------------------
(* The accounts of the providers, side by side: the conversations they hold    *)
(* (RoutingLeases itself), their health, the routes of the keys, logins,       *)
(* credentials, quotas and the pool of connections to them.  As in MCMoney     *)
(* they share no variable, and "part" is the one that moves.                   *)
EXTENDS RoutingLeases

CONSTANT Nobody   \* no fetch holds a lock of Quotas

VARIABLES part,
  status, cooling, failures, health, call, admin, past,              \* Health
  route, streak, turn, locked, operator, bad,                        \* Route
  session, client, task, row, stored,                                \* Login
  file, usable, refreshing, req, issued, valid, logins, lost,        \* Credential
  now, quota, redeemed, cache, lock, resetting, fetcher, refresh, reset,  \* Quota
  current, made, open, retirement, request, closing, hand, exhausted  \* Connection

-----------------------------------------------------------------------------
(* The instances.                                                          *)

Health == INSTANCE AccountHealth WITH
  Accounts <- {"a1"}, NoAccount <- "nobody", Requests <- {"r1", "r2"}, Admins <- {"d1", "d2"},
  Threshold <- 2, ModelLimit <- 2, task <- call

Route == INSTANCE KeyRoutes WITH
  Accounts <- {"a1", "a2"}, Keys <- {"k1"}, NoAccount <- "nobody", Requests <- {"r1", "r2"}, Admins <- {"d1"},
  task <- turn, admin <- operator

\* A login with its loopback server, one by device code and one by polling.
Modes == [code |-> "loopback", device |-> "device", poll |-> "poll"]
Brings == [code |-> {"a1", "a2"}, device |-> {"a1"}, poll |-> {"a2"}]
Login == INSTANCE OauthLogin WITH
  Logins <- {"code", "device", "poll"}, Mode <- Modes, AccountsOf <- Brings, Tasks <- {"t1", "t2"},
  MaxPending <- 2, account <- row

Credential == INSTANCE Credentials WITH
  Requests <- {"r1", "r2", "r3"}, Google <- FALSE, MaxTokens <- 3, MaxLogins <- 1,
  status <- usable, lock <- refreshing

\* A list and two resets of one account, the console repeating its key.
Quota == INSTANCE Quotas WITH
  Accounts <- {"a1"}, Lists <- {"l1"}, Resets <- {"r1", "r2"}, Nobody <- Nobody,
  Provider <- [a \in {"a1"} |-> "codex"], AccountOf <- [r \in {"r1", "r2"} |-> "a1"],
  Slots <- 1, MaxAge <- 1, NewKeyEachTry <- FALSE, MaxTime <- 1, MaxTries <- 2

\* One connection a pool, two pools to replace, and a drain longer than the wait.
Connection == INSTANCE HttpPool WITH
  Requests <- {"r1", "r2"}, Connections <- 1, Wait <- 1, Drain <- 3, MaxClients <- 3

ASSUME Health!HealthNames /\ Health!HealthLimits /\ Route!RouteNames
ASSUME Login!ModeAssumption /\ Login!MaxPendingAssumption
ASSUME Credential!BoundAssumption /\ Quota!BoundsAssumption /\ Connection!PoolAssumption

-----------------------------------------------------------------------------
(* One of them moves.                                                      *)

healths == <<status, cooling, failures, health, call, admin, past>>
routes == <<route, streak, turn, locked, operator, bad>>
oauth == <<session, client, task, row, stored>>
tokens == <<file, usable, refreshing, req, issued, valid, logins, lost>>
quotas == <<now, quota, redeemed, cache, lock, resetting, fetcher, refresh, reset>>
pools == <<current, made, open, retirement, request, closing, hand, exhausted>>
vars == <<part, lvars, healths, routes, oauth, tokens, quotas, pools>>

AllInit ==
  /\ part \in {"leases", "health", "routes", "logins", "tokens", "quotas", "pools"}
  /\ Init /\ Health!Init /\ Route!Init /\ Login!Init /\ Credential!Init /\ Quota!Init /\ Connection!Init

Moves(p) ==
  /\ part = p /\ part' = part
  /\ IF p = "leases" THEN TRUE ELSE UNCHANGED lvars
  /\ IF p = "health" THEN TRUE ELSE UNCHANGED healths
  /\ IF p = "routes" THEN TRUE ELSE UNCHANGED routes
  /\ IF p = "logins" THEN TRUE ELSE UNCHANGED oauth
  /\ IF p = "tokens" THEN TRUE ELSE UNCHANGED tokens
  /\ IF p = "quotas" THEN TRUE ELSE UNCHANGED quotas
  /\ IF p = "pools" THEN TRUE ELSE UNCHANGED pools

AllNext ==
  \/ Moves("leases") /\ Next
  \/ Moves("health") /\ Health!Next
  \/ Moves("routes") /\ Route!Next
  \/ Moves("logins") /\ Login!Next
  \/ Moves("tokens") /\ Credential!Next
  \/ Moves("quotas") /\ Quota!Next
  \/ Moves("pools") /\ Connection!Next

AllSpec == AllInit /\ [][AllNext]_vars

-----------------------------------------------------------------------------
(* What they keep, besides HistoryAtHand of RoutingLeases.                  *)

\* A model is cooled on an account for failures of one window only; and a removed
\* or disabled account is used again only when somebody brought it back who may,
\* or when a request that had begun before overwrote what was done to it
\* (_route_failure, _mark_invalid, set_account_status, restore_model).
HealthEarned == [](part = "health" => Health!TypeOK /\ Health!BackByHand) /\ Health!CooledForCause

\* Whoever is blamed for failures in a row on a key had them, whatever the key
\* did meanwhile; and no selection, failover or retry sets, moves or drops an
\* administrator's preference, not even one that had decided before it was set
\* (_route_failure, _fallback_account, _save_active_route).
RoutesAreEarned == [](part = "routes" => Route!TypeOK /\ Route!StreakEarned) /\ Route!PreferenceKept

\* A login is worked on by one request at a time, one that is shown as completed
\* has written every account it brought, and no client of it stays open for
\* nothing (oauth_status, complete_oauth, _finish_oauth_import).
LoginsAreWhole ==
  part = "logins" => Login!TypeOK /\ Login!OneAtATime /\ Login!CompletedIsStored /\ Login!NoClientLeft

\* As long as no answer was lost, the token on disk is one that the provider
\* accepts, and so is each that a request asks with: none is spent twice, and no
\* account is marked invalid because another request was faster (_refresh).  A
\* pool of connections is replaced only when a request waited on it in vain,
\* whoever else did meanwhile; none is left open for nothing, and while the
\* gateway is up its streams have the drain time to end (rotate_shared_client).
UpstreamsAreReached ==
  /\ [](part = "tokens" => Credential!TypeOK /\ Credential!FileIsGood /\ Credential!NeverRefused)
  /\ [](part = "pools" => Connection!TypeOK /\ Connection!RetiredForCause /\ Connection!NoneForgotten)
  /\ Connection!DrainedFirst

\* The answer of a reset shows the quota after it or says that it is stale, and
\* whoever retries a reset with its key pays once; what is not marked stale is
\* younger than the cache's age, and the cache never goes back to an older quota
\* (reset_account_quota, _account_quota).
QuotasAreTrue ==
  /\ [](part = "quotas" => Quota!TypeOK /\ Quota!ResetIsSeen /\ Quota!PaidOnce)
  /\ Quota!FreshIsYoung /\ Quota!NeverBackwards
=============================================================================
