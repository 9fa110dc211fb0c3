------------------------------- MODULE MCWaiting -------------------------------
(* Everybody who waits for something, side by side: pictures, files, moves of  *)
(* a key, logins, tokens, quotas, videos and calls of the store.  As in        *)
(* MCMoney the components share no variable, and "part" is the one that moves. *)
(* Requests that differ in nothing and come again and again stand for each     *)
(* other: the first of them is watched.  Where the waits are few, all of them  *)
(* are, and none may last.                                                     *)
EXTENDS StoreQueue, Integers

CONSTANT Nobody   \* no fetch holds a lock of Quotas

VARIABLES part,
  place, picture, hold, charge, permits, spilt,                                  \* Picture
  hour, disk, rows, creating, late, removing, prune, linked, dropped, safe, tool, restarts,  \* File
  route, streak, turn, locked, operator, bad,                                    \* Route
  session, client, task, row, stored,                                            \* Login
  file, usable, refreshing, req, issued, valid, logins, lost,                    \* Token
  now, quota, redeemed, cache, held, resetting, fetcher, refresh, reset,         \* Quota
  render, submit, bill, jobs, poll, round, account, early                        \* Video

-----------------------------------------------------------------------------
(* The instances.                                                          *)

\* Two calls, each with a picture, and the permits for one and a half of them.
Picture == INSTANCE Pictures WITH
  Requests <- {"r1", "r2"}, Accounts <- {"a1"}, NoAccount <- "nobody", Limit <- 2, Afford <- 1, MaxData <- 1,
  Kinds <- {"endpoint", "hosted"}, Turns <- {<<"image">>},
  pc <- place, call <- picture, bill <- charge, free <- permits, lost <- spilt

\* An upload, and a picture of a tool call.
File == INSTANCE Artifacts WITH
  Ids <- {"u1", "t1"}, Life <- [id \in {"u1", "t1"} |-> 1], Tool <- {"t1"},
  MaxTime <- 1, MaxRestarts <- 1, clock <- hour

Route == INSTANCE KeyRoutes WITH
  Accounts <- {"a1", "a2"}, Keys <- {"k1"}, NoAccount <- "nobody", Requests <- {"r1", "r2"}, Admins <- {},
  task <- turn, admin <- operator

Modes == [code |-> "loopback", device |-> "device"]
Brings == [code |-> {"a1", "a2"}, device |-> {"a1"}]
Login == INSTANCE OauthLogin WITH
  Logins <- {"code", "device"}, Mode <- Modes, AccountsOf <- Brings, Tasks <- {"t1", "t2"},
  MaxPending <- 1, account <- row

Token == INSTANCE Credentials WITH
  Requests <- {"r1", "r2"}, Google <- TRUE, MaxTokens <- 2, MaxLogins <- 1, status <- usable, lock <- refreshing

\* A list of an account of each sort, and a reset of the first.
Sorts == [a1 |-> "codex", a2 |-> "antigravity", a3 |-> "metered"]
Quota == INSTANCE Quotas WITH
  Accounts <- {"a1", "a2", "a3"}, Lists <- {"l1"}, Resets <- {"r1"}, Nobody <- Nobody, Provider <- Sorts,
  AccountOf <- [r \in {"r1"} |-> "a1"], Slots <- 1, MaxAge <- 1, NewKeyEachTry <- FALSE, MaxTime <- 1, MaxTries <- 1,
  lock <- held

\* Two jobs that the maintenance loop polls in turn, one a round.
Video == INSTANCE VideoJobs WITH
  Videos <- {"v1", "v2"}, Timed <- {"v1"}, Metered <- {"v1"}, Pollers <- {}, Limit <- 1, call <- submit

ASSUME Picture!PictureNames /\ Picture!PictureBounds /\ Picture!PictureTurns /\ File!BoundsAssumption /\ Route!RouteNames
ASSUME Login!ModeAssumption /\ Token!BoundAssumption /\ Quota!BoundsAssumption /\ Video!LimitAssumption

-----------------------------------------------------------------------------
(* One of them moves.                                                      *)

pictures == <<place, picture, hold, charge, permits, spilt>>
artifacts == <<hour, disk, rows, creating, late, removing, prune, linked, dropped, safe, tool, restarts>>
routes == <<route, streak, turn, locked, operator, bad>>
oauth == <<session, client, task, row, stored>>
tokens == <<file, usable, refreshing, req, issued, valid, logins, lost>>
quotas == <<now, quota, redeemed, cache, held, resetting, fetcher, refresh, reset>>
videos == <<render, submit, bill, jobs, poll, round, account, early>>
allVars == <<part, pictures, artifacts, routes, oauth, tokens, quotas, videos, vars>>

AllInit ==
  /\ part \in {"pictures", "files", "routes", "logins", "tokens", "quotas", "videos", "store"}
  /\ Picture!Init /\ File!Init /\ Route!Init
  /\ Login!Init /\ Token!Init /\ Quota!Init /\ Video!Init /\ Init
  /\ part # "store" => engine = "sqlite"

Turns(p) ==
  /\ part = p /\ part' = part
  /\ IF p = "pictures" THEN TRUE ELSE UNCHANGED pictures
  /\ IF p = "files" THEN TRUE ELSE UNCHANGED artifacts
  /\ IF p = "routes" THEN TRUE ELSE UNCHANGED routes
  /\ IF p = "logins" THEN TRUE ELSE UNCHANGED oauth
  /\ IF p = "tokens" THEN TRUE ELSE UNCHANGED tokens
  /\ IF p = "quotas" THEN TRUE ELSE UNCHANGED quotas
  /\ IF p = "videos" THEN TRUE ELSE UNCHANGED videos
  /\ IF p = "store" THEN TRUE ELSE UNCHANGED vars

AllNext ==
  \/ Turns("pictures") /\ Picture!Next
  \/ Turns("files") /\ File!Next
  \/ Turns("routes") /\ Route!Next
  \/ Turns("logins") /\ Login!Next
  \/ Turns("tokens") /\ Token!Next
  \/ Turns("quotas") /\ Quota!Next
  \/ Turns("videos") /\ Video!Next
  \/ Turns("store") /\ Next

AllSpec == AllInit /\ [][AllNext]_allVars

-----------------------------------------------------------------------------
(* The fairness of each component (its own FairSpec).  In a behaviour only one *)
(* of them moves, so the actions that get their turn if they could have it     *)
(* again and again share four numbers.                                         *)

Request(n) == IF n = 1 THEN "r1" ELSE "r2"
Fetcher(n) == << <<"l1", "a1">>, <<"l1", "a2">>, <<"l1", "a3">>, <<"r1", "a1">> >>[n]

Prompt ==
  /\ WF_artifacts(part = "files" /\ File!Prune)
  /\ WF_artifacts(part = "files" /\ File!Tick)
  /\ WF_artifacts(part = "files" /\ File!Works)
  /\ WF_vars(part = "store" /\ Works)
  /\ WF_videos(part = "videos" /\ Video!Works)
  /\ \A r \in {"r1", "r2"} :
       /\ WF_pictures(part = "pictures" /\ Picture!Goes_(r))
       /\ WF_routes(part = "routes" /\ Route!Serve(r))
       /\ WF_tokens(part = "tokens" /\ Token!Works(r))
  /\ \A t \in {"t1", "t2"} : WF_oauth(part = "logins" /\ Login!Works(t))
  /\ \A n \in 1..4 : WF_quotas(part = "quotas" /\ Quota!Moves(Fetcher(n)))

InTurn(n) ==
  \/ part = "routes" /\ n < 3 /\ Route!Fallback(Request(n)) /\ UNCHANGED <<tokens, quotas, videos>>
  \/ part = "routes" /\ n > 2 /\ Route!Retry(Request(n - 2)) /\ UNCHANGED <<tokens, quotas, videos>>
  \/ part = "tokens" /\ n < 3 /\ Token!Lock(Request(n)) /\ UNCHANGED <<routes, quotas, videos>>
  \/ part = "quotas" /\ (Quota!Enter(Fetcher(n)) \/ Quota!Lock(Fetcher(n))) /\ UNCHANGED <<routes, tokens, videos>>
  \/ part = "videos" /\ n < 3 /\ Video!Answers(IF n = 1 THEN "v1" ELSE "v2") /\ UNCHANGED <<routes, tokens, quotas>>

AllFairSpec == AllSpec /\ Prompt /\ \A n \in 1..4 : SF_<<routes, tokens, quotas, videos>>(InTurn(n))

-----------------------------------------------------------------------------
(* Whoever waits is served; and CallsAreTrue of StoreQueue.                *)

\* What has expired, was deleted or lost its row to a crash goes from the disk
\* (prune).
Stays == \E id \in disk : creating[id] = 0 /\ ~File!Live(id)
NothingStays == (part = "files" /\ Stays) ~> ~Stays

\* A request that waits is answered: a call with pictures, though calls hold
\* permits while they wait for a second one; a failover that waits for the lock
\* of its key; a login that is worked on; a request that waits for another's
\* refresh; a list of quotas; a call of the store, unless that is stopped or its
\* worker is dead.
Waits ==
  \/ part = "pictures" /\ place["r1"] \notin {"idle", "done"}
  \/ part = "routes" /\ Route!At("r1", "moving")
  \/ part = "logins" /\ \E login \in {"code", "device"} : session[login] = "running"
  \/ part = "tokens" /\ Token!At("r1", "wait")
  \/ part = "quotas" /\ \E n \in 1..3 : fetcher[Fetcher(n)].pc \notin {"idle", "done"}
  \/ part = "store" /\ (\E op \in Ops : at[op] \in {"queued", "behind", "locking", "threaded"})
                    /\ stopping = "no" /\ worker # "dead"
WaitersAnswered == Waits ~> ~Waits

\* BilledInTheEnd of VideoJobs: a bill that waits for a finished video does not
\* wait for the user to poll, nor behind older videos that are finished as well
\* (_maintenance_loop).
VideosBilled == part = "videos" => Video!BilledInTheEnd
=============================================================================
