------------------------------ MODULE MCOutside ------------------------------
(* What stands around the gateway, side by side: the keys of its users, the    *)
(* portal, the administrator's sessions, pictures kept as files; what the      *)
(* desktop client does to the files of other programs; and what these          *)
(* programs send and hear.  As in MCMoney they share no variable, and "part"   *)
(* is the one that moves.                                                      *)
EXTENDS ApiKeys, Sequences

CONSTANT NoProvider   \* the default of ProviderLists that names none

VARIABLES part,
  now, captchas, codes, users, keys, claimed, visits, pending,               \* Portal
  clock, password, sessions, made, work, lists, wrong, tries, early,         \* Admin
  hour, disk, rows, creating, orphans, removing, prune, linked, dropped, safe, tool, restarts,  \* Artifact
  live, official, backups, rollback, pc, i, source, before, applies,  \* File
  rules, modelRules, order, default, models, available, merged,              \* List
  route, rollout, thread, index, recent, version, owner, syncing, todo, temp, synced, fetched,  \* Session
  provider, client, said, pieces, closed, items, conv, sent, phase,          \* Stream
  speaker, turns, number, called,                                            \* History
  minute, cache, history, turn, declared, asked                              \* Tool

-----------------------------------------------------------------------------
(* The instances.                                                          *)

\* Two addresses that come from one computer.
Portal == INSTANCE PortalLogin WITH
  Emails <- {"e1", "e2"}, Devices <- {"d1"}, NoDevice <- "none", Grant <- 100, CaptchaLife <- 1, CodeLife <- 2,
  CaptchaLimit <- 2, HourLimit <- 2, MaxAttempts <- 2, MaxTime <- 1, MaxCaptchas <- 2, MaxCodes <- 3,
  sessions <- visits

\* A password that changes; and one that is guessed.
Admin == INSTANCE AdminSessions WITH
  Passwords <- {"p1", "p2"}, Initial <- "p1", Logins <- {"l1", "l2"}, MaxFailures <- 1, Window <- 2,
  MaxAge <- 1, MaxTime <- 2, MaxSessions <- 2, MaxTries <- 4
Guessed == INSTANCE AdminSessions WITH
  Passwords <- {"p1", "p2"}, Initial <- "p1", Logins <- {"l1", "l2"}, MaxFailures <- 1, Window <- 1,
  MaxAge <- 1, MaxTime <- 1, MaxSessions <- 1, MaxTries <- 5

\* The two pictures of a tool call.
Artifact == INSTANCE Artifacts WITH
  Ids <- {"t1", "t2"}, Life <- [id \in {"t1", "t2"} |-> 1], Tool <- {"t1", "t2"}, MaxTime <- 2, MaxRestarts <- 1,
  clock <- hour, late <- orphans

\* Two files of Codex, copied in one order and written in the other.
File == INSTANCE HarnessFiles WITH
  Files <- {"auth.json", "codex-models.json"}, CopyOrder <- <<"auth.json", "codex-models.json">>,
  WriteOrder <- <<"codex-models.json", "auth.json">>, Keep <- 1, MaxApplies <- 2

List == INSTANCE ProviderLists WITH
  Slugs <- {"gpt", "grok"}, Names <- {"own", "other"}, MaxItems <- 2, None <- NoProvider

\* Two conversations, one of which an older client has put away, under the
\* gateway, the official login, a relay with effort suffixes, or nobody.
Models == {"gpt", "grok", "grok-high", "claude"}
Base == [m \in Models |-> IF m = "grok-high" THEN "grok" ELSE m]
Config(mode, name, model, catalog) == [mode |-> mode, provider |-> name, model |-> model, catalog |-> catalog]
FourRoutes == {Config("apikey", "minkingapi", "claude", <<"claude", "grok">>),
               Config("chatgpt", "minkingapi", "claude", <<"claude">>),
               Config("apikey", "relay", "grok-high", <<>>),
               Config("none", "", "", <<>>)}
Put == [old |-> [here |-> TRUE, provider |-> "openai", model |-> "gpt", turns |-> 1],
        new |-> [here |-> FALSE, provider |-> "", model |-> "gpt", turns |-> 0]]
Session == INSTANCE CodexSessions WITH
  Threads <- {"old", "new"}, Routes <- FourRoutes, Models <- Models, Official <- {"gpt"}, Fallback <- "gpt",
  BaseOf <- Base, Parked <- Put, MaxTurns <- 2, pc <- syncing

Stream == INSTANCE Streams WITH
  Providers <- {"codex", "workbuddy", "antigravity"}, Clients <- {"chat", "anthropic", "gemini"}, MaxPieces <- 5

History == INSTANCE Histories WITH
  Clients <- {"chat", "anthropic", "gemini", "responses"}, MaxTurns <- 6, MaxCalls <- 3, client <- speaker, clock <- number

\* A conversation with a custom tool, a tool search and what it finds; two
\* conversations and room to remember one; and two calls in one answer of a
\* conversation that is not remembered.
Lasting == {[name |-> "apply_patch", kind |-> "custom", space |-> "none"]}
Searching == Lasting \cup {[name |-> "tool_search", kind |-> "search", space |-> "none"]}
Browser == {[name |-> "open", kind |-> "function", space |-> "browser"]}
Builtin == {[name |-> "web_search", kind |-> "builtin", space |-> "none"]}
Tool == INSTANCE GrokTools WITH
  Conversations <- {"c1"}, Anonymous <- {}, Own <- Searching, Findable <- Browser,
  TTL <- 2, MaxKeys <- 1, MaxTools <- 3, MaxClock <- 2, MaxCalls <- 1,
  clock <- minute, said <- declared, at <- asked
Crowded == INSTANCE GrokTools WITH
  Conversations <- {"c1", "c2"}, Anonymous <- {}, Own <- Lasting, Findable <- {},
  TTL <- 1, MaxKeys <- 1, MaxTools <- 1, MaxClock <- 1, MaxCalls <- 1,
  clock <- minute, said <- declared, at <- asked
Forgotten == INSTANCE GrokTools WITH
  Conversations <- {"c1"}, Anonymous <- {"c1"}, Own <- Searching \cup Builtin, Findable <- {},
  TTL <- 1, MaxKeys <- 1, MaxTools <- 1, MaxClock <- 1, MaxCalls <- 2,
  clock <- minute, said <- declared, at <- asked

ASSUME Guessed!BoundsAssumption /\ Portal!BoundsAssumption /\ Admin!BoundsAssumption
ASSUME Artifact!BoundsAssumption
ASSUME File!OrderAssumption /\ File!KeepAssumption /\ List!ListNames /\ Session!RouteAssumption
ASSUME Session!ThreadAssumption
ASSUME Stream!PiecesAssumption /\ History!BoundsAssumption
ASSUME Tool!NamesAssumption /\ Crowded!NamesAssumption /\ Forgotten!NamesAssumption
ASSUME Tool!BoundsAssumption /\ Crowded!BoundsAssumption /\ Forgotten!BoundsAssumption

-----------------------------------------------------------------------------
(* One of them moves.                                                      *)

portal == <<now, captchas, codes, users, keys, claimed, visits, pending>>
admins == <<clock, password, sessions, made, work, lists, wrong, tries, early>>
artifacts == <<hour, disk, rows, creating, orphans, removing, prune, linked, dropped, safe, tool, restarts>>
files == <<live, official, backups, rollback, pc, i, source, before, applies>>
providers == <<rules, modelRules, order, default, models, available, merged>>
conversations == <<route, rollout, thread, index, recent, version, owner, syncing, todo, temp, synced, fetched>>
streams == <<provider, client, said, pieces, closed, items, conv, sent, phase>>
histories == <<speaker, turns, number, called>>
tools == <<minute, cache, history, turn, declared, asked>>
allVars == <<part, vars, portal, admins, artifacts, files, providers, conversations, streams, histories, tools>>

\* Whoever does not move rests in one of its initial states.
Unset == Config("none", "", "", <<>>)
FilesRest == live = [f \in {"auth.json", "codex-models.json"} |-> "none"]
SessionsRest ==
  /\ route = Unset /\ recent = Session!FirstModel(Unset)
  /\ \A t \in {"old", "new"} : rollout[t].here /\ index[t] = Session!RunsOn(Unset)

AllInit ==
  /\ part \in {"keys", "onekey", "portal", "admins", "guesses", "artifacts", "files", "lists", "sessions", "streams", "histories", "tools", "crowded", "forgotten"}
  /\ Init
  /\ IF part = "guesses" THEN Guessed!Init ELSE Admin!Init
  /\ Portal!Init /\ Artifact!Init
  /\ File!Init /\ List!Init /\ Session!Init /\ Stream!Init /\ History!Init
  /\ IF part = "crowded" THEN Crowded!Init ELSE Tool!Init
  /\ part # "files" => FilesRest
  /\ part # "sessions" => SessionsRest
  /\ part # "streams" => provider = "codex" /\ client = "chat"
  /\ part # "histories" => speaker = "chat"

Moves(p) ==
  /\ part = p /\ part' = part
  /\ IF p \in {"keys", "onekey"} THEN TRUE ELSE UNCHANGED vars
  /\ IF p = "portal" THEN TRUE ELSE UNCHANGED portal
  /\ IF p \in {"admins", "guesses"} THEN TRUE ELSE UNCHANGED admins
  /\ IF p = "artifacts" THEN TRUE ELSE UNCHANGED artifacts
  /\ IF p = "files" THEN TRUE ELSE UNCHANGED files
  /\ IF p = "lists" THEN TRUE ELSE UNCHANGED providers
  /\ IF p = "sessions" THEN TRUE ELSE UNCHANGED conversations
  /\ IF p = "streams" THEN TRUE ELSE UNCHANGED streams
  /\ IF p = "histories" THEN TRUE ELSE UNCHANGED histories
  /\ IF p \in {"tools", "crowded", "forgotten"} THEN TRUE ELSE UNCHANGED tools

AllNext ==
  \/ Moves("keys") /\ Next /\ secrets' < MaxSecrets
  \/ Moves("onekey") /\ Next /\ UNCHANGED row["k2"]
  \/ Moves("portal") /\ Portal!Next
  \/ Moves("admins") /\ Admin!Next
  \/ Moves("guesses") /\ Guessed!Next
  \/ Moves("artifacts") /\ Artifact!Next
  \/ Moves("files") /\ File!Next /\ ~(applies = 2 /\ File!Resting)   \* up to the end of the second apply
  \/ Moves("lists") /\ List!Next
  \/ Moves("sessions") /\ Session!Next
  \/ Moves("streams") /\ Stream!Next
  \/ Moves("histories") /\ History!Next
  \/ Moves("tools") /\ Tool!Next
  \/ Moves("crowded") /\ Crowded!Next
  \/ Moves("forgotten") /\ Forgotten!Next

AllSpec == AllInit /\ [][AllNext]_allVars

-----------------------------------------------------------------------------
(* What they keep, besides KeysAreTrue of ApiKeys.                         *)

\* Of an address's codes only the last can be used, five times at most, for one
\* session; a computer is rewarded once, whatever addresses it names, and a user
\* keeps the reward; a user has one key and came with a code that was sent
\* (send_code, verify, desktop_login).
PortalRewardsOnce ==
  /\ [](part = "portal" => /\ Portal!TypeOK /\ Portal!OneLiveCode /\ Portal!FiveTries
                          /\ Portal!RewardedOnce /\ Portal!UsersAreWhole)
  /\ Portal!RewardIsFinal

\* After a change of the password only requests that were under way still have
\* a session of the old one; and no address has more wrong passwords verified in
\* a window than the limit and what was under way beside it (admin_auth.py).
AdminsAreChecked ==
  /\ part = "admins" => Admin!TypeOK /\ Admin!OthersAreRevoked /\ Admin!TriesBounded
  /\ part = "guesses" => Guessed!TypeOK /\ Guessed!TriesBounded

\* A file that no listing of the cleanup overlapped while it was created is
\* there for as long as its row is alive; an answered tool call has asked for all
\* its pictures, has one at least, and a link for each that could be used; and a
\* cleanup that ran when nobody else was at work leaves no file without a row
\* (create_bytes, delete, prune).
FilesAreKept ==
  /\ [](part = "artifacts" => Artifact!TypeOK /\ Artifact!KeptWhileAlive /\ Artifact!AnswerIsComplete)
  /\ Artifact!QuietPruneMends

\* The version from before the first connect never holds anything the client
\* wrote; an apply that fails leaves the files as they were; and nothing is
\* overwritten before all of it is in a backup (snapshot_harness, apply_harness).
FilesComeBack ==
  part = "files" => /\ File!TypeOK /\ File!FirstIsTheUsers
                    /\ File!UndoneOnError /\ File!SavedBeforeWritten

\* After any merges the lists name each other's entries, and of those that call
\* the gateway they hold exactly the chosen ones; no merge takes away, hides or
\* displaces a user's own entry (_merge_zcode_payload, _workbuddy_merged_payload).
ListsAgree == [](part = "lists" => List!TypeOK /\ List!NoDangling /\ List!ExactlyChosen) /\ List!UsersStay

\* Once a sync has ended well every conversation can be gone on with under the
\* live configuration, and none is listed that cannot be opened; no step loses a
\* conversation or a turn of it, and a second sync changes nothing
\* (sync_codex_sessions).
SessionsFollow ==
  /\ [](part = "sessions" => Session!TypeOK /\ Session!Follows /\ Session!NoDeadRows)
  /\ Session!TurnsKept /\ Session!TwiceIsOnce

\* Of an answer that comes to its end a client hears every text in order and once,
\* and every call, but for streamed ones of WorkBuddy's; streamed or whole; and a
\* stream is well formed and stops for the right reason (the converters of
\* providers/ and api/).
AnswersArrive ==
  part = "streams" => /\ Stream!TypeOK /\ Stream!HeardIsSaid /\ Stream!TextIsHeard
                      /\ Stream!CollectedIsSaid /\ Stream!WellFormed /\ Stream!StopsForAReason

\* The history that a provider gets has each output after its call, nothing said
\* lost or moved, and the order of speakers that the provider asks for.
HistoriesPair ==
  part = "histories" => /\ History!TypeOK /\ History!CodexPairs /\ History!GrokPairs
                        /\ History!CloudAlternates /\ History!CloudAnswers /\ History!WorkbuddyKeeps

\* A call of Grok's reaches the client as a call of the tool it declared, its
\* arguments once; no conversation gets another's tools; and one that declares
\* none keeps all it declared within the cache's lifetime
\* (_apply_grok_tool_cache, rewrite_grok_codex_sse_payload).
ToolsComeBack ==
  /\ part = "tools" => Tool!TypeOK /\ Tool!CallsAsDeclared /\ Tool!OwnToolsOnly /\ Tool!ToolsStay
  /\ part = "crowded" => Crowded!TypeOK /\ Crowded!CallsAsDeclared /\ Crowded!OwnToolsOnly
  /\ part = "forgotten" => Forgotten!TypeOK /\ Forgotten!CallsAsDeclared /\ Forgotten!OwnToolsOnly
=============================================================================
