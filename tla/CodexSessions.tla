---------------------------- MODULE CodexSessions ----------------------------
(***************************************************************************)
(* sync_codex_sessions() of the desktop client: after a switch between the *)
(* gateway, a relay and the official login, the conversations Codex        *)
(* already has are rewritten in place to the provider and to a model of    *)
(* the new route.  They are recorded in four places: a rollout file each,  *)
(* the session index, the threads table, and the recent models.            *)
(* src/clients/minking-desktop/minking_desktop/harness.py.                 *)
(*                                                                         *)
(* An action reads or replaces one file.  Any one may fail, or be the last *)
(* before a kill: nothing is undone.  Codex is closed during a sync, as    *)
(* the client demands and its lock check watches over.                     *)
(***************************************************************************)
EXTENDS Integers, Sequences, FiniteSets, SequencesExt

CONSTANTS Threads,
          Routes,     \* what config.toml, auth.json and the catalog can say
          Models,
          Official,   \* the models an official login may use (_official_model)
          Fallback,   \* _CHATGPT_FALLBACK_MODEL
          BaseOf,     \* a model without its effort suffix
          Parked,     \* the copies an older version of the client has put away
          MaxTurns    \* bound: turns of a conversation

RouteAssumption ==
  /\ Official \subseteq Models /\ Fallback \in Official
  /\ BaseOf \in [Models -> Models]
  /\ \A r \in Routes : /\ r.model \in Models \cup {""}
                       /\ r.catalog \in Seq(Models)
                       /\ r.catalog # <<>> => r.model \in ToSet(r.catalog)

VARIABLES
  route,    \* the live configuration
  rollout,  \* per thread: the file under sessions/
  thread,   \* per thread: its row in state_*.sqlite
  index,    \* per thread: the provider of its line in session_index.jsonl
  recent,   \* the model the composer offers first
  version,  \* the provider in route-version.json
  owner,    \* session-active.json
  pc, todo, \* where the sync is, and the files it has yet to do
  temp,     \* the copy being written beside a rollout
  synced,   \* history: the last sync ended well, and the route is still that one
  fetched   \* history: rollouts put back and not rewritten since

vars == <<route, rollout, thread, index, recent, version, owner, pc, todo, temp, synced, fetched>>

Providers == {"", "openai"} \cup {r.provider : r \in Routes}
Rollout == [here : BOOLEAN, provider : Providers, model : Models, turns : 0..MaxTurns]
Row == [here : BOOLEAN, provider : Providers, model : Models]
ThreadAssumption ==
  /\ "none" \notin Threads /\ Parked \in [Threads -> Rollout] /\ MaxTurns \in Nat \ {0}
NoTemp == [of |-> "none", file |-> Parked[CHOOSE t \in Threads : TRUE]]

TypeOK ==
  /\ route \in Routes
  /\ rollout \in [Threads -> Rollout]
  /\ thread \in [Threads -> Row]
  /\ index \in [Threads -> Providers]
  /\ recent \in Models
  /\ version \in Providers
  /\ owner \in {"", "chatgpt", "apikey"}
  /\ pc \in {"idle", "rollouts", "index", "recent", "threads", "fetch", "owner"}
  /\ todo \subseteq Threads /\ fetched \subseteq Threads
  /\ temp \in [of : Threads \cup {"none"}, file : Rollout]
  /\ synced \in BOOLEAN

\* The provider Codex runs on: with none in config.toml, its own.
RunsOn(r) == IF r.mode = "chatgpt" \/ r.provider = "" THEN "openai" ELSE r.provider
FirstModel(r) == IF r.model # "" THEN r.model ELSE IF r.catalog # <<>> THEN Head(r.catalog) ELSE Fallback

\* Conversations an earlier route has left, with and without their rollout.
Init ==
  /\ route \in Routes
  /\ \E old \in Routes, lost \in SUBSET Threads :
       /\ rollout = [t \in Threads |-> [here |-> t \notin lost, provider |-> RunsOn(old),
                                        model |-> FirstModel(old), turns |-> IF t \in lost THEN 0 ELSE 1]]
       /\ thread = [t \in Threads |-> [here |-> TRUE, provider |-> RunsOn(old), model |-> FirstModel(old)]]
       /\ index = [t \in Threads |-> RunsOn(old)]
       /\ recent = FirstModel(old)
  /\ version = "" /\ owner = ""
  /\ pc = "idle" /\ todo = {} /\ temp = NoTemp
  /\ synced = FALSE /\ fetched = {}

-----------------------------------------------------------------------------
(* The user and Codex.                                                     *)
Noted == IF owner = "" THEN IF route.mode = "none" THEN "" ELSE route.mode ELSE owner
Switch(r) ==
  /\ pc = "idle" /\ r # route
  /\ route' = r
  /\ owner' = Noted
  /\ synced' = FALSE
  /\ UNCHANGED <<rollout, thread, index, recent, version, pc, todo, temp, fetched>>

\* Codex goes on with a conversation its route can serve.
Chat(t) ==
  /\ pc = "idle"
  /\ rollout[t].here /\ rollout[t].provider = RunsOn(route) /\ rollout[t].turns < MaxTurns
  /\ rollout' = [rollout EXCEPT ![t].turns = @ + 1]
  /\ UNCHANGED <<route, thread, index, recent, version, owner, pc, todo, temp, synced, fetched>>

-----------------------------------------------------------------------------
(* What is rewritten to what.                                              *)
Target == IF route.mode = "chatgpt" THEN "openai" ELSE route.provider
NewProvider(p) == IF Target = "" THEN p ELSE Target
ModelFor(m) ==
  IF route.mode = "chatgpt"
  THEN IF m \in Official THEN m ELSE IF route.model \in Official THEN route.model ELSE Fallback
  ELSE LET slugs == ToSet(route.catalog) IN
       CASE m \in slugs -> m
         [] m \notin slugs /\ BaseOf[m] \in slugs -> BaseOf[m]
         [] OTHER -> IF route.model # "" THEN route.model
                     ELSE IF slugs # {} THEN Head(route.catalog) ELSE m

Rewritten(x) == [x EXCEPT !.provider = NewProvider(@), !.model = ModelFor(@)]

-----------------------------------------------------------------------------
(* sync_codex_sessions().                                                  *)

\* The checks, and then route-version.json.
Here == {t \in Threads : rollout[t].here}
Begin ==
  /\ pc = "idle" /\ route.mode \in {"chatgpt", "apikey"}
  /\ version' = route.provider
  /\ pc' = "rollouts" /\ todo' = Here
  /\ UNCHANGED <<route, rollout, thread, index, recent, owner, temp, synced, fetched>>

\* _retarget_jsonl(): a copy is written, which then takes the file's place.
Copy(t) ==
  /\ pc = "rollouts" /\ t \in todo /\ temp.of = "none"
  /\ temp' = [of |-> t, file |-> Rewritten(rollout[t])]
  /\ UNCHANGED <<route, rollout, thread, index, recent, version, owner, pc, todo, synced, fetched>>
Replace(t) ==
  /\ temp.of = t
  /\ rollout' = [rollout EXCEPT ![t] = temp.file]
  /\ temp' = NoTemp
  /\ todo' = todo \ {t} /\ fetched' = fetched \ {t}
  /\ UNCHANGED <<route, thread, index, recent, version, owner, pc, synced>>
RolloutsDone ==
  /\ pc = "rollouts" /\ todo = {}
  /\ pc' = "index"
  /\ UNCHANGED <<route, rollout, thread, index, recent, version, owner, todo, temp, synced, fetched>>

Index ==
  /\ pc = "index"
  /\ index' = [t \in Threads |-> IF index[t] = "" THEN "" ELSE NewProvider(index[t])]
  /\ pc' = "recent"
  /\ UNCHANGED <<route, rollout, thread, recent, version, owner, todo, temp, synced, fetched>>
Recent ==
  /\ pc = "recent"
  /\ recent' = ModelFor(recent)
  /\ pc' = "threads"
  /\ UNCHANGED <<route, rollout, thread, index, version, owner, todo, temp, synced, fetched>>

\* _retarget_sqlite(): one transaction.
RewriteThreads ==
  /\ pc = "threads"
  /\ thread' = [t \in Threads |-> Rewritten(thread[t])]
  /\ pc' = "fetch"
  /\ todo' = Threads
  /\ UNCHANGED <<route, rollout, index, recent, version, owner, temp, synced, fetched>>
\* _find_parked_rollout(): an older client has put a copy away.
Found(t) == Parked[t].here
Wanted(t) == thread[t].here /\ ~rollout[t].here /\ Found(t)
Fetch(t) ==
  /\ pc = "fetch" /\ t \in todo
  /\ todo' = todo \ {t}
  /\ IF Wanted(t)
     THEN rollout' = [rollout EXCEPT ![t] = Parked[t]] /\ fetched' = fetched \cup {t}
     ELSE UNCHANGED <<rollout, fetched>>
  /\ UNCHANGED <<route, thread, index, recent, version, owner, pc, temp, synced>>
Finish ==
  /\ pc = "fetch" /\ todo = {}
  /\ pc' = "idle"
  /\ owner' = route.mode
  /\ synced' = TRUE
  /\ UNCHANGED <<route, rollout, thread, index, recent, version, todo, temp, fetched>>

\* A file is in use, the disk is full, or the client is killed: what has
\* been done stays, and the copy beside a rollout is dropped or ignored.
UnfinishedInPlace == rollout' = IF temp.of = "none" THEN rollout ELSE [rollout EXCEPT ![temp.of].turns = 0]
Unfinished == UNCHANGED rollout
Stop ==
  /\ pc # "idle"
  /\ pc' = "idle" /\ todo' = {} /\ temp' = NoTemp
  /\ Unfinished
  /\ UNCHANGED <<route, thread, index, recent, version, owner, synced, fetched>>

SyncStep ==
  \/ Begin \/ RolloutsDone \/ Index \/ Recent \/ RewriteThreads \/ Finish
  \/ \E t \in Threads : Copy(t) \/ Replace(t) \/ Fetch(t)
Next ==
  \/ SyncStep \/ Stop
  \/ \E r \in Routes : Switch(r)
  \/ \E t \in Threads : Chat(t)

Spec == Init /\ [][Next]_vars

-----------------------------------------------------------------------------
(* Properties.                                                             *)

\* May the route serve a conversation recorded like this?
Serves(r, x) ==
  /\ x.provider = RunsOn(r)
  /\ IF r.mode = "chatgpt" THEN x.model \in Official
     ELSE r.catalog # <<>> => x.model \in ToSet(r.catalog)

\* Once a sync has ended well, and until the next switch, every conversation
\* that was there can be gone on with: its rollout, its row, its line in the
\* index and the composer's model all belong to the route.  A config.toml
\* that names no provider leaves the recorded ones as they are.
Follows ==
  synced /\ Target # "" =>
    /\ \A t \in Threads : /\ rollout[t].here /\ t \notin fetched => Serves(route, rollout[t])
                          /\ thread[t].here => Serves(route, thread[t])
                          /\ index[t] = RunsOn(route)
    /\ Serves(route, [provider |-> RunsOn(route), model |-> recent])
    /\ version = route.provider /\ owner = route.mode

\* No sync, ended, failed or cut short anywhere, takes a rollout away, puts
\* an older copy over it or loses a turn of it.
TurnsKept ==
  [][\A t \in Threads : rollout[t].here => rollout'[t].here /\ rollout'[t].turns >= rollout[t].turns]_vars

\* A second sync finds nothing to change: rewriting is a fixed point.
TwiceIsOnce ==
  [][synced /\ SyncStep => /\ \A t \in Threads \ fetched : rollout[t].here => rollout'[t] = rollout[t]
                           /\ thread' = thread /\ index' = index /\ recent' = recent]_vars

\* A thread whose rollout an older version has put away gets it back once a
\* sync ends well: the list shows no conversation that cannot be opened.
NoDeadRows == synced => \A t \in Threads : thread[t].here /\ Parked[t].here => rollout[t].here
=============================================================================
