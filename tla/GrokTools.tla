----------------------------- MODULE GrokTools -----------------------------
(***************************************************************************)
(* The tools of a conversation that is answered by Grok: Grok knows only   *)
(* functions, so sanitize_grok_responses lowers the client's custom tools, *)
(* namespaced tools and tool search to functions, the gateway remembers    *)
(* them for the conversation's later requests (_apply_grok_tool_cache) and *)
(* turns Grok's calls back into what the client declared                   *)
(* (rewrite_grok_codex_sse_payload).  A tool is [name, kind, space].       *)
(***************************************************************************)
EXTENDS Integers, Sequences, FiniteSets, SequencesExt, Collections

CONSTANTS
  Conversations,   \* (key, conversation) pairs
  Anonymous,       \* those whose requests carry no conversation at all
  Own,             \* tools a client puts into its requests
  Findable,        \* tools it gets from its tool search, in the history
  TTL,             \* GROK_TOOL_CACHE_TTL_SECONDS
  MaxKeys,         \* GROK_TOOL_CACHE_MAX_KEYS
  MaxTools,        \* GROK_TOOL_CACHE_MAX_TOOLS
  MaxClock, MaxCalls  \* bounds: the time, the calls of one answer

SearchName == "codex_tool_search"
NoSpace == "none"
Tools == Own \cup Findable
Kinds == {"function", "custom", "search", "builtin"}

\* The client means one thing by a name, and namespaces only functions; what is
\* named like the tool search is one (is_tool_search_name), and what has no name
\* is left out before (_map_grok_tool).
NamesAssumption ==
  /\ \A t, u \in Tools : t.name = u.name => t = u
  /\ \A t \in Tools : t.kind \in Kinds /\ (t.space # NoSpace => t.kind = "function")
  /\ \A t \in Tools : t.name # "" /\ (t.name = SearchName => t.kind = "search")
BoundsAssumption ==
  /\ {TTL, MaxTools, MaxClock, MaxCalls} \subseteq Nat /\ MaxKeys \in Nat \ {0}
  /\ IsFiniteSet(Conversations)

VARIABLES
  clock,
  cache,     \* _grok_tool_cache
  history,   \* per conversation, what the client sends as input: calls, tools found
  turn,      \* per conversation, the request that is being answered
  said,      \* per conversation, what was declared since the cache last forgot
  at         \* per conversation, when its last request came
vars == <<clock, cache, history, turn, said, at>>

Whole == <<"first", "second">>   \* the arguments of a call, in two pieces
NoHistory == [called |-> {}, found |-> <<>>]
NoRewrite == [free |-> {}, search |-> FALSE, spaces |-> <<>>]
NoEntry == [tools |-> <<>>, free |-> {}, spaces |-> <<>>, until |-> 0]
Idle == [st |-> "idle", bare |-> FALSE, sent |-> {}, rewrite |-> NoRewrite,
         items |-> <<>>, tracked |-> {}, searches |-> {}, full |-> {}]

Names(wires) == {w.name : w \in ToSet(wires)} \ {""}
\* The list s, and of t what it does not hold yet, none twice.
Merge(s, t) ==
  LET f[n \in 0..Len(t)] ==
        IF n = 0 THEN s ELSE IF t[n] \in ToSet(f[n - 1]) THEN f[n - 1] ELSE Append(f[n - 1], t[n])
  IN  f[Len(t)]
Take(s, n) == SubSeq(s, 1, IF Len(s) < n THEN Len(s) ELSE n)

----------------------------------------------------------------------------
(* The request.                                                            *)

\* A tool as Grok gets it.
Wire(t) ==
  [type |-> IF t.kind = "builtin" THEN t.name ELSE "function",
   name |-> CASE t.kind = "builtin" -> "" [] t.kind = "search" -> SearchName [] OTHER -> t.name]

\* The tools of a request, those that earlier searches found among them.
Declared(own, past) == Merge(own, past.found)

Spaces(tools) ==
  [n \in {t.name : t \in {u \in ToSet(tools) : u.space # NoSpace}} |->
     (CHOOSE t \in ToSet(tools) : t.name = n).space]

\* What calls of these tools are to be turned back into.
Rewrite(tools) ==
  [free   |-> {t.name : t \in {u \in ToSet(tools) : u.kind = "custom"}},
   search |-> \E t \in ToSet(tools) : t.kind = "search",
   spaces |-> Spaces(tools)]

Fresh(c) == c \in DOMAIN cache /\ cache[c].until > clock
Cached(c) == IF Fresh(c) THEN cache[c] ELSE NoEntry

\* Remembered tools join a request that declares some only when they were used.
Sent(advertised, cached, used) ==
  IF advertised = <<>> THEN cached
  ELSE Merge(advertised, Only(cached, {w \in ToSet(cached) : w.name \in used}))

Together(rewrite, entry) ==
  [free   |-> rewrite.free \cup entry.free,
   search |-> rewrite.search,
   spaces |-> [n \in DOMAIN rewrite.spaces \cup DOMAIN entry.spaces |->
                 IF n \in DOMAIN rewrite.spaces THEN rewrite.spaces[n] ELSE entry.spaces[n]]]

\* What an answer's calls may be turned back into.
PrunedToHistory(rewrite, sent, used) ==
  [free |-> rewrite.free \cap used, search |-> rewrite.search,
   spaces |-> Restrict(rewrite.spaces, DOMAIN rewrite.spaces \cap used)]
Pruned(rewrite, sent, used) ==
  LET names == Names(sent) \cup used
  IN  [free   |-> rewrite.free \cap names,
       search |-> rewrite.search \/ SearchName \in Names(sent),
       spaces |-> Restrict(rewrite.spaces, DOMAIN rewrite.spaces \cap names)]

\* The cache after a request: what it found expired goes, and to make room
\* for a new conversation the entry that expires first.
Swept(c) == {d \in DOMAIN cache : cache[d].until > clock}
Evicted(c) ==
  LET kept == Swept(c)
  IN  IF c \in kept \/ Cardinality(kept) < MaxKeys THEN {{}}
      ELSE {{d} : d \in {e \in kept : \A f \in kept : cache[e].until <= cache[f].until}}

Remember(c, tools, rewrite) ==
  IF tools = <<>> \/ c \in Anonymous
  THEN cache' = Restrict(cache, DOMAIN cache \ (IF Fresh(c) THEN {} ELSE {c}))
  ELSE \E gone \in Evicted(c) :
         cache' = [d \in {c} \cup (Swept(c) \ gone) |->
                     IF d # c THEN cache[d]
                     ELSE [tools |-> Take(tools, MaxTools), free |-> rewrite.free,
                           spaces |-> rewrite.spaces, until |-> clock + TTL]]

\* A request with these tools; its history may have been cut off by the client.
Request(c, own, past) ==
  LET tools == Declared(own, past)
      rewrite == Rewrite(tools)
      entry == Cached(c)
      advertised == Merge(<<>>, [n \in DOMAIN tools |-> Wire(tools[n])])
      sent == Sent(advertised, entry.tools, past.called)
      all == Together(rewrite, entry)
  IN  /\ turn[c].st = "idle"
      /\ Remember(c, Merge(entry.tools, advertised), all)
      /\ turn' = [turn EXCEPT ![c] =
           [Idle EXCEPT !.st = "open", !.bare = advertised = <<>>, !.sent = ToSet(Take(sent, MaxTools)),
                        !.rewrite = Pruned(all, sent, past.called)]]
      /\ history' = [history EXCEPT ![c] = past]
      /\ said' = [said EXCEPT ![c] = (IF clock - at[c] < TTL THEN @ ELSE {}) \cup ToSet(advertised)]
      /\ at' = [at EXCEPT ![c] = clock]
      /\ UNCHANGED clock

\* A compaction request offers no tools and leaves the cache alone; the client
\* goes on from the summary.
Compact(c) ==
  /\ turn[c].st = "idle" /\ history[c] # NoHistory
  /\ history' = [history EXCEPT ![c] = NoHistory]
  /\ UNCHANGED <<clock, cache, turn, said, at>>

----------------------------------------------------------------------------
(* The answer.  An item is a call by name; `is` is what the client sees.   *)

Call(type, name, space) == [type |-> type, name |-> name, space |-> space]

Rewritten(name, rewrite) ==
  IF name \in rewrite.free THEN Call("custom_tool_call", name, NoSpace)
  ELSE IF rewrite.search /\ name = SearchName THEN Call("tool_search_call", "", NoSpace)
  ELSE IF name \in DOMAIN rewrite.spaces THEN Call("function_call", name, rewrite.spaces[name])
  ELSE Call("function_call", name, NoSpace)

Streams(c) == turn[c].st = "open"
Open(c, i) == Streams(c) /\ i \in DOMAIN turn[c].items
Steps(c, i, step, heard) ==
  [turn EXCEPT ![c].items[i].step = step, ![c].items[i].heard = @ \o heard]

\* response.output_item.added, with the arguments or before them.
Added(c, name, whole) ==
  LET i == Len(turn[c].items) + 1
      is == Rewritten(name, turn[c].rewrite)
      item == [name |-> name, is |-> is, step |-> IF whole THEN "given" ELSE "added", pieces |-> 0,
               heard |-> IF whole THEN Whole ELSE <<>>]
      custom == is.type = "custom_tool_call"
  IN  /\ Streams(c) /\ i <= MaxCalls
      /\ turn' = [turn EXCEPT ![c].items = Append(@, item),
                              ![c].tracked = @ \cup IF custom THEN {i} ELSE {},
                              ![c].full = @ \cup IF custom /\ whole THEN {i} ELSE {},
                              ![c].searches = @ \cup IF is.type = "tool_search_call" THEN {i} ELSE {}]

\* response.function_call_arguments.delta: nothing of it for a custom call or a search.
Delta(c, i) ==
  LET piece == turn[c].items[i].pieces + 1
      hidden == i \in turn[c].tracked \cup turn[c].searches
  IN  /\ turn[c].items[i].step = "added" /\ piece <= Len(Whole)
      /\ turn' = [Steps(c, i, "added", IF hidden THEN <<>> ELSE <<Whole[piece]>>)
                    EXCEPT ![c].items[i].pieces = piece]

\* response.function_call_arguments.done: now a custom call gets its whole input.
Silent(t, i) == i \in t.searches \/ i \notin t.tracked \/ i \in t.full
ArgumentsDone(c, i) ==
  LET item == turn[c].items[i]
  IN  /\ item.step = "given" \/ (item.step = "added" /\ item.pieces = Len(Whole))
      /\ turn' = Steps(c, i, "argued", IF Silent(turn[c], i) THEN <<>> ELSE Whole)

\* response.output_item.done: the item once more; of a search only this has the query.
ItemDone(c, i) ==
  LET item == turn[c].items[i]
      is == Rewritten(item.name, turn[c].rewrite)
  IN  /\ item.step = "argued"
      /\ turn' = [Steps(c, i, "done", IF i \in turn[c].searches /\ item.heard = <<>> THEN Whole ELSE <<>>)
                    EXCEPT ![c].items[i].is = is,
                           ![c].searches = @ \cup IF is.type = "tool_search_call" THEN {i} ELSE {}]

Answer(c) ==
  \/ \E w \in turn[c].sent, whole \in BOOLEAN : w.name # "" /\ Added(c, w.name, whole)
  \/ \E i \in DOMAIN turn[c].items : Open(c, i) /\ (Delta(c, i) \/ ArgumentsDone(c, i) \/ ItemDone(c, i))

\* response.completed: the client runs the calls; its search finds some tools.
Completed(c, found) ==
  LET t == turn[c]
      searched == \E i \in DOMAIN t.items : t.items[i].is.type = "tool_search_call"
  IN  /\ t.st = "open" /\ \A i \in DOMAIN t.items : t.items[i].step = "done"
      /\ searched \/ found = <<>>
      /\ history' = [history EXCEPT ![c] =
           [called |-> @.called \cup {t.items[i].name : i \in DOMAIN t.items}, found |-> Merge(@.found, found)]]
      /\ turn' = [turn EXCEPT ![c] = Idle]
      /\ UNCHANGED <<clock, cache, said, at>>

\* The request fails or the stream breaks: the client keeps what it had.
Broken(c) ==
  /\ turn[c].st = "open" /\ turn' = [turn EXCEPT ![c] = Idle]
  /\ UNCHANGED <<clock, cache, history, said, at>>

\* stop() clears the cache; every answer under way breaks.
Restart ==
  /\ cache # <<>> /\ cache' = <<>>
  /\ turn' = [c \in Conversations |-> Idle] /\ said' = [c \in Conversations |-> {}]
  /\ UNCHANGED <<clock, history, at>>

Tick == clock < MaxClock /\ clock' = clock + 1 /\ UNCHANGED <<cache, history, turn, said, at>>

----------------------------------------------------------------------------
\* Sequences of at most two tools of a set, none twice.
Lists(S) == {<<>>} \cup {<<t>> : t \in S} \cup {s \in S \X S : s[1] # s[2]}

Init ==
  /\ clock = 0 /\ cache = <<>>
  /\ history = [c \in Conversations |-> NoHistory] /\ turn = [c \in Conversations |-> Idle]
  /\ said = [c \in Conversations |-> {}] /\ at = [c \in Conversations |-> 0]

Next ==
  \/ Restart \/ Tick
  \/ \E c \in Conversations :
       \/ \E own \in Lists(Own), past \in {NoHistory, history[c]} : Request(c, own, past)
       \/ Compact(c) \/ Broken(c)
       \/ Answer(c) /\ UNCHANGED <<clock, cache, history, said, at>>
       \/ \E found \in Lists(Findable) : Completed(c, found)

Spec == Init /\ [][Next]_vars

TypeOK ==
  /\ clock \in 0..MaxClock /\ DOMAIN cache \subseteq Conversations \ Anonymous
  /\ \A c \in DOMAIN cache : Len(cache[c].tools) <= MaxTools /\ cache[c].until <= clock + TTL
  /\ Cardinality(DOMAIN cache) <= MaxKeys
  /\ \A c \in Conversations : turn[c].st \in {"idle", "open"} /\ history[c].found \in Seq(Findable)
----------------------------------------------------------------------------
(* What must hold.                                                         *)

\* What a call of this tool looks like to the client that declared it.
Meant(t) ==
  CASE t.kind = "custom" -> Call("custom_tool_call", t.name, NoSpace)
    [] t.kind = "search" -> Call("tool_search_call", "", NoSpace)
    [] OTHER -> Call("function_call", t.name, t.space)

\* A call reaches the client as a call of the tool it declared, custom tools as
\* custom and namespaced ones in their namespace, also when the declaration is
\* remembered from an earlier request; and its arguments come exactly once
\* (rewrite_grok_output_item, rewrite_grok_codex_sse_payload).
CallsAsDeclared ==
  \A c \in Conversations : \A i \in DOMAIN turn[c].items :
    LET item == turn[c].items[i]
    IN  /\ \E t \in Tools : Wire(t).name = item.name /\ item.is = Meant(t)
        /\ item.step = "done" => item.heard = Whole

\* A conversation never gets the tools of another, nor tools it declared before
\* they were forgotten (the cache is per key and conversation, with a lifetime).
OwnToolsOnly == \A c \in Conversations : turn[c].sent \subseteq said[c]

\* A request without tools is sent with all that the conversation declared
\* within the lifetime, if there is room for every conversation and every tool.
ToolsStay ==
  \A c \in Conversations \ Anonymous :
    (turn[c].bare /\ Cardinality(Conversations \ Anonymous) <= MaxKeys /\ Cardinality(said[c]) <= MaxTools)
      => said[c] \subseteq turn[c].sent
=============================================================================
