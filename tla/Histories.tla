------------------------------ MODULE Histories ------------------------------
(***************************************************************************)
(* A conversation with tools, replayed whole with every request: what the  *)
(* gateway makes of the client's history in the Responses form, and what   *)
(* each provider is sent.  src/app/providers/{codex_protocol,anthropic_    *)
(* protocol,gemini_protocol,grok,antigravity,workbuddy}.py.                *)
(*                                                                         *)
(* The client grows its history turn by turn, and may drop the oldest      *)
(* turns.  A text is the number of its turn; a call is a number, and its   *)
(* name the same number.  A tool's output is a text or an image.           *)
(***************************************************************************)
EXTENDS Integers, Sequences, SequencesExt, Collections

CONSTANTS Clients,   \* of "chat", "anthropic", "gemini", "responses"
          MaxTurns,  \* bounds the history
          MaxCalls   \* and the calls made

BoundsAssumption ==
  /\ Clients \subseteq {"chat", "anthropic", "gemini", "responses"}
  /\ MaxTurns \in Nat /\ MaxCalls \in Nat

VARIABLES
  client,
  turns,    \* the client's history
  clock,    \* numbers the turns
  called    \* how many calls were made

vars == <<client, turns, clock, called>>

Turn(who, text, calls, output) == [who |-> who, text |-> text, calls |-> calls, output |-> output]
NoOutput == [id |-> 0, v |-> "none"]
Answered(id) == \E k \in DOMAIN turns : turns[k].output.id = id
Outstanding == {id \in 1..called : /\ \E k \in DOMAIN turns : Contains(turns[k].calls, id)
                                   /\ ~Answered(id)}

TypeOK ==
  /\ client \in Clients /\ clock \in 0..MaxTurns /\ called \in 0..MaxCalls
  /\ Len(turns) <= MaxTurns
  /\ \A k \in DOMAIN turns : turns[k].who \in {"user", "model", "tool", "inline"}
  /\ \A j, k \in DOMAIN turns : j # k /\ turns[j].output.id # 0 => turns[j].output.id # turns[k].output.id

Init == client \in Clients /\ turns = <<>> /\ clock = 0 /\ called = 0

Tick == clock < MaxTurns /\ clock' = clock + 1
Says(turn) == turns' = Append(turns, turn)

UserSays ==
  /\ Tick /\ Says(Turn("user", clock', <<>>, NoOutput))
  /\ UNCHANGED <<client, called>>

\* The model says something, or calls one tool or two, or both.
ModelSays(text, n) ==
  /\ turns # <<>> /\ Outstanding = {} /\ called + n <= MaxCalls /\ (text \/ n > 0)
  /\ Tick /\ called' = called + n
  /\ Says(Turn("model", IF text THEN clock' ELSE 0, [k \in 1..n |-> called + k], NoOutput))
  /\ UNCHANGED client
ToolAnswers(id, v) ==
  /\ id \in Outstanding /\ Tick
  /\ Says(Turn("tool", 0, <<>>, [id |-> id, v |-> v]))
  /\ UNCHANGED <<client, called>>

\* A call item of a Responses client may hold its own output.
AnsweredInPlace(v) ==
  /\ client = "responses" /\ turns # <<>> /\ Outstanding = {} /\ called < MaxCalls
  /\ Tick /\ called' = called + 1
  /\ Says(Turn("inline", 0, <<called'>>, [id |-> called', v |-> v]))
  /\ UNCHANGED client

\* The client compacts its history.
Trim ==
  /\ Len(turns) > 1 /\ turns' = Tail(turns)
  /\ UNCHANGED <<client, clock, called>>

Next ==
  \/ UserSays \/ Trim
  \/ \E text \in BOOLEAN, n \in 0..2 : ModelSays(text, n)
  \/ \E v \in {"text", "image"} : AnsweredInPlace(v) \/ \E id \in 1..MaxCalls : ToolAnswers(id, v)

Spec == Init /\ [][Next]_vars

-----------------------------------------------------------------------------
(* The client's history as Responses items.                                *)

\* "text" is the number of what was said, 0 for an image; "v" is the output.
Item(t, id, v) == [t |-> t, role |-> "none", id |-> id, name |-> id, text |-> 0, v |-> v]
Said(role, text) == [Item("message", 0, "none") EXCEPT !.role = role, !.text = text]
Message(role, text) == IF text = 0 THEN <<>> ELSE <<Said(role, text)>>
\* The call_id of the k-th turn's part n, when the part has none.
Generated(k, n) == 1000 + 10 * k + n
Named(item, id) == [item EXCEPT !.id = id]
FromChat(k) ==
  LET turn == turns[k]
  IN  CASE turn.who = "user" -> Message("user", turn.text)
        [] turn.who = "model" ->
             Message("assistant", turn.text) \o [n \in DOMAIN turn.calls |-> Item("call", turn.calls[n], "none")]
        [] turn.who = "tool" -> <<Item("output", turn.output.id, turn.output.v)>>

\* anthropic_to_responses(): the same items, but of a tool's result the text
\* only.
FromAnthropic(k) ==
  IF turns[k].who # "tool" THEN FromChat(k)
  ELSE <<Item("output", turns[k].output.id, IF turns[k].output.v = "image" THEN "empty" ELSE "text")>>

\* gemini_to_responses(): the calls, then the text; Gemini's parts need no id,
\* and a part without one gets one of its own.
FromGemini(k) ==
  LET turn == turns[k]
  IN  CASE turn.who = "user" -> Message("user", turn.text)
        [] turn.who = "model" ->
             [n \in DOMAIN turn.calls |-> Named(Item("call", turn.calls[n], "none"), Generated(k, n))]
               \o Message("assistant", turn.text)
        [] turn.who = "tool" -> <<Named(Item("output", turn.output.id, "text"), Generated(k, 0))>>

\* The items of a Responses client pass as they are.
FromResponses(k) ==
  IF turns[k].who # "inline" THEN FromChat(k)
  ELSE <<Item("call", turns[k].output.id, turns[k].output.v)>>

ItemsOf(k) ==
  CASE client = "chat" -> FromChat(k)
    [] client = "anthropic" -> FromAnthropic(k)
    [] client = "gemini" -> FromGemini(k)
    [] client = "responses" -> FromResponses(k)
Items == FlattenSeq([k \in DOMAIN turns |-> ItemsOf(k)])

-----------------------------------------------------------------------------
(* What Grok is sent.                                                      *)

\* _user_image_messages_from(), _expand_call_with_output() and
\* _sanitize_grok_input_item(): a call that holds its output becomes two items;
\* an image in an output becomes a message of the user as well.
ImageMessage(item) == IF item.v = "image" THEN <<Said("user", 0)>> ELSE <<>>
Expand(item) ==
  CASE item.t = "call" /\ item.v # "none" ->
         <<[item EXCEPT !.v = "none"], Item("output", item.id, item.v)>> \o ImageMessage(item)
    [] item.t = "output" -> <<item>> \o ImageMessage(item)
    [] OTHER -> <<item>>
Expanded(items) == FlattenSeq([k \in DOMAIN items |-> Expand(items[k])])

\* _pair_function_calls(): every output moves behind its call; those without a
\* call go to the end.
CallNames(items) == {items[k].id : k \in {j \in DOMAIN items : items[j].t = "call"}}
OutputsOf(items) == Only(items, {item \in ToSet(items) : item.t = "output"})
OthersOf(items) == Only(items, {item \in ToSet(items) : item.t # "output"})
FirstOutput(items, id) ==
  LET found == Only(OutputsOf(items), {item \in ToSet(items) : item.id = id})
  IN  IF found = <<>> THEN <<>> ELSE <<found[1]>>
Paired(items, item) == IF item.t = "call" THEN <<item>> \o FirstOutput(items, item.id) ELSE <<item>>
Orphans(items) == Only(OutputsOf(items), {item \in ToSet(items) : item.id \notin CallNames(items)})
PairCalls(items) ==
  LET kept == OthersOf(items)
  IN  FlattenSeq([k \in DOMAIN kept |-> Paired(items, kept[k])]) \o Orphans(items)
ToGrok == PairCalls(Expanded(Items))

-----------------------------------------------------------------------------
(* What Antigravity is sent: contents of the user and of the model, each a *)
(* sequence of parts.                                                      *)

\* _append_part(): a part joins the last content when it has the same role.
LoosePart(contents, role, part) == Append(contents, [role |-> role, parts |-> <<part>>])
JoinPart(contents, role, part) ==
  IF contents # <<>> /\ Last(contents).role = role
  THEN [contents EXCEPT ![Len(contents)].parts = Append(@, part)]
  ELSE Append(contents, [role |-> role, parts |-> <<part>>])

\* _index_function_names(), _function_output_cloud_parts(): the output of a
\* call that is not in the history has no name, and is left out.
NameOf(items, id) == (CHOOSE item \in ToSet(items) : item.t = "call" /\ item.id = id).name
Part(p, id, name, v) == [p |-> p, id |-> id, name |-> name, v |-> v]
CloudParts(items, item) ==
  CASE item.t = "message" -> <<[role |-> IF item.role = "assistant" THEN "model" ELSE "user",
                                part |-> Part("text", 0, 0, "none")]>>
    [] item.t = "call" -> <<[role |-> "model", part |-> Part("call", item.id, item.name, "none")]>>
    [] item.t = "output" ->
         IF item.id \notin CallNames(items) THEN <<>>
         ELSE <<[role |-> "user", part |-> Part("response", item.id, NameOf(items, item.id), "text")]>>
              \o (IF item.v = "image" THEN <<[role |-> "user", part |-> Part("image", 0, 0, "none")]>> ELSE <<>>)
EndsWithUser(contents) ==
  IF contents = <<>> \/ Last(contents).role # "model" THEN contents
  ELSE LET said == Last(contents).parts
           pending == Only(said, {part \in ToSet(said) : part.p = "call"})
           Ok(part) == Part("response", part.id, part.name, "ok")
       IN  Append(contents, [role |-> "user",
             parts |-> IF pending = <<>> THEN <<Part("text", 0, 0, "Continue.")>>
                       ELSE [n \in DOMAIN pending |-> Ok(pending[n])]])

\* responses_to_cloudcode()
CloudContents(parts) ==
  LET f[n \in 0..Len(parts)] == IF n = 0 THEN <<>> ELSE JoinPart(f[n - 1], parts[n].role, parts[n].part)
  IN  f[Len(parts)]
ToCloud ==
  LET items == Items
  IN  EndsWithUser(CloudContents(FlattenSeq([k \in DOMAIN items |-> CloudParts(items, items[k])])))

-----------------------------------------------------------------------------
(* What WorkBuddy is sent: chat messages, one call in each.                *)

\* responses_to_chat(): an output that is not a string is sent empty.
ChatOutput(v) == IF v = "text" THEN "text" ELSE "empty"
ToWorkbuddy ==
  LET items == Items
  IN [k \in DOMAIN items |->
     LET item == items[k]
     IN  CASE item.t = "message" -> [role |-> item.role, calls |-> {}, id |-> 0, text |-> item.text, v |-> "none"]
           [] item.t = "call" -> [role |-> "assistant", calls |-> {item.id}, id |-> 0, text |-> 0, v |-> "none"]
           [] item.t = "output" -> [role |-> "tool", calls |-> {}, id |-> item.id, text |-> 0, v |-> ChatOutput(item.v)]]

-----------------------------------------------------------------------------
(* What must hold.                                                         *)

\* What was said is all there, by whom it was said, each once and in order: a
\* text is the number of its turn.
Speaker(who) == IF who = "model" THEN "assistant" ELSE "user"
NothingLost(messages) ==
  /\ {<<m.role, m.text>> : m \in {n \in ToSet(messages) : n.text > 0}}
       = {<<Speaker(turn.who), turn.text>> : turn \in {u \in ToSet(turns) : u.text > 0}}
  /\ \A j, k \in DOMAIN messages :
       j < k /\ messages[j].text > 0 /\ messages[k].text > 0 => messages[j].text < messages[k].text
CallsMade == UNION {ToSet(turns[k].calls) : k \in DOMAIN turns}

\* Codex pairs the output of a tool with its call by call_id: for every client
\* but Gemini's the call comes before it.
PairsAt(items, k) ==
  items[k].t = "output" => (\E j \in 1..(k - 1) : items[j].t = "call" /\ items[j].id = items[k].id)
CodexPairs ==
  client # "gemini" => LET items == Items IN \A k \in DOMAIN items : items[k].name \in CallsMade => PairsAt(items, k)

\* Grok's history has every output right behind its call, once, whatever the
\* order the tools answered in; nothing that was said is lost or moved.
GrokPairs ==
  LET sent == ToGrok
  IN  /\ \A k \in DOMAIN sent : sent[k].t = "output" /\ sent[k].id \in CallNames(sent) =>
           k > 1 /\ sent[k - 1].t = "call" /\ sent[k - 1].id = sent[k].id
      /\ client # "gemini" => \A k \in DOMAIN turns : turns[k].output.id # 0 =>
           \E j \in DOMAIN sent :
             {i \in DOMAIN sent : sent[i].t = "output" /\ sent[i].id = turns[k].output.id} = {j}
      /\ NothingLost(sent)

\* Antigravity's contents alternate and end with the user's; an output is named
\* after its call; no call of the last content but one is left unanswered, when
\* the client's history has no call that waits for its tool before the end.
CloudAlternates ==
  LET sent == ToCloud
  IN  /\ \A k \in 1..(Len(sent) - 1) : sent[k].role # sent[k + 1].role
      /\ sent # <<>> => Last(sent).role = "user"
      /\ \A k \in DOMAIN sent : \A n \in DOMAIN sent[k].parts :
           LET part == sent[k].parts[n]
           IN  part.p = "response" /\ part.v # "ok" =>
                 \E j \in 1..(k - 1) : \E m \in DOMAIN sent[j].parts :
                   sent[j].parts[m].p = "call" /\ sent[j].parts[m].id = part.id /\ sent[j].parts[m].name = part.name
CloudAnswers ==
  LET sent == ToCloud
      last == Last(turns)
      Answers(k, part) == /\ k < Len(sent)
                          /\ \E m \in DOMAIN sent[k + 1].parts :
                               sent[k + 1].parts[m].p = "response" /\ sent[k + 1].parts[m].id = part.id
  IN  /\ client # "gemini" /\ \A n \in DOMAIN turns : turns[n].who # "inline"
      /\ Outstanding = {} \/ (last.who = "model" /\ Outstanding = ToSet(last.calls))
      => \A k \in {Len(sent) - 1, Len(sent)} \cap DOMAIN sent : \A n \in DOMAIN sent[k].parts :
           sent[k].parts[n].p = "call" => Answers(k, sent[k].parts[n])

\* WorkBuddy gets what was said in order, and every output after its call.
WorkbuddyKeeps ==
  LET sent == ToWorkbuddy
  IN  /\ NothingLost(sent)
      /\ client \in {"chat", "anthropic"} =>
           \A k \in DOMAIN turns : turns[k].output.id \in CallsMade \ {0} =>
             \E i, j \in DOMAIN sent : i < j /\ turns[k].output.id \in sent[i].calls /\ sent[j].id = turns[k].output.id
=============================================================================
