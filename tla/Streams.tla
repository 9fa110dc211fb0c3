------------------------------- MODULE Streams -------------------------------
(***************************************************************************)
(* One streamed answer on its way from a provider to a client of another   *)
(* protocol: the provider's translator, stream_response() and the client's *)
(* converter.  src/app/codex_gateway.py, src/app/api/codex_gateway.py.     *)
(*                                                                         *)
(* The provider speaks in fragments.  Codex is external and speaks         *)
(* Responses events, one item after the other; WorkBuddy's calls are told  *)
(* apart by their index and may be mixed; Antigravity's answer comes whole *)
(* and repeats calls.  The same answer, collected instead of streamed, is  *)
(* Collected.                                                              *)
(***************************************************************************)
EXTENDS ClientStreams, FiniteSets

CONSTANTS Providers,  \* of "codex", "workbuddy", "antigravity"
          Clients,    \* of "chat", "anthropic", "gemini"
          MaxPieces   \* bounds what an answer says

PiecesAssumption ==
  /\ Providers \subseteq {"codex", "workbuddy", "antigravity"} /\ Clients \subseteq {"chat", "anthropic", "gemini"}
  /\ MaxPieces \in Nat

VARIABLES
  provider, client,
  said,     \* what the provider has said
  pieces,   \* in how many fragments; bounds the model
  closed,   \* the last call of Codex has ended
  items,    \* stream_chat_as_responses: its output
  conv,     \* the client converter's state
  sent,     \* the chunks sent to the client
  phase     \* of the stream

vars == <<provider, client, said, pieces, closed, items, conv, sent, phase>>

Phases == {"new", "open", "ended", "failed", "broken"}

TypeOK ==
  /\ provider \in Providers /\ client \in Clients
  /\ pieces \in 0..MaxPieces /\ Len(said) <= MaxPieces
  /\ closed \in BOOLEAN /\ phase \in Phases
  /\ Len(items) <= MaxPieces
  /\ conv.open < conv.next /\ conv.kind \in {"none", "text", "tool"}
  /\ \A i \in DOMAIN conv.tools : conv.tools[i].call # 0

Init ==
  /\ provider \in Providers /\ client \in Clients
  /\ (provider # "workbuddy" \/ client # "chat")  \* chat_request() passes WorkBuddy's own chunks through
  /\ said = <<>> /\ pieces = 0 /\ closed = TRUE /\ items = <<>>
  /\ conv = Blank /\ sent = <<>> /\ phase = "new"

Convert(to, st, e) ==
  CASE to = "chat" -> ChatTell(st, e)
    [] to = "anthropic" -> AnthropicTell(st, e)
    [] to = "gemini" -> GeminiTell(st, e)
ConvertAll(to, st, events) ==
  LET Then(acc, e) == LET told == Convert(to, acc.st, e) IN Tell(told.st, acc.out \o told.out)
      f[n \in 0..Len(events)] == IF n = 0 THEN Silent(st) ELSE Then(f[n - 1], events[n])
  IN  f[Len(events)]

\* One turn of stream_response() and of the client's stream.
Pass(events) ==
  LET told == ConvertAll(client, conv, events)
  IN  conv' = told.st /\ sent' = sent \o told.out

Fragment == pieces < MaxPieces /\ pieces' = pieces + 1
NewId == Len(CallsOf(said)) + 1
Steady == UNCHANGED <<provider, client>>

-----------------------------------------------------------------------------
(* What the provider says.                                                 *)

Begin ==
  /\ phase = "new" /\ phase' = "open"
  /\ IF provider = "antigravity" THEN UNCHANGED <<conv, sent>> ELSE Pass(<<Created>>)
  /\ UNCHANGED <<said, pieces, closed, items>> /\ Steady

SayText ==
  /\ phase = "open" /\ closed /\ Fragment
  /\ \E signed \in BOOLEAN :
       /\ signed => provider = "antigravity"
       /\ LET text == Text(<<pieces'>>) IN said' = Append(said, IF signed THEN Signed(text) ELSE text)
  /\ CASE provider = "codex" -> Pass(<<TextDelta(<<pieces'>>)>>) /\ UNCHANGED items
       [] provider = "workbuddy" ->
            LET next == WorkbuddyText([output |-> items, out |-> <<>>], <<pieces'>>)
            IN  items' = next.output /\ Pass(next.out)
       [] provider = "antigravity" -> UNCHANGED <<items, conv, sent>>
  /\ UNCHANGED <<closed, phase>> /\ Steady

\* A call begins; its arguments follow.
OpenCall ==
  /\ phase = "open" /\ closed /\ Fragment /\ provider # "antigravity"
  /\ said' = Append(said, Call(NewId, NewId, <<>>))
  /\ IF provider = "codex"
     THEN /\ Pass(<<Added(ItemId(Len(said')), NewId, NewId, <<>>)>>)
          /\ closed' = FALSE /\ UNCHANGED items
     ELSE LET next == WorkbuddyOpen([output |-> items, out |-> <<>>], NewId, NewId)
          IN  items' = next.output /\ Pass(next.out) /\ UNCHANGED closed
  /\ UNCHANGED phase /\ Steady

NthSaid(n) == CHOOSE i \in DOMAIN said : IsCall(said[i]) /\ said[i].id = n
SayArgs(n) ==
  /\ phase = "open" /\ Fragment /\ provider # "antigravity"
  /\ n \in 1..Len(CallsOf(said))
  /\ said' = [said EXCEPT ![NthSaid(n)].v = Append(@, pieces')]
  /\ IF provider = "codex"
     THEN /\ ~closed /\ NthSaid(n) = Len(said)
          /\ Pass(<<ArgsDelta(ItemId(Len(said)), 0, <<pieces'>>)>>) /\ UNCHANGED items
     ELSE LET next == WorkbuddyArgs([output |-> items, out |-> <<>>], n, <<pieces'>>)
          IN  items' = next.output /\ Pass(next.out)
  /\ UNCHANGED <<closed, phase>> /\ Steady

CloseCall ==
  /\ phase = "open" /\ ~closed /\ closed' = TRUE
  /\ LET call == Last(said) IN Pass(<<Done(ItemId(Len(said)), call.id, call.name, call.v)>>)
  /\ UNCHANGED <<said, pieces, items, phase>> /\ Steady

\* A whole call of Antigravity, new or told again.
SayCall ==
  /\ phase = "open" /\ provider = "antigravity" /\ Fragment
  /\ \E signed \in BOOLEAN, n \in 1..NewId :
       LET call == Call(n, n, <<n>>) IN said' = Append(said, IF signed THEN Signed(call) ELSE call)
  /\ UNCHANGED <<closed, items, conv, sent, phase>> /\ Steady

-----------------------------------------------------------------------------
(* How the stream ends.                                                    *)

Ends(t) ==
  CASE provider = "codex" -> <<Ended(t, said)>>
    [] provider = "workbuddy" -> WorkbuddyEnd([output |-> items, out |-> <<>>]).out
    [] provider = "antigravity" -> CloudEvents(said, FALSE)
Finish(t) ==
  /\ phase = "open" /\ closed /\ (t = "completed" \/ provider = "codex")
  /\ phase' = "ended" /\ Pass(Ends(t))
  /\ UNCHANGED <<said, pieces, closed, items>> /\ Steady

\* A blocked prompt has no answer.
Block ==
  /\ phase = "open" /\ provider = "antigravity" /\ said = <<>>
  /\ phase' = "ended" /\ Pass(CloudEvents(said, TRUE))
  /\ UNCHANGED <<said, pieces, closed, items>> /\ Steady

\* The provider reports a failure, or its stream ends without an end, or breaks
\* off; stream_response() tells the client either way, with an event "error".
Fail ==
  /\ phase = "open" /\ provider # "antigravity"
  /\ phase' = "failed" /\ Pass(<<Failed>>)
  /\ UNCHANGED <<said, pieces, closed, items>> /\ Steady

\* The connection stays open after the end of the answer and then breaks or
\* goes idle.
BreakLate ==
  /\ phase = "ended" /\ provider # "antigravity"
  /\ phase' = "broken"
  /\ IF client = "chat" THEN sent' = sent \o <<Plain("error"), Plain("DONE")>> /\ UNCHANGED conv
     ELSE Pass(<<Failed>>)
  /\ UNCHANGED <<said, pieces, closed, items>> /\ Steady

Next ==
  \/ Begin \/ SayText \/ OpenCall \/ CloseCall \/ SayCall \/ Block \/ Fail \/ BreakLate
  \/ \E n \in 1..MaxPieces : SayArgs(n)
  \/ \E t \in {"completed", "incomplete"} : Finish(t)

Spec == Init /\ [][Next]_vars

-----------------------------------------------------------------------------
(* What must hold.                                                         *)

\* What the client makes of the chunks, and what it gets as one answer when it
\* does not stream: the same events converted and finalized; WorkBuddy's answer
\* is collected before it is translated.
Heard == CASE client = "chat" -> ChatHeard(sent) [] client = "anthropic" -> AnthropicHeard(sent) [] OTHER -> GeminiHeard(sent)
Whole(st) == CASE client = "chat" -> ChatWhole(st) [] client = "anthropic" -> AnthropicWhole(st) [] OTHER -> GeminiWhole(st)
Collected == Whole(IF provider = "workbuddy" THEN ConvertAll(client, Blank, WorkbuddyWhole(said)).st ELSE conv)

\* What was said, once: a call that Antigravity repeats is the same call.
Once ==
  LET calls == CallsOf(said)
      first == {n \in DOMAIN calls : \A m \in 1..(n - 1) : calls[m].id # calls[n].id}
      f[n \in 0..Len(calls)] ==
        IF n = 0 THEN <<>> ELSE IF n \in first THEN Append(f[n - 1], [calls[n] EXCEPT !.signed = FALSE]) ELSE f[n - 1]
  IN  f[Len(calls)]
\* Gemini's protocol has no call ids.
Seen(calls) == [i \in DOMAIN calls |-> IF client = "gemini" THEN [calls[i] EXCEPT !.id = 0] ELSE calls[i]]
Says(answer) == answer.text = AllText(said) /\ Seen(answer.calls) = Seen(Once)

\* A client that streams an answer to its end hears every text and every call of
\* it, in order and once, with the arguments of the right call; but WorkBuddy's
\* calls, which lose their names on the way (section 4 of the README).
HeardIsSaid == phase = "ended" /\ provider # "workbuddy" => Says(Heard)

\* WorkBuddy's text arrives too; its calls lose their names.
TextIsHeard == phase = "ended" => Heard.text = AllText(said)

\* A client that does not stream gets the same answer.
CollectedIsSaid == phase = "ended" => Says(Collected)

\* The stream of a message is well formed: it starts once; its blocks, numbered
\* from 0, open and close one at a time; a delta is for the open block; the
\* reason to stop and the stop come last.
Position(k, i) == {p \in DOMAIN sent : sent[p].k = k /\ sent[p].i = i}
Starts == {p \in DOMAIN sent : sent[p].k \in {"block_start:text", "block_start:tool"}}
WellFormed ==
  client = "anthropic" =>
    /\ \A p \in DOMAIN sent : (sent[p].k = "message_start") <=> (p = 1)
    /\ \A p \in Starts :
         /\ sent[p].i = Cardinality({q \in Starts : q < p})
         /\ \A q \in Starts : q > p => \E r \in Position("block_stop", sent[p].i) : p < r /\ r < q
    /\ \A p \in DOMAIN sent : sent[p].k \in {"text_delta", "json_delta"} =>
         \E s \in Starts :
           /\ s < p /\ sent[s].i = sent[p].i /\ \A r \in Position("block_stop", sent[p].i) : r > p
           /\ provider = "codex" => (sent[s].k = "block_start:text") = (sent[p].k = "text_delta")
    /\ phase = "ended" =>
         /\ Last(sent).k = "message_stop" /\ conv.open = -1
         /\ \A s \in Starts : Cardinality(Position("block_stop", sent[s].i)) = 1

\* The reason to stop that the stream gives tells a truncated answer from a
\* finished one, and an answer with calls from one without.
StopReasons == {"stop", "tool_calls", "length", "end_turn", "tool_use", "max_tokens"}
StopsForAReason ==
  phase = "ended" /\ client # "gemini" =>
    LET reasons == {sent[p].k : p \in DOMAIN sent} \cap StopReasons
    IN  /\ Cardinality(reasons) = 1
        /\ reasons \subseteq {"tool_calls", "tool_use"} => CallsOf(said) # <<>>
        /\ reasons \subseteq {"stop", "end_turn"} => CallsOf(said) = <<>>
=============================================================================
