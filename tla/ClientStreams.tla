---------------------------- MODULE ClientStreams ----------------------------
(***************************************************************************)
(* What the client protocols make of the Responses events: the chunks of a *)
(* stream and the whole answer.  src/app/providers/{codex_protocol,        *)
(* anthropic_protocol,gemini_protocol}.py.                                 *)
(*                                                                         *)
(* A converter takes its state and an event to the next state and the      *)
(* chunks it sends; finalize_ turns the last state into one answer.        *)
(***************************************************************************)
EXTENDS ProviderStreams

Blank == [text |-> <<>>, tools |-> <<>>, next |-> 0, open |-> -1, kind |-> "none",
          stop |-> "none", completed |-> <<>>, error |-> FALSE]
Tell(st, out) == [st |-> st, out |-> out]
Silent(st) == Tell(st, <<>>)

Chunk(k, i, id, name, v) == [k |-> k, i |-> i, id |-> id, name |-> name, v |-> v]
Plain(k) == Chunk(k, 0, 0, 0, <<>>)
Tool(item, call, name, v) == [item |-> item, call |-> call, name |-> name, v |-> v]

-----------------------------------------------------------------------------
(* Chat completions.                                                       *)

\* _tool_state(): the entry of an event's item, new at the end when none has
\* its item id or its call id.
Key(e) == IF e.item # 0 THEN e.item ELSE e.call
CallId(e) == IF e.call # 0 THEN e.call ELSE Key(e)
Entry(st, e) ==
  LET same == {i \in DOMAIN st.tools : st.tools[i].item = Key(e) \/ (e.call # 0 /\ st.tools[i].call = e.call)}
  IN  IF same = {} THEN Len(st.tools) + 1 ELSE CHOOSE i \in same : \A j \in same : i <= j
WithEntry(st, e, v) ==
  IF Entry(st, e) \in DOMAIN st.tools THEN st
  ELSE [st EXCEPT !.tools = Append(@, Tool(Key(e), CallId(e), e.name, v))]
\* "length" stands for every reason of an incomplete answer, content_filter too.
FinishReason(st) == IF st.tools # <<>> THEN "tool_calls" ELSE "stop"
ChatTell(st, e) ==
  LET i == Entry(st, e)
      open == WithEntry(st, e, IF e.t = "args" THEN <<>> ELSE e.v)
      ends == [st EXCEPT !.completed = e.v]
  IN
  CASE e.t = "created" -> Tell([st EXCEPT !.text = <<>>], <<Plain("role")>>)
    [] e.t = "text" -> Tell([st EXCEPT !.text = @ \o e.v], <<Chunk("content", 0, 0, 0, e.v)>>)
    [] e.t = "refusal" -> Tell(st, <<Plain("refusal")>>)
    [] e.t = "added" -> Tell(open, <<Chunk("tool", i, open.tools[i].call, open.tools[i].name, <<>>)>>)
    [] e.t = "args" -> Tell([open EXCEPT !.tools[i].v = @ \o e.v], <<Chunk("tool", i, 0, 0, e.v)>>)
    [] e.t = "done" -> Silent([open EXCEPT !.tools[i].v = e.v, !.tools[i].name = e.name])
    [] e.t = "completed" -> Tell([ends EXCEPT !.stop = FinishReason(st)], <<Plain(FinishReason(st)), Plain("DONE")>>)
    [] e.t = "incomplete" -> Tell([ends EXCEPT !.stop = "length"], <<Plain("length"), Plain("DONE")>>)
    [] e.t = "failed" -> Tell([st EXCEPT !.error = TRUE], <<Plain("error"), Plain("DONE")>>)

\* finalize_chat_completion(): what the events did not bring is taken from the
\* output of the whole response.
ChatWhole(st) ==
  LET calls == CallsOf(st.completed)
  IN  [text |-> IF st.text # <<>> THEN st.text ELSE AllText(st.completed),
       calls |-> IF st.tools # <<>> THEN [i \in DOMAIN st.tools |-> Call(st.tools[i].call, st.tools[i].name, st.tools[i].v)]
                 ELSE calls]

-----------------------------------------------------------------------------
(* Anthropic messages: blocks with an index, one open at a time.           *)
Closing(st) == IF st.open = -1 THEN <<>> ELSE <<Chunk("block_stop", st.open, 0, 0, <<>>)>>
\* _open_text(), _open_tool()
OpenBlock(st, kind) == [st EXCEPT !.next = @ + 1, !.open = st.next, !.kind = kind]
BlockStart == [text |-> "block_start:text", tool |-> "block_start:tool"]
Start(st, kind, id, name) == Closing(st) \o <<Chunk(BlockStart[kind], st.next, id, name, <<>>)>>
LastTool(st) == Len(st.tools)
MessageEnds(st, stop) == Closing(st) \o <<Plain(stop), Plain("message_stop")>>

\* convert_sse_to_anthropic()
AnthropicTell(st, e) ==
  LET text == IF st.kind = "text" THEN st ELSE OpenBlock(st, "text")
      begin == IF st.kind = "text" THEN <<>> ELSE Start(st, "text", 0, 0)
      named == {i \in DOMAIN st.tools : st.tools[i].call = e.call \/ e.call = 0}
      stop == IF e.t = "incomplete" THEN "max_tokens" ELSE IF st.tools # <<>> THEN "tool_use" ELSE "end_turn"
      args == IF st.tools = <<>> THEN st ELSE [st EXCEPT !.tools[LastTool(st)].v = @ \o e.v]
  IN
  CASE e.t = "created" -> Tell([Blank EXCEPT !.stop = st.stop, !.completed = st.completed, !.error = st.error], <<Plain("message_start")>>)
    [] e.t = "text" ->
         Tell([text EXCEPT !.text = @ \o e.v], Append(begin, Chunk("text_delta", text.open, 0, 0, e.v)))
    [] e.t = "added" ->
         Tell([OpenBlock(st, "tool") EXCEPT !.tools = Append(@, Tool(0, CallId(e), e.name, <<>>))],
              Start(st, "tool", CallId(e), e.name))
    [] e.t = "args" ->
         Tell(args, IF st.open = -1 THEN <<>> ELSE <<Chunk("json_delta", st.open, 0, 0, e.v)>>)
    [] e.t = "done" ->
         Silent(IF named = {} THEN st
                ELSE LET i == CHOOSE j \in named : \A k \in named : j <= k
                     IN  [st EXCEPT !.tools[i].v = e.v, !.tools[i].name = e.name])
    [] e.t \in {"completed", "incomplete"} ->
         Tell([st EXCEPT !.open = -1, !.stop = stop, !.completed = e.v], MessageEnds(st, stop))
    [] e.t = "failed" -> Tell([st EXCEPT !.error = TRUE], <<Plain("error")>>)
    [] OTHER -> Silent(st)

\* finalize_anthropic_message()
AnthropicWhole(st) ==
  [text |-> st.text,
   calls |-> [i \in DOMAIN st.tools |-> Call(st.tools[i].call, st.tools[i].name, st.tools[i].v)]]

-----------------------------------------------------------------------------
(* Gemini: the calls are kept back and sent when the response ends.        *)

\* convert_sse_to_gemini()
GeminiTell(st, e) ==
  LET named == {i \in DOMAIN st.tools : st.tools[i].call = e.call \/ e.call = 0}
      finish == IF e.t = "completed" THEN "STOP" ELSE "MAX_TOKENS"
  IN
  CASE e.t = "created" -> Silent([st EXCEPT !.text = <<>>, !.tools = <<>>])
    [] e.t = "text" -> Tell([st EXCEPT !.text = @ \o e.v], <<Chunk("text", 0, 0, 0, e.v)>>)
    [] e.t = "added" -> Silent([st EXCEPT !.tools = Append(@, Tool(0, CallId(e), e.name, e.v))])
    [] e.t = "args" -> Silent(IF st.tools = <<>> THEN st ELSE [st EXCEPT !.tools[LastTool(st)].v = @ \o e.v])
    [] e.t = "done" ->
         Silent(IF named = {} THEN st
                ELSE LET i == CHOOSE j \in named : \A k \in named : j <= k
                     IN  [st EXCEPT !.tools[i].v = e.v, !.tools[i].name = e.name])
    [] e.t \in {"completed", "incomplete"} ->
         Tell([st EXCEPT !.completed = e.v],
              IF st.tools = <<>> THEN <<Plain(finish)>>
              ELSE [i \in DOMAIN st.tools |-> Chunk("call", 0, 0, st.tools[i].name, st.tools[i].v)])
    [] OTHER -> Silent(st)

\* finalize_gemini_response()
GeminiWhole(st) ==
  [text |-> st.text, calls |-> [i \in DOMAIN st.tools |-> Call(0, st.tools[i].name, st.tools[i].v)]]

-----------------------------------------------------------------------------
(* What a client makes of the chunks, by the rules of its protocol.        *)

ChatHeard(out) ==
  LET indexes == {out[p].i : p \in {q \in DOMAIN out : out[q].k = "tool"}}
      First(i) == CHOOSE p \in DOMAIN out : out[p].k = "tool" /\ out[p].i = i
                    /\ \A q \in 1..(p - 1) : ~(out[q].k = "tool" /\ out[q].i = i)
      ArgsOf(i) == JoinOf(out, {p \in DOMAIN out : out[p].k = "tool" /\ out[p].i = i})
  IN  [text |-> JoinOf(out, {p \in DOMAIN out : out[p].k = "content"}),
       calls |-> [i \in indexes |-> Call(out[First(i)].id, out[First(i)].name, ArgsOf(i))]]

AnthropicHeard(out) ==
  LET starts == Only(out, {c \in ToSet(out) : c.k = "block_start:tool"})
      ArgsOf(i) == JoinOf(out, {p \in DOMAIN out : out[p].k = "json_delta" /\ out[p].i = i})
  IN  [text |-> JoinOf(out, {p \in DOMAIN out : out[p].k = "text_delta"}),
       calls |-> [n \in DOMAIN starts |-> Call(starts[n].id, starts[n].name, ArgsOf(starts[n].i))]]

GeminiHeard(out) ==
  LET calls == Only(out, {c \in ToSet(out) : c.k = "call"})
  IN  [text |-> JoinOf(out, {p \in DOMAIN out : out[p].k = "text"}),
       calls |-> [n \in DOMAIN calls |-> Call(0, calls[n].name, calls[n].v)]]
=============================================================================
