--------------------------- MODULE ProviderStreams ---------------------------
(***************************************************************************)
(* What the providers' translators make of an answer: a sequence of        *)
(* Responses events.  src/app/providers/{antigravity,workbuddy}.py.        *)
(*                                                                         *)
(* An answer is a sequence of parts: a text, or a function call with its   *)
(* id, its name and its arguments.  Texts and arguments are sequences of   *)
(* fragments, ids and names are numbers; 0 is the empty string.  Only the  *)
(* events that some client protocol reads are here.                        *)
(***************************************************************************)
EXTENDS Integers, Sequences, SequencesExt, Collections

Text(v) == [kind |-> "text", id |-> 0, name |-> 0, v |-> v, signed |-> FALSE]
Call(id, name, v) == [kind |-> "call", id |-> id, name |-> name, v |-> v, signed |-> FALSE]
Signed(part) == [part EXCEPT !.signed = TRUE]
IsCall(part) == part.kind = "call"
IsText(part) == part.kind = "text"
CallsOf(parts) == Only(parts, {part \in ToSet(parts) : IsCall(part)})
\* The values at some of the places of a sequence, joined.
JoinOf(s, P) ==
  LET f[n \in 0..Len(s)] == IF n = 0 THEN <<>> ELSE IF n \in P THEN f[n - 1] \o s[n].v ELSE f[n - 1]
  IN  f[Len(s)]
AllText(parts) == JoinOf(parts, {n \in DOMAIN parts : IsText(parts[n])})

\* The events: item is the id of the output item, call and name are the
\* function call's, v is a delta or the whole.
Event(t, item, call, name, v) == [t |-> t, item |-> item, call |-> call, name |-> name, v |-> v]
Created == Event("created", 0, 0, 0, <<>>)
TextDelta(v) == Event("text", 0, 0, 0, v)
Refusal == Event("refusal", 0, 0, 0, <<"blocked">>)
Added(item, call, name, v) == Event("added", item, call, name, v)
ArgsDelta(item, call, v) == Event("args", item, call, 0, v)
Done(item, call, name, v) == Event("done", item, call, name, v)
\* Completed and incomplete carry the output of the whole response.
Ended(t, parts) == Event(t, 0, 0, 0, parts)
Failed == Event("failed", 0, 0, 0, <<>>)

ItemId(n) == 100 + n

-----------------------------------------------------------------------------
(* Antigravity: the payloads of one answer are all read, then turned into  *)
(* events at once.                                                         *)

\* _merge_extracted_function_call(): the stream repeats a call as a snapshot;
\* the last one counts, unless it lost the signature that the earlier had.
MergeAppend(calls, call) == Append(calls, call)
MergeCall(calls, call) ==
  LET same == {i \in DOMAIN calls : calls[i].id = call.id}
  IN  IF same = {} THEN Append(calls, call)
      ELSE LET i == CHOOSE j \in same : \A k \in same : j <= k
           IN  IF call.signed \/ ~calls[i].signed THEN [calls EXCEPT ![i] = call] ELSE calls

\* cloudcode_payloads_to_codex_sse() over the parts of all candidates.  A call
\* without a signature takes the last one that came before it.
CloudTake(acc, part) ==
  IF IsCall(part)
  THEN [acc EXCEPT !.calls = MergeCall(@, [id |-> part.id, name |-> part.name, v |-> part.v,
                                           signed |-> part.signed \/ acc.pending]),
                   !.pending = FALSE]
  ELSE [acc EXCEPT !.text = @ \o part.v, !.pending = @ \/ part.signed]
CloudCollect(parts) ==
  LET f[n \in 0..Len(parts)] ==
        IF n = 0 THEN [text |-> <<>>, calls |-> <<>>, pending |-> FALSE] ELSE CloudTake(f[n - 1], parts[n])
  IN  f[Len(parts)]
CallEvents(n, call) ==
  << Added(ItemId(n), call.id, call.name, <<>>),
     ArgsDelta(ItemId(n), call.id, call.v),
     Done(ItemId(n), call.id, call.name, call.v) >>
CloudEvents(parts, blocked) ==
  LET all == CloudCollect(parts)
      calls == IF blocked THEN <<>> ELSE all.calls
      message == IF all.text = <<>> THEN <<>> ELSE <<Text(all.text)>>
      output == message \o [n \in DOMAIN calls |-> Call(calls[n].id, calls[n].name, calls[n].v)]
  IN  <<Created>>
      \o (IF blocked THEN <<Refusal>> ELSE IF all.text = <<>> THEN <<>> ELSE <<TextDelta(all.text)>>)
      \o FlattenSeq([n \in DOMAIN calls |-> CallEvents(n, calls[n])])
      \o <<Ended("completed", output)>>

-----------------------------------------------------------------------------
(* WorkBuddy speaks chat completions.                                      *)

\* stream_chat_as_responses(): the items of the output so far.
WorkbuddyBegin == [output |-> <<>>, out |-> <<Created>>]
TextPiece(st, v) == v
WorkbuddyText(st, v) ==
  LET at == {i \in DOMAIN st.output : IsText(st.output[i])}
      piece == TextPiece(st, v)
  IN  IF at = {} THEN [output |-> Append(st.output, Text(v)), out |-> <<TextDelta(piece)>>]
      ELSE LET i == CHOOSE j \in at : TRUE
           IN  [output |-> [st.output EXCEPT ![i].v = @ \o v], out |-> <<TextDelta(piece)>>]

\* The item is announced as soon as the index is seen, before the id and the
\* name of this same delta are put into it.
WorkbuddyOpen(st, id, name) ==
  [output |-> Append(st.output, Call(id, name, <<>>)),
   out |-> <<Added(ItemId(Len(st.output) + 1), 0, 0, <<>>)>>]
NthCall(st, n) == CHOOSE i \in DOMAIN st.output : IsCall(st.output[i]) /\ Len(CallsOf(SubSeq(st.output, 1, i))) = n
WorkbuddyArgs(st, n, v) ==
  LET i == NthCall(st, n)
  IN  [output |-> [st.output EXCEPT ![i].v = @ \o v], out |-> <<ArgsDelta(ItemId(i), 0, v)>>]
WorkbuddyEnd(st) ==
  [output |-> st.output,
   out |-> FlattenSeq([i \in DOMAIN st.output |->
             LET item == st.output[i]
             IN  IF IsCall(item) THEN <<Done(ItemId(i), item.id, item.name, item.v)>> ELSE <<>>])
           \o <<Ended("completed", st.output)>>]

\* _collect_openai_chat(), chat_to_response() and response_sse(): the answer
\* that is collected first and translated then.
WorkbuddyWhole(parts) ==
  LET text == AllText(parts)
      calls == CallsOf(parts)
      output == (IF text = <<>> THEN <<>> ELSE <<Text(text)>>) \o calls
  IN  <<Created>>
      \o FlattenSeq([i \in DOMAIN output |->
           LET item == output[i]
           IN  IF IsText(item) THEN <<TextDelta(item.v)>>
               ELSE << Added(ItemId(i), item.id, item.name, item.v), ArgsDelta(ItemId(i), 0, item.v),
                       Done(ItemId(i), item.id, item.name, item.v) >>])
      \o <<Ended("completed", output)>>
=============================================================================
