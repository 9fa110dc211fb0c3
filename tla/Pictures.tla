------------------------------ MODULE Pictures ------------------------------
(***************************************************************************)
(* Pictures, and what they cost: a call of the images endpoints            *)
(* (image_json_tracked, image_multipart), a response that is one picture   *)
(* (_synthetic_image_generation_lease), and the turn of a WorkBuddy model  *)
(* that asks for pictures and searches while its own stream still holds a  *)
(* permit of the account (WorkBuddyResponsesLease,                         *)
(* _workbuddy_hosted_followup).  src/app/codex_gateway.py,                 *)
(* src/app/wallet_engine.py.                                               *)
(*                                                                         *)
(* An action is what a coroutine does between two awaits; an upstream      *)
(* request and its inner retries (capacity, a refreshed token) are one.    *)
(* The hold is counted in pictures.  Grok's opener, which releases its     *)
(* permit by hand, is in CallLifecycle, as is the order of the last steps  *)
(* of a call, which is one action here.                                    *)
(***************************************************************************)
EXTENDS Integers, Sequences, FiniteSets

CONSTANTS Requests, Accounts, NoAccount,
          Limit,      \* settings.gateway_account_max_concurrency
          Afford,     \* pictures the hold of a call pays for
          MaxData,    \* pictures one answer may carry
          Kinds,      \* the kinds of calls: "endpoint", "synthetic", "hosted"
          Turns       \* hosted calls a turn may make, in order

PictureNames == NoAccount \notin Accounts
PictureBounds == Limit \in Nat \ {0} /\ Afford \in Nat \ {0} /\ MaxData \in Nat \ {0}
PictureTurns == Turns \subseteq Seq({"image", "search"}) /\ Kinds # {}

VARIABLES
  pc,     \* where the coroutine of the call is
  call,   \* what it knows (Calls)
  hold,   \* billing_requests.state
  bill,   \* pictures charged, pictures shown, and how the call ended
  free,   \* permits of each account's semaphore
  lost    \* permits that nobody gives back any more

vars == <<pc, call, hold, bill, free, lost>>

Phases == {"idle", "choosing", "ordering", "waiting", "asking", "fallback", "turn", "tools",
           "passing", "following", "ending", "done"}
Permits == {"seat", "post", "follow"}
Wants == {"picture", "turn", "follow"}
Ends == {"none", "success", "failed", "interrupted"}

\* wants: what the next upstream request is for.  has: the permits of the call.
\* got: pictures of the answer.  counted: context.billed_images.  priced: the
\* hold knows the price of a hosted picture.  extra: events of pictures still
\* to be passed on.  todo: hosted calls still to be made; search: one searched.
Calls == [kind : Kinds, on : Accounts \cup {NoAccount}, tries : Nat, wants : Wants, has : SUBSET Permits,
          got : 0..MaxData, counted : Nat, priced : BOOLEAN, extra : Nat, todo : Seq({"image", "search"}),
          search : BOOLEAN, end : Ends]

NewCall(kind) ==
  [kind |-> kind, on |-> NoAccount, tries |-> 0, wants |-> IF kind = "hosted" THEN "turn" ELSE "picture",
   has |-> {}, got |-> 0, counted |-> 0, priced |-> FALSE, extra |-> 0, todo |-> <<>>,
   search |-> FALSE, end |-> "none"]
NoBill == [paid |-> 0, shown |-> 0]

TypeOK ==
  /\ pc \in [Requests -> Phases]
  /\ call \in [Requests -> Calls]
  /\ hold \in [Requests -> {"none", "reserved", "settled", "pending", "released"}]
  /\ bill \in [Requests -> [paid : 0..Afford, shown : Nat]]
  /\ free \in [Accounts -> 0..Limit]
  /\ lost \in [Accounts -> 0..Limit]

Init ==
  /\ pc = [r \in Requests |-> "idle"]
  /\ call = [r \in Requests |-> NewCall(CHOOSE k \in Kinds : TRUE)]
  /\ hold = [r \in Requests |-> "none"]
  /\ bill = [r \in Requests |-> NoBill]
  /\ free = [a \in Accounts |-> Limit]
  /\ lost = [a \in Accounts |-> 0]

At(r, place) == pc[r] = place
Goes(r, place) == pc' = [pc EXCEPT ![r] = place]
Becomes(r, c) == call' = [call EXCEPT ![r] = c]
AtMost(n, bound) == IF n < bound THEN n ELSE bound

\* The call has failed, or is over, with c as it stands.
Closes(r, c, how) == Becomes(r, [c EXCEPT !.end = how]) /\ Goes(r, "ending")

\* The permit that c.wants is asked under: a stream keeps its own.
Permit(c) == CASE c.wants = "turn" -> "seat" [] c.wants = "follow" -> "follow" [] OTHER -> "post"
Without(c, permit) == [c EXCEPT !.has = @ \ {permit}]
Returns(r, n) == free' = [free EXCEPT ![call[r].on] = @ + n]
Released(r) == Returns(r, 1)

-----------------------------------------------------------------------------
(* The way to an upstream request.                                         *)

\* begin_call().  A response that is a picture knows its price only when the
\* tools of the payload name it: a tool_choice alone, or a tool among the input
\* items, makes the same picture without one (_prepare_budget).
Begin(r, kind, priced) ==
  /\ pc[r] \in {"idle", "done"}
  /\ priced => kind = "synthetic"
  /\ Becomes(r, [NewCall(kind) EXCEPT !.priced = priced])
  /\ hold' = [hold EXCEPT ![r] = "reserved"]
  /\ bill' = [bill EXCEPT ![r] = NoBill]
  /\ Goes(r, "choosing")
  /\ UNCHANGED <<free, lost>>

\* select_account(): which account is in RoutingLeases.  A first one is needed;
\* without a second one the first error stands.
Choose(r, a) ==
  /\ At(r, "choosing")
  /\ Becomes(r, [call[r] EXCEPT !.on = a])
  /\ Goes(r, "ordering")
  /\ UNCHANGED <<hold, bill, free, lost>>

NoneLeft(r) ==
  /\ At(r, "choosing")
  /\ Closes(r, call[r], "failed")
  /\ UNCHANGED <<hold, bill, free, lost>>

\* A file of a multipart request is of a wrong type, or too large.
BadFile(r) ==
  /\ At(r, "ordering")
  /\ call[r].kind = "endpoint" /\ call[r].tries = 0
  /\ Closes(r, call[r], "failed")
  /\ UNCHANGED <<hold, bill, free, lost>>

\* note_attempt(): the hold must still be a reservation.
Unchecked(r) == TRUE
Covered(r) == hold[r] = "reserved"
Order(r) ==
  /\ At(r, "ordering")
  /\ IF Covered(r)
     THEN /\ Becomes(r, [call[r] EXCEPT !.tries = @ + 1])
          /\ Goes(r, "waiting")
     ELSE Closes(r, call[r], "failed")
  /\ UNCHANGED <<hold, bill, free, lost>>

\* The semaphore of the account, or its queue's timeout: a 429, which an
\* endpoint tries again on another account.
Take(r) ==
  LET c == call[r]
  IN  /\ At(r, "waiting")
      /\ free[c.on] > 0
      /\ free' = [free EXCEPT ![c.on] = @ - 1]
      /\ Becomes(r, [c EXCEPT !.has = @ \cup {Permit(c)}])
      /\ Goes(r, "asking")
      /\ UNCHANGED <<hold, bill, lost>>

\* An error: the images endpoints try once more if it is a 401, 429, 502 or 503.
Errs(r, c, again) ==
  IF again /\ c.kind = "endpoint" /\ c.tries < 2
  THEN Becomes(r, c) /\ Goes(r, "choosing")
  ELSE Closes(r, c, "failed")
Queued(r) == free[call[r].on] = 0
QueueTimeout(r) ==
  /\ At(r, "waiting")
  /\ Queued(r)
  /\ Errs(r, call[r], TRUE)
  /\ UNCHANGED <<hold, bill, free, lost>>

-----------------------------------------------------------------------------
(* What the upstream does.                                                 *)

\* A rejection, a lost connection, an unreadable answer: the permit goes back.
\* After a 400, 404 or 405 a subscription asks the responses endpoint for the
\* picture under the same permit.
Fallback(r) ==
  /\ At(r, "asking") /\ call[r].wants = "picture"
  /\ call[r].kind # "hosted"
  /\ Goes(r, "fallback")
  /\ UNCHANGED <<call, hold, bill, free, lost>>

Refused(r, again) ==
  LET c == call[r]
  IN  /\ pc[r] \in {"asking", "fallback"}
      /\ Errs(r, Without(c, Permit(c)), again)
      /\ Released(r)
      /\ UNCHANGED <<hold, bill, lost>>

\* A picture came, in a list of n.  An endpoint answers with the list as it is.
Pictured(r, place) == pc[r] \in {"asking", "fallback"} /\ call[r].wants = "picture" /\ Goes(r, place)
Listed(r, n) ==
  /\ call[r].kind = "endpoint"
  /\ Pictured(r, "ending")
  /\ Becomes(r, [Without(call[r], "post") EXCEPT !.got = n, !.end = "success"])
  /\ Released(r)
  /\ UNCHANGED <<hold, bill, lost>>

\* The other two need the bytes of one picture, and may have to fetch them.
NoBytes(r) ==
  /\ call[r].kind # "endpoint"
  /\ Pictured(r, "ending")
  /\ Becomes(r, [Without(call[r], "post") EXCEPT !.end = "failed"])
  /\ Released(r)
  /\ UNCHANGED <<hold, bill, lost>>

\* They count the whole list, and pass on one picture.
Counted(c, n) == [Without(c, "post") EXCEPT !.counted = @ + n, !.extra = @ + 1]
Synthetic(r, n) ==
  /\ call[r].kind = "synthetic"
  /\ Pictured(r, "passing")
  /\ Becomes(r, Counted(call[r], n))
  /\ Released(r)
  /\ UNCHANGED <<hold, bill, lost>>

Hosted(r, n) ==
  /\ call[r].kind = "hosted"
  /\ Pictured(r, "tools")
  /\ Becomes(r, [Counted(call[r], n) EXCEPT !.todo = Tail(@), !.priced = TRUE])
  /\ Released(r)
  /\ UNCHANGED <<hold, bill, lost>>

\* response_format=url: the artifact store has no room for the pictures.
NoRoom(r) ==
  /\ At(r, "ending")
  /\ call[r].kind = "endpoint" /\ call[r].end = "success"
  /\ Closes(r, call[r], "failed")
  /\ UNCHANGED <<hold, bill, free, lost>>

\* open_workbuddy_chat(): the stream keeps the permit.
Opened(r) ==
  LET c == call[r]
  IN  /\ At(r, "asking") /\ c.wants # "picture"
      /\ Goes(r, IF c.wants = "turn" THEN "turn" ELSE "passing")
      /\ UNCHANGED <<call, hold, bill, free, lost>>

-----------------------------------------------------------------------------
(* The turn of a WorkBuddy model.                                          *)

\* The stream has ended; aiter_bytes() still holds its permit.
TurnEnds(r, todo) ==
  /\ At(r, "turn")
  /\ IF todo = <<>> THEN Closes(r, call[r], "success")
     ELSE Becomes(r, [call[r] EXCEPT !.todo = todo]) /\ Goes(r, "tools")
  /\ UNCHANGED <<hold, bill, free, lost>>

TurnBreaks(r) ==
  /\ At(r, "turn")
  /\ Closes(r, call[r], "failed")
  /\ UNCHANGED <<hold, bill, free, lost>>
Pays(c) == c.counted + 1 <= Afford
ImageTool(r) ==
  LET c == call[r]
  IN  /\ At(r, "tools")
      /\ c.todo # <<>> /\ Head(c.todo) = "image"
      /\ IF Pays(c) THEN Becomes(r, [c EXCEPT !.wants = "picture"]) /\ Goes(r, "ordering")
         ELSE Closes(r, c, "failed")
      /\ UNCHANGED <<hold, bill, free, lost>>

SearchTool(r) ==
  LET c == call[r]
  IN  /\ At(r, "tools")
      /\ c.todo # <<>> /\ Head(c.todo) = "search"
      /\ Becomes(r, [c EXCEPT !.todo = Tail(@), !.search = TRUE])
      /\ UNCHANGED <<pc, hold, bill, free, lost>>

ToolsEnd(r) ==
  LET c == call[r]
  IN  /\ At(r, "tools")
      /\ c.todo = <<>>
      /\ IF c.search THEN Becomes(r, [c EXCEPT !.wants = "follow"]) /\ Goes(r, "ordering")
         ELSE Goes(r, "passing") /\ UNCHANGED call
      /\ UNCHANGED <<hold, bill, free, lost>>

\* The finished pictures, one event each, then the second half of the answer.
Pass(r) ==
  LET c == call[r]
  IN  /\ At(r, "passing")
      /\ IF c.extra > 0
         THEN /\ bill' = [bill EXCEPT ![r].shown = @ + 1]
              /\ Becomes(r, [c EXCEPT !.extra = @ - 1])
              /\ UNCHANGED pc
         ELSE /\ IF "follow" \in c.has THEN Goes(r, "following") /\ UNCHANGED call
                 ELSE Closes(r, c, "success")
              /\ UNCHANGED bill
      /\ UNCHANGED <<hold, free, lost>>

FollowEnds(r, how) ==
  /\ At(r, "following")
  /\ Closes(r, Without(call[r], "follow"), how)
  /\ Released(r)
  /\ UNCHANGED <<hold, bill, lost>>

-----------------------------------------------------------------------------
(* The end of the call.                                                    *)
Closed(c, place) == IF place = "passing" THEN {"post"} ELSE {"post", "follow"}
Leaves(r) ==
  LET c == call[r]
      back == c.has \cap Closed(c, pc[r])
      gone == c.has \ (back \cup {"seat"})
  IN  /\ pc[r] \notin {"idle", "done", "ending"}
      /\ IF c.on = NoAccount THEN UNCHANGED <<free, lost>>
         ELSE /\ Returns(r, Cardinality(back))
              /\ lost' = [lost EXCEPT ![c.on] = @ + Cardinality(gone)]
      /\ Closes(r, [c EXCEPT !.has = @ \ (back \cup gone)], "interrupted")
      /\ UNCHANGED <<hold, bill>>
Reports(c) ==
  IF c.kind = "endpoint" THEN c.end = "success" ELSE c.counted > 0 \/ c.end = "success"
Charged(c) ==
  CASE c.kind = "endpoint" -> AtMost(c.got, Afford)
    [] c.kind # "endpoint" /\ c.priced -> AtMost(c.counted, Afford)
    [] OTHER -> 0
Finish(r) ==
  LET c == call[r]
  IN  /\ At(r, "ending")
      /\ IF "seat" \in c.has THEN Returns(r, 1) ELSE UNCHANGED free
      /\ Becomes(r, [c EXCEPT !.has = @ \ {"seat"}])
      /\ IF hold[r] = "reserved"
         THEN /\ hold' = [hold EXCEPT ![r] = IF Reports(c) THEN "settled" ELSE "released"]
              /\ bill' = [bill EXCEPT ![r] = [paid |-> IF Reports(c) THEN Charged(c) ELSE 0,
                     shown |-> IF c.kind = "endpoint" /\ c.end = "success" THEN c.got ELSE @.shown]]
         ELSE /\ bill' = [bill EXCEPT ![r].shown = IF c.kind = "endpoint" /\ c.end = "success" THEN c.got ELSE @]
              /\ UNCHANGED hold
      /\ Goes(r, "done")
      /\ UNCHANGED lost

\* expire_reservations(), a day later.
Expire(r) ==
  /\ hold[r] = "reserved" /\ ~At(r, "ending")
  /\ hold' = [hold EXCEPT ![r] = "released"]
  /\ UNCHANGED <<pc, call, bill, free, lost>>

-----------------------------------------------------------------------------

Goes_(r) ==
  \/ \E a \in Accounts : Choose(r, a)
  \/ Order(r) \/ Take(r) \/ QueueTimeout(r)
  \/ \E again \in BOOLEAN : Refused(r, again)
  \/ \E n \in 1..MaxData : Listed(r, n) \/ Synthetic(r, n) \/ Hosted(r, n)
  \/ NoBytes(r)
  \/ Opened(r)
  \/ \E todo \in Turns : TurnEnds(r, todo)
  \/ ImageTool(r) \/ SearchTool(r) \/ ToolsEnd(r) \/ Pass(r)
  \/ FollowEnds(r, "success")
  \/ Finish(r)

Happens(r) ==
  \/ \E kind \in Kinds, priced \in BOOLEAN : Begin(r, kind, priced)
  \/ NoneLeft(r) \/ BadFile(r) \/ Fallback(r) \/ NoRoom(r) \/ TurnBreaks(r)
  \/ FollowEnds(r, "failed")
  \/ Leaves(r) \/ Expire(r)

Next == \E r \in Requests : Goes_(r) \/ Happens(r)

Spec == Init /\ [][Next]_vars

\* A coroutine runs on; a queue and an upstream request have their timeouts.
FairSpec == Spec /\ \A r \in Requests : WF_vars(Goes_(r))

-----------------------------------------------------------------------------
(* Properties.                                                             *)

Held(a) == {h \in Requests \X Permits : call[h[1]].on = a /\ h[2] \in call[h[1]].has}

\* A permit of an account is free, held by a call that is under way, or lost
\* for good; and a call that is over holds none (semaphore.release() on every
\* path of _post_image and open_workbuddy_chat).
PermitsBack ==
  /\ \A a \in Accounts : free[a] + Cardinality(Held(a)) + lost[a] = Limit
  /\ \A r \in Requests : pc[r] \in {"idle", "done", "choosing"} => call[r].has = {}

\* A permit is lost only by a client that leaves while the pictures of a turn
\* are passed on ahead of a follow-up that is open already.
LostOnlyAhead ==
  [][\A a \in Accounts : lost'[a] > lost[a] =>
       \E r \in Requests : At(r, "passing") /\ call[r].on = a /\ "follow" \in call[r].has]_vars

\* An upstream request starts under a hold that is still reserved, a second
\* try and the hosted calls of a turn included (note_attempt, reserve): when it
\* has run out the call ends with a 409.
AskedUnderHold ==
  [][\A r \in Requests : call'[r].tries > call[r].tries => hold[r] = "reserved"]_vars

\* A call of the images endpoints that fails, or whose pictures can not be
\* stored, pays nothing, whatever was made for it (finish_call without usage).
FailedPaysNothing ==
  \A r \in Requests : At(r, "done") /\ call[r].kind = "endpoint" /\ call[r].end # "success" => bill[r].paid = 0

\* The pictures that a client has got within a response are on its bill, in
\* full, when the call is settled with their price known
\* (prepare_image_price(billed_images + 1) before each of them).
ShownArePaid ==
  \A r \in Requests :
    At(r, "done") /\ call[r].kind # "endpoint" /\ call[r].priced /\ hold[r] = "settled"
      => bill[r].shown <= bill[r].paid
=============================================================================
