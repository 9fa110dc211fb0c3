------------------------------ MODULE HttpPool ------------------------------
(***************************************************************************)
(* The connections to the upstreams: one shared client with its pool,      *)
(* replaced when a request finds no connection in time, and the replaced   *)
(* ones, which their streams may use up until a task closes them.          *)
(* src/app/http_client.py, and open_responses, open_grok_request and       *)
(* post_image of src/app/codex_gateway.py, which ask for the replacement.  *)
(*                                                                         *)
(* What runs under _client_lock has no await in it and is one step.        *)
(* Clients are numbered in the order they are built.  Time is in ticks,    *)
(* and whoever can go on does so within a tick.                            *)
(***************************************************************************)
EXTENDS Integers, FiniteSets

CONSTANTS Requests,
          Connections,  \* gateway_max_connections
          Wait,         \* gateway_pool_timeout_seconds
          Drain,        \* gateway_pool_drain_seconds
          MaxClients    \* bound: clients built

PoolAssumption ==
  /\ Connections \in Nat \ {0} /\ Wait \in Nat \ {0} /\ MaxClients \in Nat \ {0}
  /\ Drain \in Nat /\ Wait < Drain

VARIABLES
  current,    \* _shared_client; 0 for none
  made,       \* clients built
  open,       \* clients that are not closed
  retirement, \* _close_retired_client() of each, and the ticks it still sleeps
  request,    \* what each request is at, on which client, and since when
  closing,    \* close_shared_client(): "no", "waits" for the tasks it cancelled, "done"
  hand,       \* the clients it is to close
  exhausted   \* history: the clients a request waited on in vain

vars == <<current, made, open, retirement, request, closing, hand, exhausted>>

Clients == 1..MaxClients
Phases == {"idle", "waiting", "refused", "streaming", "cut"}
Idle == [pc |-> "idle", client |-> 0, age |-> 0]

TypeOK ==
  /\ current \in 0..MaxClients /\ made \in 0..MaxClients /\ open \subseteq 1..made
  /\ retirement \in [Clients -> [task : {"none", "new", "asleep", "cancelled", "over"}, left : 0..Drain]]
  /\ request \in [Requests -> [pc : Phases, client : 0..MaxClients, age : 0..Drain]]
  /\ closing \in {"no", "waits", "done"} /\ hand \subseteq Clients /\ exhausted \subseteq Clients

Init ==
  /\ current = 0 /\ made = 0 /\ open = {} /\ hand = {} /\ exhausted = {} /\ closing = "no"
  /\ retirement = [c \in Clients |-> [task |-> "none", left |-> 0]]
  /\ request = [r \in Requests |-> Idle]

At(r, pc) == request[r].pc = pc
Goes(r, pc) == request' = [request EXCEPT ![r].pc = pc, ![r].age = 0]
Streams(c) == {r \in Requests : At(r, "streaming") /\ request[r].client = c}
Build == made < MaxClients /\ made' = made + 1 /\ current' = made + 1 /\ open' = open \cup {made + 1}

-----------------------------------------------------------------------------
(* Requests.                                                               *)

\* shared_client(): the pool there is, or the first one.
Begin(r) ==
  /\ At(r, "idle")
  /\ IF current = 0 THEN Build ELSE UNCHANGED <<current, made, open>>
  /\ request' = [request EXCEPT ![r] = [pc |-> "waiting", client |-> current', age |-> 0]]
  /\ UNCHANGED <<retirement, closing, hand, exhausted>>

Free(c) == c \in open /\ Cardinality(Streams(c)) < Connections

Connect(r) ==
  /\ At(r, "waiting") /\ Free(request[r].client)
  /\ Goes(r, "streaming")
  /\ UNCHANGED <<current, made, open, retirement, closing, hand, exhausted>>

\* httpx.PoolTimeout.
TimeOut(r) ==
  /\ At(r, "waiting") /\ request[r].age = Wait
  /\ Goes(r, "refused") /\ exhausted' = exhausted \cup {request[r].client}
  /\ UNCHANGED <<current, made, open, retirement, closing, hand>>

\* Another request's timeout may have replaced the client already.
Replaces(r) == current = request[r].client
RetiredAtOnce(c) == [retirement EXCEPT ![c] = [task |-> "new", left |-> 0]]
Retired(c) == [retirement EXCEPT ![c] = [task |-> "new", left |-> Drain]]
Rotate(r) ==
  /\ At(r, "refused")
  /\ IF current = 0 THEN Build /\ UNCHANGED retirement
     ELSE IF Replaces(r) THEN Build /\ retirement' = Retired(current)
     ELSE UNCHANGED <<current, made, open, retirement>>
  /\ request' = [request EXCEPT ![r] = Idle]
  /\ UNCHANGED <<closing, hand, exhausted>>

\* The answer is complete, or what is left of a cut one is given up.
End(r) ==
  /\ At(r, "streaming") \/ At(r, "cut")
  /\ request' = [request EXCEPT ![r] = Idle]
  /\ UNCHANGED <<current, made, open, retirement, closing, hand, exhausted>>

-----------------------------------------------------------------------------
(* Closing.                                                                *)

\* aclose(): whoever still streams through these clients is cut off.
Closed(cs) ==
  /\ open' = open \ cs
  /\ request' = [r \in Requests |-> IF \E c \in cs : r \in Streams(c) THEN [request[r] EXCEPT !.pc = "cut"] ELSE request[r]]

Becomes(c, task) == retirement' = [retirement EXCEPT ![c].task = task]

Sleep(c) ==
  /\ retirement[c].task = "new" /\ Becomes(c, "asleep")
  /\ UNCHANGED <<current, made, open, request, closing, hand, exhausted>>

\* After its sleep, or in the finally clause of a cancelled one.
CloseRetired(c) ==
  /\ \/ retirement[c].task = "asleep" /\ retirement[c].left = 0
     \/ retirement[c].task = "cancelled"
  /\ Closed({c}) /\ Becomes(c, "over")
  /\ UNCHANGED <<current, made, closing, hand, exhausted>>

Retiring == {c \in Clients : retirement[c].task \in {"new", "asleep"}}
InHand == Retiring \cup ({current} \ {0})

\* A task that is cancelled before its first step never enters its try.
CloseBegin ==
  /\ closing = "no" /\ closing' = "waits"
  /\ hand' = InHand /\ current' = 0
  /\ retirement' = [c \in Clients |->
       IF c \in Retiring
       THEN [retirement[c] EXCEPT !.task = IF @ = "new" THEN "over" ELSE "cancelled"]
       ELSE retirement[c]]
  /\ UNCHANGED <<made, open, request, exhausted>>

CloseEnd ==
  /\ closing = "waits" /\ \A c \in Clients : retirement[c].task # "cancelled"
  /\ closing' = "done" /\ Closed(hand)
  /\ UNCHANGED <<current, made, retirement, hand, exhausted>>

-----------------------------------------------------------------------------
Older(n) == IF n < Drain THEN n + 1 ELSE n

\* Nobody who can go on is left behind by the clock.
Tick ==
  /\ \A r \in Requests : ~At(r, "refused") /\ (At(r, "waiting") => request[r].age < Wait /\ ~Free(request[r].client))
  /\ \A c \in Clients : /\ retirement[c].task \notin {"new", "cancelled"}
                        /\ retirement[c].task = "asleep" => retirement[c].left > 0
  /\ request' = [r \in Requests |->
       IF At(r, "waiting") \/ At(r, "streaming") THEN [request[r] EXCEPT !.age = Older(@)] ELSE request[r]]
  /\ retirement' = [c \in Clients |->
       IF retirement[c].task = "asleep" THEN [retirement[c] EXCEPT !.left = @ - 1] ELSE retirement[c]]
  /\ UNCHANGED <<current, made, open, closing, hand, exhausted>>

Next ==
  \/ \E r \in Requests : Begin(r) \/ Connect(r) \/ TimeOut(r) \/ Rotate(r) \/ End(r)
  \/ \E c \in Clients : Sleep(c) \/ CloseRetired(c)
  \/ CloseBegin \/ CloseEnd \/ Tick

Spec == Init /\ [][Next]_vars

-----------------------------------------------------------------------------
(* Properties.                                                             *)

\* A client is replaced only when a request waited on it in vain: requests that
\* timed out together replace it once, and not its successor as well
\* (rotate_shared_client).
RetiredForCause == \A c \in Clients : retirement[c].task # "none" => c \in exhausted

\* No client is forgotten: whatever is open is the shared one, has a task that
\* will close it, or is closed by the shutdown; and after that only what was
\* built later is open (close_shared_client, _close_retired_client).
NoneForgotten ==
  /\ \A c \in open : \/ c = current \/ retirement[c].task \in {"new", "asleep", "cancelled"}
                     \/ closing = "waits" /\ c \in hand
  /\ closing = "done" => open \cap hand = {}

\* "allowing existing streams to drain": while the gateway is up, no stream is
\* cut that has not had the drain time, less the wait for its connection, which
\* it may have got from a pool that was being replaced (rotate_shared_client).
DrainedFirst ==
  [][\A r \in Requests : At(r, "streaming") /\ request'[r].pc = "cut" =>
       closing # "no" \/ request[r].age >= Drain - Wait]_vars
=============================================================================
