--------------------------- MODULE RoutingProofs ---------------------------
(***************************************************************************)
(* Theorems about the upstream accounts: RoutingLeases, for any accounts,  *)
(* requests and limit, and for any lease longer than the heartbeat's       *)
(* silence, and in sections of their own AccountHealth (Health), KeyRoutes *)
(* (Route) and Quotas (Quota).                                             *)
(*                                                                         *)
(* Neither SeatKept nor CapacityRespected is inductive: the heartbeat also  *)
(* renews seats it took over in an earlier state, and a renewed row must   *)
(* not be one that had expired.  Renewable bounds, for every seat the      *)
(* heartbeat knows, how long ago it was renewed: at the latest since the   *)
(* start of the current round if this round has served it already, at the  *)
(* latest since the start of the last full round otherwise.                *)
(***************************************************************************)
EXTENDS RoutingLeases, FiniteSetTheorems, TLAPS

Live == {"routed", "sending", "closing"}

\* The heartbeat's bookkeeping: whom it knows, and whom it still has to serve.
Known ==
  /\ \A r \in tracked : pc[r] \in Live \cup {"gone"}
  /\ \A r \in Requests : pc[r] \in {"routed", "sending"} => r \in tracked
  /\ round.phase = "asleep" => round.todo = {}
  /\ \A r \in round.todo : r \in tracked \/ pc[r] \in {"binding", "done"}
  /\ \A r \in Requests : pc[r] \in {"binding", "done"} => lease[r] = NoLease
  /\ round.age <= round.silent

\* How long ago a known seat was renewed, at most.
Renewable ==
  \A r \in tracked : pc[r] \in Live =>
    /\ lease[r].account \in Accounts
    /\ LeaseLife - lease[r].left <=
         IF round.phase = "asleep" \/ r \in round.todo THEN round.silent ELSE round.age

\* The seat of an open request is on its account, and new while the
\* coroutine of select() has not gone on.
Placed ==
  \A r \in Requests :
    /\ pc[r] \in {"granted", "routed", "sending"} =>
         account[r] \in Accounts /\ lease[r].account = account[r]
    /\ pc[r] = "granted" => lease[r].left = LeaseLife

IInv == TypeOK /\ Known /\ Renewable /\ Placed /\ CapacityRespected

----------------------------------------------------------------------------
(* Lemmas *)

\* A step that takes no seat keeps the capacity.
LEMMA SeatsShrink ==
  ASSUME NEW l, NEW m, NEW a, Cardinality(Seats(l, a)) <= Limit,
         \A r \in Requests : m[r].account = a /\ m[r].left > 0
                             => l[r].account = a /\ l[r].left > 0
  PROVE  Cardinality(Seats(m, a)) <= Limit
<1>1. IsFiniteSet(Seats(l, a))
  BY LeaseAssumption, FS_Subset DEF Seats
<1>2. Seats(m, a) \in SUBSET Seats(l, a)
  BY DEF Seats
<1>3. Cardinality(Seats(m, a)) <= Cardinality(Seats(l, a))
  BY <1>1, <1>2, FS_Subset
<1>4. Cardinality(Seats(m, a)) \in Nat /\ Cardinality(Seats(l, a)) \in Nat
  BY <1>1, <1>2, FS_Subset, FS_CardinalityType
<1>. QED  BY <1>3, <1>4, LeaseAssumption

\* One seat more than a set of fewer than Limit others.
LEMMA SeatTaken ==
  ASSUME NEW m, NEW a, NEW r \in Requests, NEW S \in SUBSET Requests,
         Cardinality(S) < Limit, Seats(m, a) \subseteq S \cup {r}
  PROVE  Cardinality(Seats(m, a)) <= Limit
<1>1. IsFiniteSet(S) /\ Cardinality(S) \in Nat
  BY LeaseAssumption, FS_Subset, FS_CardinalityType
<1>2. IsFiniteSet(S \cup {r}) /\ Cardinality(S \cup {r}) <= Cardinality(S) + 1
  BY <1>1, FS_AddElement
<1>3. Cardinality(Seats(m, a)) <= Cardinality(S \cup {r})
  BY <1>2, FS_Subset
<1>4. Cardinality(Seats(m, a)) \in Nat /\ Cardinality(S \cup {r}) \in Nat
  BY <1>2, FS_Subset, FS_CardinalityType
<1>. QED  BY <1>1, <1>2, <1>3, <1>4, LeaseAssumption

\* Whatever a selection reads, it only chooses accounts with an open seat.
LEMMA PoolOpen ==
  ASSUME NEW q, NEW seen, NEW swept, NEW a \in UNION Pools(q, seen, swept)
  PROVE  /\ a \in Accounts
         /\ Cardinality({s \in Requests \ swept : lease[s].account = a}) < Limit
<1>1. PICK d \in Readings : a \in Pool(q, d, seen, swept)
  BY DEF Pools
<1>2. d.fresh \subseteq Accounts
  BY DEF Readings
<1>3. ASSUME NEW A, a \in OpenSeats(A, d, swept)
      PROVE  a \in d.fresh /\ Cardinality({s \in Requests \ swept : lease[s].account = a}) < Limit
  BY <1>3 DEF OpenSeats
<1>4. \E A : a \in OpenSeats(A, d, swept)
  BY <1>1 DEF Pool, DynamicPool
<1>. QED  BY <1>2, <1>3, <1>4

\* The fields of the heartbeat, and how a step may change them.
LEMMA RoundType ==
  ASSUME NEW phase \in {"asleep", "renewing"}, NEW todo \in SUBSET Requests,
         NEW rows \in SUBSET Requests, NEW bindings \in SUBSET Tokens,
         NEW age \in 0..MaxSilence, NEW silent \in 0..MaxSilence, NEW failures \in 0..MaxFailures
  PROVE  [phase |-> phase, todo |-> todo, rows |-> rows, bindings |-> bindings,
          age |-> age, silent |-> silent, failures |-> failures] \in Rounds
BY DEF Rounds

\* A step of the heartbeat changes its record field by field.
LEMMA RoundSteps ==
  ASSUME round \in Rounds
  PROVE  /\ BeatStart =>
              round' = [phase |-> "renewing", todo |-> tracked, rows |-> ExpiredRows,
                        bindings |-> ExpiredBindings, age |-> 0, silent |-> round.silent,
                        failures |-> round.failures]
         /\ \A r \in Requests : BeatOne(r) =>
              round' = [phase |-> round.phase, todo |-> round.todo \ {r}, rows |-> round.rows,
                        bindings |-> round.bindings, age |-> round.age,
                        silent |-> round.silent, failures |-> round.failures]
         /\ BeatSweep =>
              round' = [phase |-> "asleep", todo |-> round.todo, rows |-> {}, bindings |-> {},
                        age |-> round.age, silent |-> round.age, failures |-> round.failures]
         /\ BeatFails =>
              round' = [phase |-> "asleep", todo |-> {}, rows |-> {}, bindings |-> {},
                        age |-> round.age, silent |-> round.silent,
                        failures |-> round.failures + 1]
         /\ Tick =>
              round' = [phase |-> round.phase, todo |-> round.todo, rows |-> round.rows,
                        bindings |-> round.bindings, age |-> round.age + 1,
                        silent |-> round.silent + 1, failures |-> round.failures]
         /\ Crash =>
              round' = [phase |-> "asleep", todo |-> {}, rows |-> {}, bindings |-> {},
                        age |-> 0, silent |-> 0, failures |-> round.failures]
<1>1. round = [phase |-> round.phase, todo |-> round.todo, rows |-> round.rows,
               bindings |-> round.bindings, age |-> round.age, silent |-> round.silent,
               failures |-> round.failures]
  BY DEF Rounds
<1>. QED  BY <1>1 DEF BeatStart, BeatOne, BeatSweep, BeatFails, Tick, Crash, Rounds

\* The initial state satisfies the invariant.
LEMMA InitInv == Init => IInv
<1>. SUFFICES ASSUME Init PROVE IInv
  OBVIOUS
<1>1. TypeOK
  BY LeaseAssumption DEF Init, TypeOK, Places, NoAsk, Asks, Reasons, NoLease, Leases,
     NoBinding, Bindings, Rounds
<1>2. Known /\ Renewable /\ Placed
  BY LeaseAssumption DEF Init, Known, Renewable, Placed
<1>3. CapacityRespected
  <2>. SUFFICES ASSUME NEW a \in Accounts PROVE Cardinality(Seats(lease, a)) <= Limit
    BY DEF CapacityRespected
  <2>1. Seats(lease, a) = {}
    BY DEF Init, Seats, NoLease
  <2>. QED  BY <2>1, FS_EmptySet, LeaseAssumption
<1>. QED  BY <1>1, <1>2, <1>3 DEF IInv

\* A known seat of an open request is unexpired: MaxSilence < LeaseLife.
LEMMA LiveSeat ==
  ASSUME IInv, NEW r \in Requests, pc[r] \in {"granted", "routed", "sending"} \/
                                    (r \in tracked /\ pc[r] \in Live)
  PROVE  lease[r].left > 0 /\ lease[r].account \in Accounts
<1>1. lease[r].left \in Int /\ round.age \in Int /\ round.silent \in Int
      /\ round.silent <= MaxSilence /\ round.age <= round.silent
  BY LeaseAssumption DEF IInv, TypeOK, Rounds, Leases, Known
<1>2. CASE pc[r] = "granted"
  BY <1>2, LeaseAssumption DEF IInv, Placed
<1>3. CASE pc[r] # "granted"
  <2>1. r \in tracked /\ pc[r] \in Live
    BY <1>3 DEF IInv, Known, Live
  <2>. QED  BY <1>1, <2>1, LeaseAssumption DEF IInv, Renewable
<1>. QED  BY <1>2, <1>3

----------------------------------------------------------------------------
(* Every step keeps the types *)

LEMMA TypeStep == TypeOK /\ round.age <= round.silent /\ [Next]_lvars => TypeOK'
<1>. SUFFICES ASSUME TypeOK, round.age <= round.silent, [Next]_lvars PROVE TypeOK'
  OBVIOUS
<1>. USE DEF TypeOK
<1>1. ASSUME NEW r \in Requests, NEW q \in Questions, NEW a \in Accounts, NEW seen \in BOOLEAN,
             NEW swept \in SUBSET ExpiredRows, Select(r, q, a, seen, swept)
      PROVE TypeOK'
  <2>1. ask' \in [Requests -> Asks]
    <3>1. [q EXCEPT !.via = RoutedVia(q, seen)] \in Asks
      BY RoutingNamesAssumption DEF Questions, Asks, Reasons, RoutedVia
    <3>. QED  BY <1>1, <3>1 DEF Select
  <2>2. lease' \in [Requests -> Leases]
    BY <1>1, LeaseAssumption DEF Select, NewLease, Leases, NoLease
  <2>3. binding' \in [Tokens -> Bindings]
    <3>1. q.conversation \in Conversations \cup {NoToken}
      BY DEF Questions
    <3>. QED  BY <1>1, <3>1 DEF Select, BoundConversation, Bindings, Tokens
  <2>. QED  BY <1>1, <2>1, <2>2, <2>3 DEF Select, Places
<1>2. ASSUME NEW r \in Requests, NEW q \in Questions, NEW seen \in BOOLEAN,
             NEW swept \in SUBSET ExpiredRows, SelectRefused(r, q, seen, swept)
      PROVE TypeOK'
  BY <1>2 DEF SelectRefused, Places
<1>3. ASSUME NEW r \in Requests, Track(r) PROVE TypeOK'
  BY <1>3 DEF Track, Places
<1>4. ASSUME NEW r \in Requests, NEW a \in Accounts, Occupy(r, a) PROVE TypeOK'
  BY <1>4, LeaseAssumption DEF Occupy, NewLease, Leases, Places
<1>5. ASSUME NEW r \in Requests, NEW a \in Accounts, OccupyRefused(r, a) PROVE TypeOK'
  BY <1>5 DEF OccupyRefused, Places
<1>6. ASSUME NEW r \in Requests, Answered(r) PROVE TypeOK'
  BY <1>6 DEF Answered, Places
<1>7. ASSUME NEW r \in Requests, Failed(r) PROVE TypeOK'
  BY <1>7 DEF Failed, Places
<1>8. ASSUME NEW r \in Requests, Release(r) PROVE TypeOK'
  BY <1>8, LeaseAssumption DEF Release, Places, NoLease, Leases
<1>9. ASSUME NEW r \in Requests, ReleaseFails(r) PROVE TypeOK'
  BY <1>9 DEF ReleaseFails, Places
<1>10. ASSUME NEW r \in Requests, BindResponse(r) PROVE TypeOK'
  BY <1>10 DEF BindResponse, Places, Bindings, Tokens
<1>11. ASSUME BeatStart PROVE TypeOK'
  <2>1. ExpiredRows \subseteq Requests /\ ExpiredBindings \subseteq Tokens
    BY DEF ExpiredRows, ExpiredBindings
  <2>2. round' \in Rounds
    BY <1>11, <2>1, RoundSteps, LeaseAssumption DEF Rounds
  <2>. QED  BY <1>11, <2>2 DEF BeatStart
<1>12. ASSUME NEW r \in Requests, BeatOne(r) PROVE TypeOK'
  BY <1>12, LeaseAssumption, SMTT(30) DEF BeatOne, Rounds, Renewed, NoLease, Leases
<1>13. ASSUME BeatSweep PROVE TypeOK'
  <2>1. round' \in Rounds
    BY <1>13, RoundSteps DEF Rounds
  <2>2. lease' \in [Requests -> Leases] /\ binding' \in [Tokens -> Bindings]
    BY <1>13, LeaseAssumption DEF BeatSweep, NoLease, Leases, NoBinding, Bindings
  <2>. QED  BY <1>13, <2>1, <2>2 DEF BeatSweep
<1>14. ASSUME BeatFails PROVE TypeOK'
  <2>1. round' \in Rounds
    BY <1>14, RoundSteps, LeaseAssumption DEF Rounds, BeatFails
  <2>. QED  BY <1>14, <2>1 DEF BeatFails
<1>15. ASSUME Tick PROVE TypeOK'
  <2>1. ASSUME NEW l \in Leases PROVE Older(l) \in Leases
    BY LeaseAssumption DEF Older, Leases
  <2>2. lease' \in [Requests -> Leases]
    BY <1>15, <2>1 DEF Tick
  <2>3. round' \in Rounds
    <3>1. round.age + 1 \in 0..MaxSilence /\ round.silent + 1 \in 0..MaxSilence
      BY <1>15, LeaseAssumption DEF Tick, Rounds
    <3>. QED  BY <1>15, <3>1, RoundSteps DEF Rounds
  <2>. QED  BY <1>15, <2>2, <2>3 DEF Tick
<1>16. ASSUME NEW t \in Tokens, BindingExpires(t) PROVE TypeOK'
  BY <1>16 DEF BindingExpires, Bindings
<1>17. ASSUME Crash PROVE TypeOK'
  <2>1. round' \in Rounds
    BY <1>17, RoundSteps, LeaseAssumption DEF Rounds
  <2>. QED  BY <1>17, <2>1 DEF Crash, Places
<1>18. CASE UNCHANGED lvars
  BY <1>18 DEF lvars
<1>. QED
  BY <1>1, <1>2, <1>3, <1>4, <1>5, <1>6, <1>7, <1>8, <1>9, <1>10, <1>11, <1>12, <1>13, <1>14,
     <1>15, <1>16, <1>17, <1>18 DEF Next, Handlers, Heartbeat

----------------------------------------------------------------------------
(* Every step keeps the invariant *)

Strong == Known /\ Renewable /\ Placed /\ CapacityRespected

\* A step that leaves the seats, the heartbeat and the owners alone.
LEMMA QuietStep ==
  ASSUME IInv, NEW r \in Requests, NEW p,
         pc' = [pc EXCEPT ![r] = p], lease' = lease, account' = account, round' = round,
         tracked' = tracked, p \in {"closing", "gone", "done"},
         p = "closing" => pc[r] \in {"idle", "granted", "routed", "sending"},
         p = "gone" => pc[r] = "closing",
         p = "done" => pc[r] = "binding"
  PROVE  Strong'
<1>. USE DEF IInv, TypeOK
<1>1. Known'
  BY DEF Known, Live
<1>2. Renewable'
  <2>. SUFFICES ASSUME NEW q \in tracked, pc'[q] \in Live
       PROVE /\ lease[q].account \in Accounts
             /\ LeaseLife - lease[q].left <=
                  IF round.phase = "asleep" \/ q \in round.todo THEN round.silent ELSE round.age
    BY DEF Renewable
  <2>1. pc[q] \in Live
    BY DEF Known, Live
  <2>. QED  BY <2>1 DEF Renewable
<1>3. Placed'
  BY DEF Placed
<1>4. CapacityRespected'
  BY DEF CapacityRespected
<1>. QED  BY <1>1, <1>2, <1>3, <1>4 DEF Strong

LEMMA SelectStep ==
  ASSUME IInv, NEW r \in Requests, NEW q \in Questions, NEW a \in Accounts, NEW seen \in BOOLEAN,
         NEW swept \in SUBSET ExpiredRows, Select(r, q, a, seen, swept)
  PROVE  Strong'
<1>. USE DEF IInv, TypeOK
<1>1. /\ pc[r] = "idle" /\ pc' = [pc EXCEPT ![r] = "granted"]
      /\ tracked' = tracked /\ round' = round
      /\ account' = [account EXCEPT ![r] = a]
      /\ lease' = [[s \in Requests |-> IF s \in swept THEN NoLease ELSE lease[s]]
                    EXCEPT ![r] = NewLease(a)]
      /\ a \in UNION Pools(q, seen, swept)
  BY DEF Select
<1>2. r \notin tracked
  BY <1>1 DEF Known, Live
<1>3. \A s \in Requests \ {r} : lease'[s] = IF s \in swept THEN NoLease ELSE lease[s]
  BY <1>1
<1>4. lease'[r].account = a /\ lease'[r].left = LeaseLife
  BY <1>1 DEF NewLease
<1>5. \A s \in swept : lease[s].left = 0
  BY DEF ExpiredRows, Expired
<1>6. \A s \in Requests \ {r} : pc[s] \in {"granted", "routed", "sending"} \/
                               (s \in tracked /\ pc[s] \in Live) => lease'[s] = lease[s]
  BY <1>3, <1>5, LiveSeat
<1>7. Known'
  BY <1>1, <1>2, <1>3 DEF Known, Live
<1>8. Renewable'
  BY <1>1, <1>2, <1>6 DEF Renewable
<1>9. Placed'
  BY <1>1, <1>4, <1>6 DEF Placed
<1>10. CapacityRespected'
  <2>. SUFFICES ASSUME NEW b \in Accounts PROVE Cardinality(Seats(lease', b)) <= Limit
    BY DEF CapacityRespected
  <2>1. CASE b = a
    <3>. DEFINE S == {s \in Requests \ swept : lease[s].account = a}
    <3>1. Cardinality(S) < Limit
      BY <1>1, PoolOpen
    <3>2. Seats(lease', a) \subseteq S \cup {r}
      BY <1>3, RoutingNamesAssumption DEF Seats, NoLease
    <3>. QED  BY <2>1, <3>1, <3>2, SeatTaken
  <2>2. CASE b # a
    <3>1. \A s \in Requests : lease'[s].account = b /\ lease'[s].left > 0
                            => lease[s].account = b /\ lease[s].left > 0
      BY <1>3, <1>4, <2>2, RoutingNamesAssumption DEF NoLease
    <3>. QED  BY <3>1, SeatsShrink DEF CapacityRespected
  <2>. QED  BY <2>1, <2>2
<1>. QED  BY <1>7, <1>8, <1>9, <1>10 DEF Strong

LEMMA OccupyStep ==
  ASSUME IInv, NEW r \in Requests, NEW a \in Accounts, Occupy(r, a)
  PROVE  Strong'
<1>. USE DEF IInv, TypeOK
<1>1. /\ pc[r] \in {"routed", "sending"} /\ pc' = [pc EXCEPT ![r] = "sending"]
      /\ tracked' = tracked \cup {r} /\ round' = round
      /\ account' = [account EXCEPT ![r] = a]
      /\ lease' = [lease EXCEPT ![r] = NewLease(a)]
  BY DEF Occupy
<1>2. lease'[r].account = a /\ lease'[r].left = LeaseLife
  BY <1>1 DEF NewLease
<1>3. \A s \in Requests \ {r} : lease'[s] = lease[s] /\ pc'[s] = pc[s]
  BY <1>1
<1>4. Known'
  BY <1>1, <1>3 DEF Known, Live
<1>5. Renewable'
  <2>1. round.age \in Nat /\ round.silent \in Nat
    BY LeaseAssumption DEF Rounds
  <2>. QED  BY <1>1, <1>2, <1>3, <2>1, LeaseAssumption DEF Renewable, Live
<1>6. Placed'
  BY <1>1, <1>2, <1>3 DEF Placed
<1>7. CapacityRespected'
  <2>. SUFFICES ASSUME NEW b \in Accounts PROVE Cardinality(Seats(lease', b)) <= Limit
    BY DEF CapacityRespected
  <2>1. CASE b = a
    <3>. DEFINE S == {s \in Requests \ {r} : lease[s].account = a /\ lease[s].left > 0}
    <3>1. Cardinality(S) < Limit
      <4>1. Cardinality(S) \in Nat
        BY LeaseAssumption, FS_Subset, FS_CardinalityType
      <4>2. ~(Cardinality(S) >= Limit)
        BY DEF Occupy, Busy
      <4>. HIDE DEF S
      <4>. QED  BY <4>1, <4>2, LeaseAssumption
    <3>2. Seats(lease', a) \subseteq S \cup {r}
      BY <1>3 DEF Seats
    <3>. QED  BY <2>1, <3>1, <3>2, SeatTaken
  <2>2. CASE b # a
    <3>1. \A s \in Requests : lease'[s].account = b /\ lease'[s].left > 0
                            => lease[s].account = b /\ lease[s].left > 0
      BY <1>2, <1>3, <2>2
    <3>. QED  BY <3>1, SeatsShrink DEF CapacityRespected
  <2>. QED  BY <2>1, <2>2
<1>. QED  BY <1>4, <1>5, <1>6, <1>7 DEF Strong

LEMMA TrackStep ==
  ASSUME IInv, NEW r \in Requests, Track(r)
  PROVE  Strong'
<1>. USE DEF IInv, TypeOK
<1>1. /\ pc[r] = "granted" /\ pc' = [pc EXCEPT ![r] = "routed"]
      /\ tracked' = tracked \cup {r} /\ UNCHANGED <<account, lease, round>>
  BY DEF Track
<1>2. Known'
  BY <1>1 DEF Known, Live
<1>3. Renewable'
  <2>1. round.age \in Nat /\ round.silent \in Nat
    BY LeaseAssumption DEF Rounds
  <2>2. lease[r].left = LeaseLife /\ lease[r].account \in Accounts
    BY <1>1 DEF Placed
  <2>. QED  BY <1>1, <2>1, <2>2, LeaseAssumption DEF Renewable, Live
<1>4. Placed' /\ CapacityRespected'
  BY <1>1 DEF Placed, CapacityRespected
<1>. QED  BY <1>2, <1>3, <1>4 DEF Strong

LEMMA ReleaseStep ==
  ASSUME IInv, NEW r \in Requests, Release(r)
  PROVE  Strong'
<1>. USE DEF IInv, TypeOK
<1>1. /\ pc[r] = "closing" /\ pc'[r] \in {"done", "binding"}
      /\ \A s \in Requests \ {r} : pc'[s] = pc[s] /\ lease'[s] = lease[s]
      /\ lease'[r] = NoLease
      /\ tracked' = tracked \ {r} /\ UNCHANGED <<account, round>>
  BY DEF Release
<1>2. Known'
  <2>1. \A s \in tracked' : pc'[s] \in Live \cup {"gone"}
    BY <1>1 DEF Known, Live
  <2>2. \A s \in Requests : pc'[s] \in {"routed", "sending"} => s \in tracked'
    BY <1>1 DEF Known
  <2>3. \A s \in round'.todo : s \in tracked' \/ pc'[s] \in {"binding", "done"}
    <3>. SUFFICES ASSUME NEW s \in round.todo PROVE s \in tracked' \/ pc'[s] \in {"binding", "done"}
      BY <1>1
    <3>1. s \in Requests
      BY DEF Rounds
    <3>. QED  BY <1>1, <3>1 DEF Known
  <2>4. \A s \in Requests : pc'[s] \in {"binding", "done"} => lease'[s] = NoLease
    BY <1>1 DEF Known
  <2>. QED  BY <1>1, <2>1, <2>2, <2>3, <2>4 DEF Known
<1>3. Renewable' /\ Placed'
  BY <1>1 DEF Renewable, Placed
<1>4. CapacityRespected'
  <2>1. \A s \in Requests : lease'[s].left > 0 => lease'[s] = lease[s]
    BY <1>1 DEF NoLease
  <2>. QED  BY <2>1, SeatsShrink DEF CapacityRespected
<1>. QED  BY <1>2, <1>3, <1>4 DEF Strong

LEMMA BeatStartStep ==
  ASSUME IInv, BeatStart
  PROVE  Strong'
<1>. USE DEF IInv, TypeOK
<1>1. /\ UNCHANGED <<pc, account, lease, tracked>>
      /\ round.phase = "asleep" /\ round'.phase = "renewing"
      /\ round'.todo = tracked /\ round'.age = 0 /\ round'.silent = round.silent
  BY RoundSteps DEF BeatStart
<1>2. round.silent \in Nat
  BY LeaseAssumption DEF Rounds
<1>3. Known' /\ Placed' /\ CapacityRespected'
  BY <1>1, <1>2 DEF Known, Placed, CapacityRespected
<1>4. Renewable'
  BY <1>1 DEF Renewable
<1>. QED  BY <1>3, <1>4 DEF Strong

LEMMA BeatOneStep ==
  ASSUME IInv, NEW r \in Requests, BeatOne(r)
  PROVE  Strong'
<1>. USE DEF IInv, TypeOK
<1>1. /\ UNCHANGED <<pc, account>>
      /\ round.phase = "renewing" /\ round'.phase = "renewing" /\ r \in round.todo
      /\ round'.todo = round.todo \ {r} /\ round'.age = round.age
      /\ round'.silent = round.silent
      /\ \A s \in Requests \ {r} : lease'[s] = lease[s]
      /\ lease'[r] = IF Ended(r) THEN NoLease ELSE Renewed(lease[r])
      /\ tracked' = IF Ended(r) THEN tracked \ {r} ELSE tracked
  BY RoundSteps DEF BeatOne, OwnerDone
<1>2. round.age \in Nat /\ round.silent \in Nat
  BY LeaseAssumption DEF Rounds
\* A row that is renewed had not expired.
<1>3. ~Ended(r) => \/ r \in tracked /\ pc[r] \in Live /\ lease[r].left > 0
                   \/ lease[r] = NoLease /\ pc[r] = "binding"
  <2>1. \/ r \in tracked /\ pc[r] \in Live \cup {"gone"}
        \/ pc[r] \in {"binding", "done"} /\ lease[r] = NoLease
    BY <1>1 DEF Known
  <2>2. r \in tracked /\ pc[r] \in Live => lease[r].left > 0
    BY LiveSeat
  <2>. QED  BY <2>1, <2>2 DEF Ended
<1>4. r \in tracked /\ pc[r] \in Live =>
        lease'[r].account = lease[r].account /\ lease'[r].left = LeaseLife
  BY <1>1, RoutingNamesAssumption DEF Renewable, Renewed, Ended, Live
<1>5. pc[r] \in {"binding", "done"} => lease'[r] = NoLease
  BY <1>1 DEF Known, Renewed, NoLease, Ended
<1>6. Known'
  BY <1>1, <1>5 DEF Known, Live, Ended
<1>7. Renewable'
  BY <1>1, <1>2, <1>4, LeaseAssumption DEF Renewable, Live, Ended
<1>8. Placed'
  <2>1. pc[r] # "granted"
    BY <1>1 DEF Known, Live
  <2>. QED  BY <1>1, <1>4, <2>1 DEF Placed, Known, Live
<1>9. CapacityRespected'
  <2>1. \A s \in Requests : lease'[s].left > 0 =>
          lease'[s].account = lease[s].account /\ lease[s].left > 0
    BY <1>1, <1>3, <1>4, <1>5 DEF NoLease
  <2>. QED  BY <2>1, SeatsShrink DEF CapacityRespected
<1>. QED  BY <1>6, <1>7, <1>8, <1>9 DEF Strong

LEMMA BeatSweepStep ==
  ASSUME IInv, BeatSweep
  PROVE  Strong'
<1>. USE DEF IInv, TypeOK
<1>1. /\ UNCHANGED <<pc, account, tracked>>
      /\ round.phase = "renewing" /\ round'.phase = "asleep"
      /\ round.todo = {} /\ round'.todo = {}
      /\ round'.age = round.age /\ round'.silent = round.age
  BY RoundSteps DEF BeatSweep
<1>2. \A s \in Requests : lease'[s] = lease[s] \/ (lease[s].left = 0 /\ lease'[s] = NoLease)
  BY DEF BeatSweep, ExpiredRows, Expired
<1>3. \A s \in Requests : pc[s] \in {"granted", "routed", "sending"} \/
                         (s \in tracked /\ pc[s] \in Live) => lease'[s] = lease[s]
  BY <1>2, LiveSeat
<1>4. Known'
  <2>1. round.age \in Nat
    BY LeaseAssumption DEF Rounds
  <2>. QED  BY <1>1, <1>2, <2>1 DEF Known
<1>5. Renewable'
  BY <1>1, <1>3 DEF Renewable
<1>6. Placed'
  BY <1>1, <1>3 DEF Placed
<1>7. CapacityRespected'
  <2>1. \A s \in Requests : lease'[s].left > 0 => lease'[s] = lease[s]
    BY <1>2 DEF NoLease
  <2>. QED  BY <2>1, SeatsShrink DEF CapacityRespected
<1>. QED  BY <1>4, <1>5, <1>6, <1>7 DEF Strong

LEMMA BeatFailsStep ==
  ASSUME IInv, BeatFails
  PROVE  Strong'
<1>. USE DEF IInv, TypeOK
<1>1. /\ UNCHANGED <<pc, account, lease, tracked>>
      /\ round.phase = "renewing" /\ round'.phase = "asleep" /\ round'.todo = {}
      /\ round'.age = round.age /\ round'.silent = round.silent
  BY RoundSteps DEF BeatFails
<1>2. round.age \in Nat /\ round.silent \in Nat
  BY LeaseAssumption DEF Rounds
<1>3. Known' /\ Placed' /\ CapacityRespected'
  BY <1>1 DEF Known, Placed, CapacityRespected
<1>4. Renewable'
  <2>. SUFFICES ASSUME NEW s \in tracked, pc[s] \in Live
       PROVE lease[s].account \in Accounts /\ LeaseLife - lease[s].left <= round.silent
    BY <1>1 DEF Renewable
  <2>1. LeaseLife - lease[s].left \in Int
    BY LeaseAssumption DEF Leases
  <2>. QED  BY <1>1, <1>2, <2>1 DEF Renewable, Known
<1>. QED  BY <1>3, <1>4 DEF Strong

LEMMA TickStep ==
  ASSUME IInv, Tick
  PROVE  Strong'
<1>. USE DEF IInv, TypeOK
<1>1. /\ UNCHANGED <<pc, account, tracked>>
      /\ round'.phase = round.phase /\ round'.todo = round.todo
      /\ round'.age = round.age + 1 /\ round'.silent = round.silent + 1
      /\ \A s \in Requests : pc[s] # "granted"
      /\ lease' = [s \in Requests |-> Older(lease[s])]
  BY RoundSteps DEF Tick
<1>2. round.age \in Nat /\ round.silent \in Nat
  BY LeaseAssumption DEF Rounds
<1>3. \A s \in Requests : lease[s].left \in Nat /\ lease'[s].account = lease[s].account
        /\ lease'[s].left = IF lease[s].left > 0 THEN lease[s].left - 1 ELSE 0
  BY <1>1, LeaseAssumption DEF Older, Leases
<1>4. Known'
  <2>1. \A s \in Requests : lease[s] = NoLease => lease'[s] = NoLease
    BY <1>1 DEF Older, NoLease
  <2>. QED  BY <1>1, <1>2, <2>1 DEF Known
<1>5. Renewable'
  <2>. SUFFICES ASSUME NEW s \in tracked, pc[s] \in Live
       PROVE /\ lease'[s].account \in Accounts
             /\ LeaseLife - lease'[s].left <=
                  IF round.phase = "asleep" \/ s \in round.todo
                  THEN round.silent + 1 ELSE round.age + 1
    BY <1>1 DEF Renewable
  <2>1. lease[s].left > 0 /\ s \in Requests
    BY LiveSeat
  <2>. QED  BY <1>2, <1>3, <2>1, LeaseAssumption DEF Renewable
<1>6. Placed'
  BY <1>1, <1>3 DEF Placed
<1>7. CapacityRespected'
  <2>1. \A s \in Requests : lease'[s].left > 0 => lease[s].left > 0
    BY <1>3
  <2>. QED  BY <1>3, <2>1, SeatsShrink DEF CapacityRespected
<1>. QED  BY <1>4, <1>5, <1>6, <1>7 DEF Strong

LEMMA CrashStep ==
  ASSUME IInv, Crash
  PROVE  Strong'
<1>. USE DEF IInv, TypeOK
<1>1. /\ UNCHANGED <<account, lease>> /\ tracked' = {}
      /\ pc' = [s \in Requests |-> IF pc[s] \in {"idle", "done"} THEN pc[s] ELSE "gone"]
      /\ round'.phase = "asleep" /\ round'.todo = {} /\ round'.age = 0 /\ round'.silent = 0
  BY RoundSteps DEF Crash
<1>2. Known' /\ Renewable' /\ Placed' /\ CapacityRespected'
  BY <1>1 DEF Known, Renewable, Placed, CapacityRespected
<1>. QED  BY <1>2 DEF Strong

LEMMA InvStep == IInv /\ [Next]_lvars => IInv'
<1>. SUFFICES ASSUME IInv, [Next]_lvars PROVE IInv'
  OBVIOUS
<1>1. TypeOK'
  BY TypeStep DEF IInv, Known
<1>2. ASSUME NEW r \in Requests, NEW q \in Questions, NEW seen \in BOOLEAN,
             NEW swept \in SUBSET ExpiredRows, SelectRefused(r, q, seen, swept)
      PROVE Strong'
  BY <1>2, QuietStep DEF SelectRefused
<1>3. ASSUME NEW r \in Requests, NEW a \in Accounts, OccupyRefused(r, a) PROVE Strong'
  BY <1>3, QuietStep DEF OccupyRefused
<1>4. ASSUME NEW r \in Requests, Answered(r) \/ Failed(r) \/ ReleaseFails(r) \/ BindResponse(r)
      PROVE Strong'
  <2>1. CASE Answered(r)
    BY <2>1, QuietStep DEF Answered
  <2>2. CASE Failed(r)
    BY <2>2, QuietStep DEF Failed
  <2>3. CASE ReleaseFails(r)
    BY <2>3, QuietStep DEF ReleaseFails
  <2>4. CASE BindResponse(r)
    BY <2>4, QuietStep DEF BindResponse
  <2>. QED  BY <1>4, <2>1, <2>2, <2>3, <2>4
<1>5. ASSUME UNCHANGED <<pc, account, lease, tracked, round>> PROVE Strong'
  BY <1>5 DEF IInv, Strong, Known, Renewable, Placed, CapacityRespected
<1>6. ASSUME NEW t \in Tokens, BindingExpires(t) PROVE Strong'
  BY <1>5, <1>6 DEF BindingExpires
<1>7. Strong'
  BY <1>2, <1>3, <1>4, <1>5, <1>6, SelectStep, OccupyStep, TrackStep, ReleaseStep, BeatStartStep,
     BeatOneStep, BeatSweepStep, BeatFailsStep, TickStep, CrashStep
     DEF Next, Handlers, Heartbeat, lvars
<1>. QED  BY <1>1, <1>7 DEF IInv, Strong

LEMMA Inductive == Spec => []IInv
<1>. QED  BY InitInv, InvStep, PTL DEF Spec

----------------------------------------------------------------------------
(* The account that has the history *)

\* Where histories are: only an answered request has a producer, its binding
\* names this account and no other, and a request that continues a response
\* through its binding is on the account that produced it.  HistoryAtHand is
\* the last conjunct alone; it depends on what complete_route() wrote long
\* before, after the answer and after its account had been fixed for good.
Histories ==
  /\ \A r \in Requests : producer[r] # NoAccount =>
       pc[r] \in {"closing", "binding", "done", "gone"} /\ account[r] = producer[r]
  /\ \A r \in Requests : pc[r] = "binding" => producer[r] # NoAccount
  /\ \A r \in Requests : binding[r] # NoBinding =>
       producer[r] # NoAccount /\ binding[r].account = producer[r]
  /\ \A r \in Requests : ask[r].previous # NoToken =>
       /\ producer[ask[r].previous] # NoAccount
       /\ ask[r].via = "continuation" /\ pc[r] \in {"granted", "routed", "sending"} =>
            account[r] = producer[ask[r].previous]

\* A selection that sees the binding of a previous response returns the account
\* of this binding.
LEMMA PinnedAccount ==
  ASSUME NEW q \in Questions, NEW seen \in Sightings(q), NEW swept, q.previous # NoToken,
         RoutedVia(q, seen) = "continuation", NEW a \in UNION Pools(q, seen, swept)
  PROVE  binding[q.previous] # NoBinding /\ a = binding[q.previous].account
<1>1. Token(q) = q.previous /\ seen = TRUE
  BY DEF Token, RoutedVia, Sightings
<1>2. binding[q.previous] # NoBinding
  BY <1>1 DEF Sightings
<1>3. PICK d \in Readings : a \in Pool(q, d, seen, swept)
  BY DEF Pools
<1>4. a \in OpenSeats(({Pinned(q, d, seen)} \cap d.cand) \ d.empty, d, swept)
  BY <1>3 DEF Pool
<1>5. a = Pinned(q, d, seen)
  BY <1>4 DEF OpenSeats
<1>. QED  BY <1>1, <1>2, <1>5 DEF Pinned

\* A step of one request that is open before or over after it, and that touches
\* neither the bindings of responses nor what was asked and answered.
LEMMA HistoryQuiet ==
  ASSUME Histories, TypeOK, NEW r \in Requests, NEW p,
         pc' = [pc EXCEPT ![r] = p], UNCHANGED <<ask, producer>>,
         \A t \in Requests : binding'[t] = binding[t],
         p \in {"routed", "sending", "closing", "gone", "done", "binding"},
         p \in {"routed", "sending"} => pc[r] \in {"granted", "routed", "sending"},
         p = "binding" => producer[r] # NoAccount,
         \/ account' = account
         \/ \E a : account' = [account EXCEPT ![r] = a] /\ p = "sending"
                  /\ (RouteBound(r) => a = account[r])
  PROVE  Histories'
<1>. USE DEF TypeOK
<1>1. ASSUME NEW s \in Requests, producer[s] # NoAccount
      PROVE pc'[s] \in {"closing", "binding", "done", "gone"} /\ account'[s] = producer[s]
  BY <1>1 DEF Histories
<1>2. ASSUME NEW s \in Requests, ask[s].previous # NoToken
      PROVE /\ producer[ask[s].previous] # NoAccount
            /\ ask[s].via = "continuation" /\ pc'[s] \in {"granted", "routed", "sending"} =>
                 account'[s] = producer[ask[s].previous]
  <2>1. RouteBound(s)
    BY <1>2 DEF RouteBound, Token
  <2>2. pc'[s] \in {"granted", "routed", "sending"} => pc[s] \in {"granted", "routed", "sending"}
    OBVIOUS
  <2>3. account'[s] = account[s]
    BY <2>1
  <2>. QED  BY <1>2, <2>2, <2>3 DEF Histories
<1>3. \A s \in Requests : pc'[s] = "binding" => producer[s] # NoAccount
  BY DEF Histories
<1>. QED  BY <1>1, <1>2, <1>3 DEF Histories

LEMMA HistorySelect ==
  ASSUME IInv, Histories, NEW r \in Requests, NEW q \in Questions, NEW a \in Accounts,
         NEW seen \in BOOLEAN, NEW swept \in SUBSET ExpiredRows, Select(r, q, a, seen, swept)
  PROVE  Histories'
<1>. USE DEF IInv, TypeOK
<1>1. /\ pc[r] = "idle" /\ pc' = [pc EXCEPT ![r] = "granted"]
      /\ account' = [account EXCEPT ![r] = a] /\ producer' = producer
      /\ ask' = [ask EXCEPT ![r] = [q EXCEPT !.via = RoutedVia(q, seen)]]
      /\ seen \in Sightings(q) /\ a \in UNION Pools(q, seen, swept)
  BY DEF Select
<1>2. producer[r] = NoAccount
  BY <1>1 DEF Histories
<1>3. \A t \in Requests : binding'[t] = binding[t]
  BY RoutingNamesAssumption DEF Select, BoundConversation, Questions, Tokens
<1>4. q.previous # NoToken => q.previous \in Requests /\ producer[q.previous] # NoAccount
  BY RoutingNamesAssumption DEF Questions
<1>5. q.previous # NoToken /\ RoutedVia(q, seen) = "continuation" => a = producer[q.previous]
  BY <1>1, <1>4, PinnedAccount DEF Histories
<1>6. ask'[r].previous = q.previous /\ ask'[r].via = RoutedVia(q, seen)
  BY <1>1 DEF Questions
<1>7. \A s \in Requests \ {r} : ask'[s] = ask[s] /\ pc'[s] = pc[s] /\ account'[s] = account[s]
  BY <1>1
<1>8. pc'[r] = "granted" /\ account'[r] = a
  BY <1>1
<1>9. ASSUME NEW s \in Requests, ask'[s].previous # NoToken
      PROVE /\ producer[ask'[s].previous] # NoAccount
            /\ ask'[s].via = "continuation" /\ pc'[s] \in {"granted", "routed", "sending"} =>
                 account'[s] = producer[ask'[s].previous]
  BY <1>4, <1>5, <1>6, <1>7, <1>8, <1>9 DEF Histories
<1>. QED  BY <1>1, <1>2, <1>3, <1>7, <1>8, <1>9 DEF Histories

LEMMA HistoryAnswered ==
  ASSUME IInv, Histories, NEW r \in Requests, Answered(r)
  PROVE  Histories'
<1>. USE DEF IInv, TypeOK
<1>1. /\ pc[r] = "sending" /\ pc' = [pc EXCEPT ![r] = "closing"]
      /\ producer' = [producer EXCEPT ![r] = account[r]]
      /\ UNCHANGED <<account, ask, binding>>
  BY DEF Answered
<1>2. producer[r] = NoAccount
  BY <1>1 DEF Histories
<1>3. account[r] # NoAccount
  BY <1>1, RoutingNamesAssumption DEF Placed
<1>4. \A s \in Requests : ask[s].previous # NoToken =>
        ask[s].previous # r /\ ask[s].previous \in Requests
  BY <1>2 DEF Histories, Asks
<1>. QED  BY <1>1, <1>2, <1>3, <1>4 DEF Histories

LEMMA HistoryInit == Init => Histories
BY DEF Init, Histories, NoAsk, Tokens

LEMMA HistoryStep == IInv /\ Histories /\ [Next]_lvars => Histories'
<1>. SUFFICES ASSUME IInv, Histories, [Next]_lvars PROVE Histories'
  OBVIOUS
<1>. USE DEF IInv
<1>1. ASSUME UNCHANGED <<pc, account, ask, producer>>, \A t \in Requests : binding'[t] = binding[t]
      PROVE Histories'
  BY <1>1 DEF Histories
<1>2. ASSUME NEW r \in Requests, NEW q \in Questions, NEW seen \in BOOLEAN,
             NEW swept \in SUBSET ExpiredRows, SelectRefused(r, q, seen, swept)
      PROVE Histories'
  BY <1>2, HistoryQuiet DEF SelectRefused
<1>3. ASSUME NEW r \in Requests, Track(r) PROVE Histories'
  BY <1>3, HistoryQuiet DEF Track
<1>4. ASSUME NEW r \in Requests, NEW a \in Accounts, Occupy(r, a) PROVE Histories'
  <2>1. pc[r] \in {"routed", "sending"} /\ (RouteBound(r) => a = account[r])
    BY <1>4 DEF Occupy, Targets
  <2>. QED  BY <1>4, <2>1, HistoryQuiet DEF Occupy
<1>5. ASSUME NEW r \in Requests, NEW a \in Accounts, OccupyRefused(r, a) PROVE Histories'
  BY <1>5, HistoryQuiet DEF OccupyRefused
<1>6. ASSUME NEW r \in Requests, Failed(r) \/ ReleaseFails(r) PROVE Histories'
  <2>1. CASE Failed(r)
    BY <2>1, HistoryQuiet DEF Failed
  <2>2. CASE ReleaseFails(r)
    BY <2>2, HistoryQuiet DEF ReleaseFails
  <2>. QED  BY <1>6, <2>1, <2>2
<1>7. ASSUME NEW r \in Requests, Release(r) PROVE Histories'
  <2>1. PICK p \in {"done", "binding"} :
           pc' = [pc EXCEPT ![r] = p] /\ (p = "binding" => producer[r] # NoAccount)
    BY <1>7 DEF Release
  <2>. QED  BY <1>7, <2>1, HistoryQuiet DEF Release
<1>8. ASSUME NEW r \in Requests, BindResponse(r) PROVE Histories'
  <2>1. /\ pc[r] = "binding" /\ pc' = [pc EXCEPT ![r] = "done"]
        /\ UNCHANGED <<account, ask, producer>>
        /\ \A t \in Requests \ {r} : binding'[t] = binding[t]
        /\ binding'[r].account = account[r]
    BY <1>8 DEF BindResponse, TypeOK, Tokens
  <2>2. producer[r] # NoAccount /\ account[r] = producer[r]
    BY <2>1 DEF Histories
  <2>. QED  BY <2>1, <2>2 DEF Histories, TypeOK
<1>9. ASSUME BeatSweep PROVE Histories'
  <2>1. \A t \in Requests : binding'[t] # NoBinding => binding'[t] = binding[t]
    BY <1>9 DEF BeatSweep, Tokens
  <2>. QED  BY <1>9, <2>1 DEF BeatSweep, Histories
<1>10. ASSUME NEW t \in Tokens, BindingExpires(t) PROVE Histories'
  <2>1. binding[t] # NoBinding
    BY <1>10 DEF BindingExpires, NoBinding
  <2>2. \A s \in Requests : binding'[s].account = binding[s].account
                          /\ (binding'[s] # NoBinding => binding[s] # NoBinding)
    BY <1>10, <2>1 DEF BindingExpires, TypeOK, Tokens, Bindings
  <2>. QED  BY <1>10, <2>2 DEF BindingExpires, Histories
<1>11. ASSUME Crash PROVE Histories'
  <2>1. /\ UNCHANGED <<account, ask, binding, producer>>
        /\ \A s \in Requests : pc'[s] = IF pc[s] \in {"idle", "done"} THEN pc[s] ELSE "gone"
    BY <1>11 DEF Crash
  <2>. QED  BY <2>1 DEF Histories
<1>12. ASSUME BeatStart \/ BeatFails \/ Tick \/ \E r \in Requests : BeatOne(r) PROVE Histories'
  BY <1>1, <1>12 DEF BeatStart, BeatFails, Tick, BeatOne
<1>13. CASE UNCHANGED lvars
  BY <1>1, <1>13 DEF lvars
<1>. QED
  BY <1>2, <1>3, <1>4, <1>5, <1>6, <1>7, <1>8, <1>9, <1>10, <1>11, <1>12, <1>13,
     HistorySelect, HistoryAnswered DEF Next, Handlers, Heartbeat

----------------------------------------------------------------------------
\* The routing tables and the heartbeat keep their types.
THEOREM RoutingTypes == Spec => []TypeOK
<1>1. IInv => TypeOK
  BY DEF IInv
<1>. QED  BY Inductive, <1>1, PTL

\* A request that may be talking to an account keeps an unexpired seat there,
\* for any lease that is longer than the heartbeat can be silent.
THEOREM SeatKeptAlways == Spec => []SeatKept
<1>1. IInv => SeatKept
  <2>. SUFFICES ASSUME IInv, NEW r \in Requests, pc[r] \in {"granted", "routed", "sending"}
       PROVE lease[r].account = account[r] /\ lease[r].left > 0
    BY DEF SeatKept
  <2>. QED  BY LiveSeat DEF IInv, Placed
<1>. QED  BY Inductive, <1>1, PTL

\* No account is ever used beyond its limit, for any limit and any number of
\* requests.
THEOREM CapacityAlways == Spec => []CapacityRespected
<1>1. IInv => CapacityRespected
  BY DEF IInv
<1>. QED  BY Inductive, <1>1, PTL

\* A request that continues a response is only ever sent to the account that
\* produced it, through retries, expired and swept bindings, lost releases and
\* crashes, for any accounts, requests and conversations.
THEOREM HistoryAtHandAlways == Spec => []HistoryAtHand
<1>1. Histories => HistoryAtHand
  BY DEF Histories, HistoryAtHand
<1>. QED  BY Inductive, HistoryInit, HistoryStep, <1>1, PTL DEF Spec

-----------------------------------------------------------------------------
(* The health of the accounts (AccountHealth), for any accounts, requests, *)
(* administrators and limits.                                              *)
(*                                                                         *)
(* What the row of a model counts in its window was noted in this window:  *)
(* that is what makes a cooldown earned.                                   *)
CONSTANTS Admins, Threshold, ModelLimit
VARIABLES status, cooling, failures, health, attempt, change, past

Health == INSTANCE AccountHealth WITH task <- attempt, admin <- change

Counts == [failures : 0..ModelLimit, cool : {"no", "running", "over"}, old : BOOLEAN]

HealthShapes ==
  /\ status \in [Accounts -> Health!Status] /\ health \in [Accounts -> Counts]
       /\ past \in [Accounts -> Health!Past]

\* What a window counts of a model was noted in this window.
Counted1(h, p) == ~h.old /\ h.cool # "over" => h.failures <= p.noted

\* An account that was removed or disabled is so still, unless that was lost.
StaysGone(s, p) == (p.removed = "yes" => s = "deleted") /\ (p.barred = "yes" => s = "disabled")

HealthInv ==
  /\ HealthShapes
  /\ \A a \in Accounts : Counted1(health[a], past[a]) /\ StaysGone(status[a], past[a])

LEMMA LimitNumber ==
  ASSUME Health!HealthLimits
  PROVE  ModelLimit \in Nat /\ ModelLimit >= 2
BY DEF Health!HealthLimits

LEMMA HealthInit == Health!HealthLimits /\ Health!Init => HealthInv
<1>. SUFFICES ASSUME Health!HealthLimits, Health!Init PROVE HealthInv
  OBVIOUS
<1>1. Health!Fresh \in Counts /\ Health!Fresh.failures = 0 /\ Health!Clean \in Health!Past
        /\ Health!Clean.noted = 0 /\ Health!Clean.removed = "no" /\ Health!Clean.barred = "no"
  BY LimitNumber DEF Health!Fresh, Counts, Health!Clean, Health!Past, Health!Kept
<1>2. HealthShapes
  BY <1>1 DEF Health!Init, HealthShapes, Health!Status
<1>. QED  BY <1>1, <1>2 DEF Health!Init, HealthInv, Counted1, StaysGone

\* One failure more is counted, and noted.
LEMMA OneMore ==
  ASSUME Health!HealthLimits, NEW h \in Counts, NEW p \in Health!Past, Counted1(h, p)
  PROVE  LET q == [p EXCEPT !.noted = Health!AtMost(@ + 1)]
         IN  /\ Health!Noted(h) \in Counts /\ q \in Health!Past /\ Counted1(Health!Noted(h), q)
             /\ Health!Noted(h).cool = "running" => q.noted = ModelLimit
             /\ q.removed = p.removed /\ q.barred = p.barred
<1>. DEFINE n == Health!AtMost(p.noted + 1)
            count == IF h.old \/ h.cool = "over" THEN 1 ELSE h.failures + 1
<1>1. p.noted \in 0..ModelLimit /\ h.failures \in 0..ModelLimit
  BY DEF Counts, Health!Past
<1>2. n \in 1..ModelLimit /\ count \in 1..(ModelLimit + 1) /\ Health!AtMost(count) \in 0..ModelLimit
  BY <1>1, LimitNumber DEF Health!AtMost
<1>3. Health!AtMost(count) <= n /\ (count >= ModelLimit => n = ModelLimit)
  BY <1>1, LimitNumber DEF Health!AtMost, Counted1
<1>4. Health!Noted(h) = [failures |-> Health!AtMost(count),
        cool |-> IF count >= ModelLimit THEN "running" ELSE "no", old |-> FALSE]
  BY DEF Health!Noted, Health!Renewed
<1>5. [p EXCEPT !.noted = Health!AtMost(@ + 1)] = [p EXCEPT !.noted = n]
  BY DEF Health!Past
<1>. HIDE DEF n, count
<1>6. Health!Noted(h) \in Counts /\ Health!Noted(h).failures = Health!AtMost(count)
        /\ (Health!Noted(h).cool = "running" => count >= ModelLimit)
  BY <1>2, <1>4 DEF Counts
<1>7. /\ [p EXCEPT !.noted = n] \in Health!Past /\ [p EXCEPT !.noted = n].noted = n
      /\ [p EXCEPT !.noted = n].removed = p.removed /\ [p EXCEPT !.noted = n].barred = p.barred
  BY <1>2 DEF Health!Past
<1>. QED  BY <1>3, <1>5, <1>6, <1>7 DEF Counted1

LEMMA Forgives ==
  ASSUME Health!HealthLimits, NEW h \in Counts, NEW p \in Health!Past
  PROVE  /\ Health!Reset(h) \in Counts /\ Health!Reset(h).failures = 0 /\ Health!Reset(h).cool = "no"
         /\ Health!Forgiven(p) \in Health!Past /\ Health!Forgiven(p).noted = 0
         /\ Health!Forgiven(p).removed = p.removed /\ Health!Forgiven(p).barred = p.barred
<1>0. 0 \in 0..ModelLimit
  BY LimitNumber
<1>1. [h EXCEPT !.failures = 0, !.cool = "no"] \in Counts
  BY <1>0 DEF Counts
<1>2. [p EXCEPT !.noted = 0] \in Health!Past
  BY LimitNumber DEF Health!Past
<1>3. Health!Reset(h).failures = 0 /\ Health!Reset(h).cool = "no"
  BY DEF Health!Reset, Counts
<1>4. Health!Forgiven(p).noted = 0
  BY DEF Health!Forgiven, Health!Past
<1>5. Health!Forgiven(p).removed = p.removed /\ Health!Forgiven(p).barred = p.barred
  BY DEF Health!Forgiven, Health!Past
<1>. QED  BY <1>1, <1>2, <1>3, <1>4, <1>5 DEF Health!Reset, Health!Forgiven

\* What is claimed of an account over a step.
Cooled(a) == health'[a].cool = "running" /\ health[a].cool # "running" => past'[a].noted = ModelLimit

\* A step that leaves the account as it is, or changes it like this.
Sound(a) ==
  /\ status'[a] \in Health!Status /\ health'[a] \in Counts /\ past'[a] \in Health!Past
  /\ Counted1(health'[a], past'[a]) /\ Cooled(a) /\ StaysGone(status'[a], past'[a])

LEMMA Untouched ==
  ASSUME HealthInv, NEW a \in Accounts, status'[a] = status[a], health'[a] = health[a], past'[a] = past[a]
  PROVE  Sound(a)
BY DEF HealthInv, HealthShapes, Sound, Cooled, StaysGone

LEMMA OneAccount ==
  ASSUME HealthInv, NEW a \in Accounts
  PROVE  status[a] \in Health!Status /\ health[a] \in Counts /\ past[a] \in Health!Past
           /\ Counted1(health[a], past[a]) /\ StaysGone(status[a], past[a])
BY DEF HealthInv, HealthShapes

LEMMA HServe ==
  ASSUME Health!HealthLimits, HealthInv, NEW r \in Requests, Health!Serve(r), NEW a \in Accounts
  PROVE  Sound(a)
<1>1. CASE UNCHANGED <<status, health, past>>
  BY <1>1, Untouched
<1>2. CASE Health!MarkInvalid(r)
  <2>. DEFINE b == attempt[r].on
              p == past[a]
  <2>1. CASE a = b
    <3>1. status'[a] = "invalid" /\ health'[a] = health[a]
      BY <1>2, <2>1 DEF Health!MarkInvalid, HealthInv, HealthShapes
    <3>2. past'[a] = [p EXCEPT !.removed = Health!Overwritten(@), !.barred = Health!Overwritten(@)]
      BY <1>2, <2>1 DEF Health!MarkInvalid, HealthInv, HealthShapes
    <3>3. p \in Health!Past
      BY OneAccount
    <3>4. /\ past'[a] \in Health!Past /\ past'[a].noted = p.noted
          /\ past'[a].removed # "yes" /\ past'[a].barred # "yes"
      BY <3>2, <3>3 DEF Health!Past, Health!Kept, Health!Overwritten
    <3>. QED  BY <3>1, <3>4, OneAccount DEF Sound, Cooled, Counted1, StaysGone, Health!Status
  <2>2. CASE a # b
    BY <1>2, <2>2, Untouched DEF Health!MarkInvalid, HealthInv, HealthShapes
  <2>. QED  BY <2>1, <2>2
<1>3. CASE Health!NoteFailure(r)
  <2>. DEFINE p == past[a]
              q == [p EXCEPT !.noted = Health!AtMost(@ + 1)]
  <2>1. \/ health'[a] = health[a] /\ past'[a] = past[a]
        \/ health'[a] = Health!Noted(health[a]) /\ past'[a] = q
    BY <1>3 DEF Health!NoteFailure, HealthInv, HealthShapes
  <2>2. status'[a] = status[a]
    BY <1>3 DEF Health!NoteFailure, Health!accounts
  <2>3. CASE health'[a] = health[a] /\ past'[a] = past[a]
    BY <2>2, <2>3, Untouched
  <2>4. CASE health'[a] = Health!Noted(health[a]) /\ past'[a] = q
    <3>1. /\ Health!Noted(health[a]) \in Counts /\ q \in Health!Past /\ Counted1(Health!Noted(health[a]), q)
          /\ Health!Noted(health[a]).cool = "running" => q.noted = ModelLimit
      BY OneAccount, OneMore
    <3>. QED  BY <2>2, <2>4, <3>1, OneAccount DEF Sound, Cooled, StaysGone
  <2>. QED  BY <2>1, <2>3, <2>4
<1>. QED
  BY <1>1, <1>2, <1>3 DEF Health!Serve, Health!Start, Health!Accepted, Health!RateLimited, Health!Broken,
                          Health!CountFailure, Health!Ends, Health!accounts

LEMMA HAdminister ==
  ASSUME Health!HealthLimits, HealthInv, NEW d \in Admins, Health!Administer(d), NEW a \in Accounts
  PROVE  Sound(a)
<1>0. status[a] \in Health!Status /\ health[a] \in Counts /\ past[a] \in Health!Past
        /\ Counted1(health[a], past[a]) /\ StaysGone(status[a], past[a])
  BY OneAccount
<1>1. CASE UNCHANGED <<status, health, past>>
  BY <1>1, Untouched
<1>2. CASE Health!Enable(d)
  <2>. DEFINE b == change[d].account
              may == Health!Revivable(b)
  <2>1. CASE a = b
    <3>1. status'[a] = (IF may THEN "active" ELSE status[a]) /\ health'[a] = Health!Reset(health[a])
      BY <1>2, <2>1 DEF Health!Enable, HealthInv, HealthShapes
    <3>2. /\ past'[a] \in Health!Past /\ past'[a].barred = (IF may THEN "no" ELSE past[a].barred)
          /\ past'[a].noted = 0 /\ past'[a].removed = past[a].removed
      <4>. DEFINE p == Health!Forgiven(past[a])
                  bar == IF may THEN "no" ELSE p.barred
      <4>1. p \in Health!Past /\ p.noted = 0 /\ p.removed = past[a].removed /\ p.barred = past[a].barred
        BY <1>0, Forgives
      <4>. DEFINE next == [Health!Forgiven(past[b]) EXCEPT !.barred = IF may THEN "no" ELSE @]
      <4>2. past' = [past EXCEPT ![b] = next]
        BY <1>2 DEF Health!Enable
      <4>3. next = [p EXCEPT !.barred = bar]
        BY <2>1, <4>1 DEF Health!Past
      <4>4. bar \in Health!Kept /\ bar = (IF may THEN "no" ELSE past[a].barred)
        BY <1>0, <4>1 DEF Health!Kept, Health!Past
      <4>. HIDE DEF p, bar, next
      <4>5. past'[a] = next
        BY <2>1, <4>2 DEF HealthInv, HealthShapes
      <4>6. [p EXCEPT !.barred = bar] \in Health!Past
        BY <4>1, <4>4 DEF Health!Past
      <4>7. [p EXCEPT !.barred = bar].barred = bar
        BY <4>1 DEF Health!Past
      <4>8. [p EXCEPT !.barred = bar].noted = p.noted /\ [p EXCEPT !.barred = bar].removed = p.removed
        BY <4>1 DEF Health!Past
      <4>. QED  BY <4>1, <4>3, <4>4, <4>5, <4>6, <4>7, <4>8
    <3>3. may => status[a] \in {"disabled", "invalid"}
      BY <2>1 DEF Health!Revivable
    <3>4. health'[a] \in Counts /\ health'[a].failures = 0 /\ health'[a].cool = "no"
      BY <1>0, <3>1, Forgives
    <3>. QED  BY <1>0, <3>1, <3>2, <3>3, <3>4 DEF Sound, Counted1, Cooled, StaysGone, Health!Status
  <2>2. CASE a # b
    BY <1>2, <2>2, Untouched DEF Health!Enable, HealthInv, HealthShapes
  <2>. QED  BY <2>1, <2>2
<1>3. CASE Health!Disable(d) \/ Health!Delete(d)
  <2>. DEFINE b == change[d].account
  <2>1. CASE a = b
    <3>1. health'[a] = health[a]
      BY <1>3 DEF Health!Disable, Health!Delete
    <3>2. /\ past'[a] \in Health!Past /\ past'[a].noted = past[a].noted
          /\ status'[a] \in Health!Status /\ StaysGone(status'[a], past'[a])
      <4>1. CASE Health!Disable(d)
        <5>. DEFINE p == past[a]
        <5>1. status'[a] = "disabled"
          BY <2>1, <4>1 DEF Health!Disable, HealthInv, HealthShapes
        <5>2. past'[a] = [p EXCEPT !.barred = "yes", !.removed = Health!Overwritten(@)]
          BY <2>1, <4>1 DEF Health!Disable, HealthInv, HealthShapes
        <5>. HIDE DEF p
        <5>3. p \in Health!Past
          BY <1>0 DEF p
        <5>4. past'[a] \in Health!Past /\ past'[a].noted = p.noted /\ past'[a].removed # "yes"
          BY <5>2, <5>3 DEF Health!Past, Health!Kept, Health!Overwritten
        <5>. QED  BY <5>1, <5>4 DEF p, StaysGone, Health!Status
      <4>2. CASE Health!Delete(d)
        <5>. DEFINE p == past[a]
        <5>1. status'[a] = "deleted"
          BY <2>1, <4>2 DEF Health!Delete, HealthInv, HealthShapes
        <5>2. past'[a] = [p EXCEPT !.removed = "yes", !.barred = "no"]
          BY <2>1, <4>2 DEF Health!Delete, HealthInv, HealthShapes
        <5>. HIDE DEF p
        <5>3. p \in Health!Past
          BY <1>0 DEF p
        <5>4. past'[a] \in Health!Past /\ past'[a].noted = p.noted /\ past'[a].barred # "yes"
          BY <5>2, <5>3 DEF Health!Past, Health!Kept
        <5>. QED  BY <5>1, <5>4 DEF p, StaysGone, Health!Status
      <4>. QED  BY <1>3, <4>1, <4>2
    <3>. QED  BY <1>0, <3>1, <3>2 DEF Sound, Counted1, Cooled, StaysGone, Health!Status
  <2>2. CASE a # b
    BY <1>3, <2>2, Untouched DEF Health!Disable, Health!Delete, HealthInv, HealthShapes
  <2>. QED  BY <2>1, <2>2
<1>. QED  BY <1>1, <1>2, <1>3 DEF Health!Administer, Health!Look, Health!accounts

LEMMA HRestores ==
  ASSUME Health!HealthLimits, HealthInv, NEW gone, Health!RestoreModel(gone), NEW a \in Accounts
  PROVE  Sound(a)
<1>0. status[a] \in Health!Status /\ health[a] \in Counts /\ past[a] \in Health!Past
        /\ StaysGone(status[a], past[a])
  BY OneAccount
<1>. DEFINE back == Health!Revived(gone)
<1>1. a \in back => status[a] \in {"invalid", "deleted"}
  BY DEF Health!Revived, Health!Unusable
<1>. HIDE DEF back
<1>2. status'[a] = (IF a \in back THEN "active" ELSE status[a]) /\ health'[a] = Health!Reset(health[a])
  BY DEF Health!RestoreModel, back
<1>3. /\ past'[a] \in Health!Past /\ past'[a].noted = 0 /\ past'[a].barred = past[a].barred
      /\ past'[a].removed = (IF a \in back THEN "no" ELSE past[a].removed)
  <2>. DEFINE p == Health!Forgiven(past[a])
              gone1 == IF a \in back THEN "no" ELSE p.removed
  <2>1. p \in Health!Past /\ p.noted = 0 /\ p.removed = past[a].removed /\ p.barred = past[a].barred
    BY <1>0, Forgives
  <2>2. past'[a] = [p EXCEPT !.removed = gone1]
    BY <2>1 DEF Health!RestoreModel, back, Health!Past
  <2>3. gone1 \in Health!Kept /\ gone1 = (IF a \in back THEN "no" ELSE past[a].removed)
    BY <2>1 DEF Health!Past, Health!Kept
  <2>. HIDE DEF p, gone1
  <2>4. [p EXCEPT !.removed = gone1] \in Health!Past
    BY <2>1, <2>3 DEF Health!Past
  <2>5. [p EXCEPT !.removed = gone1].removed = gone1
    BY <2>1 DEF Health!Past
  <2>6. [p EXCEPT !.removed = gone1].noted = p.noted /\ [p EXCEPT !.removed = gone1].barred = p.barred
    BY <2>1 DEF Health!Past
  <2>. QED  BY <2>1, <2>2, <2>3, <2>4, <2>5, <2>6
<1>4. health'[a] \in Counts /\ health'[a].failures = 0 /\ health'[a].cool = "no"
  BY <1>0, <1>2, Forgives
<1>. QED  BY <1>0, <1>1, <1>2, <1>3, <1>4 DEF Sound, Counted1, Cooled, StaysGone, Health!Status

LEMMA HTime ==
  ASSUME Health!HealthLimits, HealthInv, NEW b \in Accounts, NEW a \in Accounts,
         Health!Import(b) \/ Health!CooldownEnds(b) \/ Health!ModelCooldownEnds(b) \/ Health!WindowEnds(b)
  PROVE  Sound(a)
<1>0. status[a] \in Health!Status /\ health[a] \in Counts /\ past[a] \in Health!Past
        /\ Counted1(health[a], past[a]) /\ StaysGone(status[a], past[a])
  BY OneAccount
<1>1. CASE a # b \/ Health!CooldownEnds(b)
  BY <1>1, Untouched DEF Health!Import, Health!CooldownEnds, Health!ModelCooldownEnds, Health!WindowEnds,
                         Health!accounts, HealthInv, HealthShapes
<1>2. CASE a = b /\ Health!Import(b)
  <2>1. status'[a] = "active" /\ health'[a] = health[a]
    BY <1>2 DEF Health!Import, HealthInv, HealthShapes
  <2>2. past'[a] \in Health!Past /\ past'[a].noted = past[a].noted
        /\ past'[a].removed = "no" /\ past'[a].barred = "no"
    <3>. DEFINE p == past[a]
    <3>1. past'[a] = [p EXCEPT !.removed = "no", !.barred = "no"]
      BY <1>2 DEF Health!Import, HealthInv, HealthShapes
    <3>. HIDE DEF p
    <3>2. p \in Health!Past
      BY <1>0 DEF p
    <3>. QED  BY <3>1, <3>2 DEF p, Health!Past, Health!Kept
  <2>. QED  BY <1>0, <2>1, <2>2 DEF Sound, Counted1, Cooled, StaysGone, Health!Status
<1>3. CASE a = b /\ (Health!ModelCooldownEnds(b) \/ Health!WindowEnds(b))
  <2>1. status'[a] = status[a]
    BY <1>3 DEF Health!ModelCooldownEnds, Health!WindowEnds, Health!accounts
  <2>2. past'[a] = Health!Forgiven(past[a])
    BY <1>3 DEF Health!ModelCooldownEnds, Health!WindowEnds, Health!Forgiven, HealthInv, HealthShapes
  <2>3. /\ health'[a] \in Counts /\ (health'[a].old \/ health'[a].cool = "over")
        /\ health'[a].cool = "running" => health[a].cool = "running"
    <3>1. CASE Health!ModelCooldownEnds(b)
      <4>1. health'[a] = [health[a] EXCEPT !.cool = "over"]
        BY <1>3, <3>1 DEF Health!ModelCooldownEnds, HealthInv, HealthShapes
      <4>. QED  BY <1>0, <4>1 DEF Counts
    <3>2. CASE Health!WindowEnds(b)
      <4>1. health'[a] = [health[a] EXCEPT !.old = TRUE]
        BY <1>3, <3>2 DEF Health!WindowEnds, HealthInv, HealthShapes
      <4>2. [health[a] EXCEPT !.old = TRUE] \in Counts /\ [health[a] EXCEPT !.old = TRUE].old = TRUE
        BY <1>0 DEF Counts
      <4>3. [health[a] EXCEPT !.old = TRUE].cool = health[a].cool
        BY <1>0 DEF Counts
      <4>. QED  BY <4>1, <4>2, <4>3
    <3>. QED  BY <1>3, <3>1, <3>2
  <2>. QED  BY <1>0, <2>1, <2>2, <2>3, Forgives DEF Sound, Counted1, Cooled, StaysGone
<1>. QED  BY <1>1, <1>2, <1>3

LEMMA HealthStep ==
  Health!HealthLimits /\ HealthInv /\ [Health!Next]_(Health!vars) =>
    HealthInv' /\ \A a \in Accounts : Cooled(a)
<1>. SUFFICES ASSUME Health!HealthLimits, HealthInv, [Health!Next]_(Health!vars)
              PROVE  HealthInv' /\ \A a \in Accounts : Cooled(a)
  OBVIOUS
<1>1. \A a \in Accounts : Sound(a)
  <2>1. CASE UNCHANGED Health!vars
    BY <2>1, Untouched DEF Health!vars, Health!accounts
  <2>. QED  BY <2>1, HServe, HAdminister, HTime, HRestores DEF Health!Next
<1>2. /\ status' = [a \in Accounts |-> status'[a]] /\ health' = [a \in Accounts |-> health'[a]]
      /\ past' = [a \in Accounts |-> past'[a]]
  BY DEF Health!Next, Health!vars, Health!accounts, Health!Serve, Health!Administer, Health!Start,
         Health!Accepted, Health!MarkInvalid, Health!RateLimited, Health!Broken, Health!CountFailure,
     Health!Ends, Health!NoteFailure, Health!Look, Health!Enable, Health!Disable, Health!Delete,
     Health!Import, Health!CooldownEnds, Health!ModelCooldownEnds, Health!WindowEnds,
     Health!RestoreModel, HealthInv, HealthShapes
<1>. QED  BY <1>1, <1>2 DEF Sound, HealthInv, HealthShapes

\* A model is cooled on an account only for as many failures in one window as
\* the limit says, since the last cooldown and the last reset; and an account
\* that was removed or disabled is not used again before somebody brings it back
\* who may, or a request that had begun before overwrites what was done to it
\* (_route_failure, _mark_invalid, set_account_status, restore_model).
THEOREM HealthIsEarned == Health!HealthLimits => (Health!Spec => Health!CooledForCause /\ []Health!BackByHand)
<1>. SUFFICES ASSUME Health!HealthLimits PROVE Health!Spec => Health!CooledForCause /\ []Health!BackByHand
  OBVIOUS
<1>1. Health!Init => HealthInv
  BY HealthInit
<1>2. HealthInv /\ [Health!Next]_(Health!vars) => HealthInv'
  BY HealthStep
<1>3. HealthInv /\ [Health!Next]_(Health!vars) =>
        [\A a \in Accounts :
           health'[a].cool = "running" /\ health[a].cool # "running" =>
             past'[a].noted = ModelLimit]_(Health!vars)
  BY HealthStep DEF Cooled
<1>4. HealthInv => Health!BackByHand
  BY DEF HealthInv, StaysGone, Health!BackByHand
<1>. QED  BY <1>1, <1>2, <1>3, <1>4, PTL DEF Health!Spec, Health!CooledForCause

-----------------------------------------------------------------------------
(* The routes of the keys (KeyRoutes), for any keys, accounts, requests and *)
(* administrators.                                                         *)
CONSTANTS Keys
VARIABLES route, streak, call, locked, wish, bad

Route == INSTANCE KeyRoutes WITH task <- call, admin <- wish

Steps == {"idle", "asking", "failed", "noted", "moving", "looking", "saving", "clearing"}
Calls == [at : Steps, key : Keys, on : Route!Maybe, to : Route!Maybe, again : BOOLEAN]
Streaks == [account : Route!Maybe, failures : 0..2]
Routes == [preferred : Route!Maybe, active : Route!Maybe]
Orders == [op : {"none", "delete", "prefer", "preferred"}, account : Route!Maybe, key : Keys]

\* A call that has chosen an account is on one, and one that moves its key
\* moves it to one.
WellPlaced(t) ==
  /\ t.at # "idle" => t.on \in Accounts
  /\ t.at \in {"saving", "clearing"} => t.to \in Accounts

\* A streak is somebody's.
Somebodys(s) == s.failures > 0 => s.account \in Accounts

TaskInv == call \in [Requests -> Calls] /\ \A r \in Requests : WellPlaced(call[r])
AdminInv == wish \in [Admins -> Orders] /\ \A d \in Admins : wish[d].op = "delete" => wish[d].key = Route!AnyKey
StreakInv ==
  /\ streak \in [Keys -> Streaks] /\ bad \in [Keys -> [Accounts -> 0..2]]
  /\ \A k \in Keys : Somebodys(streak[k])
RouteInv == route \in [Keys -> Routes] /\ TaskInv /\ AdminInv /\ StreakInv /\ Route!StreakEarned

LEMMA AKey == ASSUME Route!RouteNames PROVE Route!AnyKey \in Keys
BY DEF Route!RouteNames, Route!AnyKey

LEMMA AtMost == ASSUME NEW n \in 0..2 PROVE Route!AtMostTwo(n) \in 0..2 /\ Route!AtMostTwo(n + 1) \in 1..2
                         /\ Route!AtMostTwo(n) = n
BY DEF Route!AtMostTwo

LEMMA LongerBoth == ASSUME NEW n \in 0..2, NEW m \in 0..2, n <= m
                    PROVE Route!AtMostTwo(n + 1) <= Route!AtMostTwo(m + 1)
BY DEF Route!AtMostTwo

LEMMA ARest == ASSUME Route!RouteNames PROVE Route!Idle \in Calls /\ WellPlaced(Route!Idle)
                        /\ Route!NoOp \in Orders /\ Route!NoOp.op = "none"
BY AKey DEF Route!Idle, Calls, Steps, Route!Maybe, WellPlaced, Route!NoOp, Orders

LEMMA RInit ==
  ASSUME Route!RouteNames, Route!Init
  PROVE  RouteInv
<1>1. TaskInv /\ AdminInv
  BY ARest DEF Route!Init, TaskInv, AdminInv
<1>2. route \in [Keys -> Routes]
  BY DEF Route!Init, Route!Nowhere, Routes, Route!Maybe
<1>3. StreakInv /\ Route!StreakEarned
  BY DEF Route!Init, StreakInv, Route!StreakEarned, Route!NoStreak, Streaks, Somebodys, Route!Maybe
<1>. QED  BY <1>1, <1>2, <1>3 DEF RouteInv

\* The tasks: only the caller's own changes.
LEMMA OneTask ==
  ASSUME TaskInv, NEW r \in Requests, NEW t \in Calls, WellPlaced(t), call' = [call EXCEPT ![r] = t]
  PROVE  TaskInv'
BY DEF TaskInv, WellPlaced

LEMMA TheTask ==
  ASSUME TaskInv, NEW r \in Requests
  PROVE  /\ call[r] \in Calls /\ call[r].key \in Keys
         /\ ~Route!At(r, "idle") => call[r].on \in Accounts
         /\ (Route!At(r, "saving") \/ Route!At(r, "clearing")) => call[r].to \in Accounts
BY DEF TaskInv, WellPlaced, Calls, Route!At

LEMMA RTaskGoes ==
  ASSUME TaskInv, NEW r \in Requests, NEW p \in Steps \ {"idle", "saving", "clearing"},
         ~Route!At(r, "idle"), Route!Goes(r, p)
  PROVE  TaskInv'
<1>. DEFINE t == [call[r] EXCEPT !.at = p]
<1>1. t \in Calls /\ t.at = p /\ t.on = call[r].on
  BY TheTask DEF Calls
<1>2. WellPlaced(t)
  BY <1>1, TheTask DEF WellPlaced
<1>3. call' = [call EXCEPT ![r] = t]
  BY DEF Route!Goes
<1>. HIDE DEF t
<1>. QED  BY <1>1, <1>2, <1>3, OneTask

LEMMA RTaskRests ==
  ASSUME Route!RouteNames, TaskInv, NEW r \in Requests, Route!Rests(r)
  PROVE  TaskInv'
BY ARest, OneTask DEF Route!Rests

LEMMA RTasks ==
  ASSUME Route!RouteNames, RouteInv, [Route!Next]_(Route!vars)
  PROVE  TaskInv'
<1>0. TaskInv
  BY DEF RouteInv
<1>1. CASE UNCHANGED call
  BY <1>0, <1>1 DEF TaskInv, WellPlaced
<1>2. ASSUME NEW r \in Requests, NEW k \in Keys, NEW a \in Accounts, Route!Select(r, k, a)  PROVE TaskInv'
  <2>. DEFINE t == [Route!Idle EXCEPT !.at = "asking", !.key = k, !.on = a]
  <2>1. t \in Calls /\ WellPlaced(t)
    BY ARest DEF Route!Idle, Calls, Steps, Route!Maybe, WellPlaced
  <2>2. call' = [call EXCEPT ![r] = t]
    BY <1>2 DEF Route!Select
  <2>. HIDE DEF t
  <2>. QED  BY <1>0, <2>1, <2>2, OneTask
<1>3. ASSUME NEW r \in Requests, Route!Rests(r)  PROVE TaskInv'
  BY <1>0, <1>3, RTaskRests
<1>4. ASSUME NEW r \in Requests, NEW p \in Steps \ {"idle", "saving", "clearing"}, ~Route!At(r, "idle"),
             Route!Goes(r, p)
      PROVE  TaskInv'
  BY <1>0, <1>4, RTaskGoes
<1>5. ASSUME NEW r \in Requests, Route!Fallback(r), ~Route!Rests(r)  PROVE TaskInv'
  <2>1. PICK a \in Accounts : call' = [call EXCEPT ![r].at = "saving", ![r].to = a]
    BY <1>5 DEF Route!Fallback, Route!Alternatives
  <2>. DEFINE t == [call[r] EXCEPT !.at = "saving", !.to = a]
  <2>2. t \in Calls /\ WellPlaced(t)
    BY <1>0, <1>5, TheTask DEF Calls, Steps, Route!Maybe, WellPlaced, Route!At, Route!Fallback
  <2>3. call' = [call EXCEPT ![r] = t]
    BY <2>1
  <2>. HIDE DEF t
  <2>. QED  BY <1>0, <2>2, <2>3, OneTask
<1>6. ASSUME NEW r \in Requests, Route!Retry(r), ~Route!Goes(r, "asking")  PROVE TaskInv'
  <2>. DEFINE now == route[call[r].key].active
              t == [call[r] EXCEPT !.at = "looking", !.to = now]
  <2>1. now \in Route!Maybe
    BY <1>0, TheTask DEF RouteInv, Routes
  <2>2. t \in Calls /\ WellPlaced(t)
    BY <1>0, <1>6, <2>1, TheTask DEF Calls, Steps, WellPlaced, Route!At, Route!Retry
  <2>3. call' = [call EXCEPT ![r] = t]
    BY <1>6 DEF Route!Retry
  <2>. HIDE DEF t
  <2>. QED  BY <1>0, <2>2, <2>3, OneTask
<1>7. ASSUME NEW r \in Requests, Route!Looked(r), ~Route!Rests(r)  PROVE TaskInv'
  <2>. DEFINE now == call[r].to
              t1 == [call[r] EXCEPT !.at = "asking", !.on = now, !.to = NoAccount]
              t2(a) == [call[r] EXCEPT !.at = "saving", !.to = a, !.again = TRUE]
              t3 == [call[r] EXCEPT !.at = "asking", !.to = NoAccount]
  <2>1. now \in Route!Maybe /\ call[r] \in Calls /\ call[r].on \in Accounts
    BY <1>0, <1>7, TheTask DEF Route!Looked, Route!At, Calls
  <2>2. \/ now # NoAccount /\ call' = [call EXCEPT ![r] = t1]
        \/ \E a \in Accounts : call' = [call EXCEPT ![r] = t2(a)]
        \/ call' = [call EXCEPT ![r] = t3]
    BY <1>7 DEF Route!Looked, Route!Alternatives
  <2>3. now # NoAccount => t1 \in Calls /\ WellPlaced(t1)
    BY <2>1 DEF Calls, Steps, Route!Maybe, WellPlaced
  <2>4. \A a \in Accounts : t2(a) \in Calls /\ WellPlaced(t2(a))
    BY <2>1 DEF Calls, Steps, Route!Maybe, WellPlaced
  <2>5. t3 \in Calls /\ WellPlaced(t3)
    BY <2>1 DEF Calls, Steps, Route!Maybe, WellPlaced
  <2>. HIDE DEF t1, t2, t3
  <2>. QED  BY <1>0, <2>2, <2>3, <2>4, <2>5, OneTask
<1>8. ASSUME NEW r \in Requests, Route!Save(r)  PROVE TaskInv'
  <2>. DEFINE t == [call[r] EXCEPT !.at = "clearing"]
  <2>1. t \in Calls /\ WellPlaced(t)
    BY <1>0, <1>8, TheTask DEF Calls, Steps, WellPlaced, Route!At, Route!Save
  <2>2. call' = [call EXCEPT ![r] = t]
    BY <1>8 DEF Route!Save, Route!Goes
  <2>. HIDE DEF t
  <2>. QED  BY <1>0, <2>1, <2>2, OneTask
<1>9. ASSUME NEW r \in Requests, Route!Clear(r), ~Route!Rests(r)  PROVE TaskInv'
  <2>. DEFINE t == [call[r] EXCEPT !.at = "asking", !.on = call[r].to, !.to = NoAccount, !.again = FALSE]
  <2>1. t \in Calls /\ WellPlaced(t)
    BY <1>0, <1>9, TheTask DEF Calls, Steps, Route!Maybe, WellPlaced, Route!At, Route!Clear
  <2>2. call' = [call EXCEPT ![r] = t]
    BY <1>9 DEF Route!Clear
  <2>. HIDE DEF t
  <2>. QED  BY <1>0, <2>1, <2>2, OneTask
<1>10. ASSUME NEW r \in Requests, Route!Serve(r) \/ Route!Cancel(r)  PROVE TaskInv'
  <2>1. CASE Route!Succeed(r) \/ Route!Ends(r) \/ Route!Cancel(r)
    BY <1>3, <2>1 DEF Route!Succeed, Route!Ends, Route!Cancel
  <2>2. CASE Route!Fail(r) \/ Route!NoteFailure(r) \/ Route!MayMove(r)
    <3>1. ~Route!At(r, "idle")
      BY <2>2 DEF Route!Fail, Route!NoteFailure, Route!MayMove, Route!At
    <3>2. \/ Route!Rests(r)
          \/ \E p \in {"failed", "noted", "moving"} : Route!Goes(r, p)
      BY <2>2 DEF Route!Fail, Route!NoteFailure, Route!MayMove
    <3>. QED  BY <1>3, <1>4, <3>1, <3>2 DEF Steps
  <2>3. CASE Route!Retry(r)
    BY <1>4, <1>6, <2>3 DEF Steps, Route!Retry, Route!At
  <2>4. CASE Route!Fallback(r) \/ Route!Looked(r) \/ Route!Save(r) \/ Route!Clear(r)
    BY <1>3, <1>5, <1>7, <1>8, <1>9, <2>4
  <2>. QED  BY <1>10, <2>1, <2>2, <2>3, <2>4 DEF Route!Serve
<1>11. ASSUME NEW d \in Admins, Route!Administer(d)  PROVE UNCHANGED call
  BY <1>11 DEF Route!Administer, Route!Look, Route!Prefer, Route!Preferred, Route!Delete
<1>. QED  BY <1>1, <1>2, <1>10, <1>11 DEF Route!Next, Route!vars

LEMMA ROrders ==
  ASSUME Route!RouteNames, RouteInv, [Route!Next]_(Route!vars)
  PROVE  AdminInv'
<1>0. AdminInv
  BY DEF RouteInv
<1>1. CASE UNCHANGED wish
  BY <1>0, <1>1 DEF AdminInv, Route!AnyKey
<1>2. ASSUME NEW d \in Admins, NEW o \in Orders, o.op = "delete" => o.key = Route!AnyKey,
             wish' = [wish EXCEPT ![d] = o]
      PROVE  AdminInv'
  BY <1>0, <1>2 DEF AdminInv, Route!AnyKey
<1>3. ASSUME NEW d \in Admins, Route!Administer(d)  PROVE AdminInv'
  <2>1. CASE \E k \in Keys, a \in Route!Maybe : Route!Look(d, "prefer", k, a)
    BY <1>2, <2>1 DEF Route!Look, Route!Intends, Orders
  <2>2. CASE \E a \in Accounts : Route!Look(d, "delete", Route!AnyKey, a)
    BY <1>2, <2>2, AKey DEF Route!Look, Route!Intends, Orders, Route!Maybe
  <2>3. CASE Route!Prefer(d)
    BY <1>0, <1>2, <2>3 DEF Route!Prefer, Route!Intends, Orders, AdminInv
  <2>4. CASE Route!Preferred(d) \/ Route!Delete(d)
    BY <1>2, <2>4, ARest DEF Route!Preferred, Route!Delete, Route!Done
  <2>. QED  BY <1>3, <2>1, <2>2, <2>3, <2>4 DEF Route!Administer
<1>4. ASSUME NEW r \in Requests, Route!Serve(r) \/ Route!Cancel(r)  PROVE UNCHANGED wish
  BY <1>4 DEF Route!Serve, Route!Cancel, Route!Succeed, Route!Fail, Route!Ends, Route!NoteFailure,
              Route!MayMove, Route!Fallback, Route!Retry, Route!Looked, Route!Save, Route!Clear
<1>5. ASSUME NEW r \in Requests, NEW k \in Keys, NEW a \in Accounts,
             Route!Select(r, k, a)  PROVE UNCHANGED wish
  BY <1>5 DEF Route!Select
<1>. QED  BY <1>1, <1>3, <1>4, <1>5 DEF Route!Next, Route!vars

\* The routes.
LEMMA RSaved ==
  ASSUME NEW old \in Routes, NEW a \in Accounts
  PROVE  Route!Saved(old, a) \in Routes /\ Route!Saved(old, a).preferred = old.preferred
BY DEF Route!Saved, Routes, Route!Maybe

LEMMA RRoutes ==
  ASSUME Route!RouteNames, RouteInv, [Route!Next]_(Route!vars)
  PROVE  route' \in [Keys -> Routes]
<1>0. route \in [Keys -> Routes] /\ TaskInv /\ AdminInv
  BY DEF RouteInv
<1>1. ASSUME NEW r \in Requests, NEW k \in Keys, NEW a \in Accounts,
             Route!Select(r, k, a)  PROVE route' \in [Keys -> Routes]
  BY <1>0, <1>1, RSaved DEF Route!Select
<1>2. ASSUME NEW r \in Requests, Route!Save(r)  PROVE route' \in [Keys -> Routes]
  BY <1>0, <1>2, TheTask, RSaved DEF Route!Save
<1>3. ASSUME NEW d \in Admins, Route!Administer(d)  PROVE route' \in [Keys -> Routes]
  <2>1. CASE Route!Prefer(d)
    BY <1>0, <2>1 DEF Route!Prefer, AdminInv, Orders, Routes
  <2>2. CASE Route!Delete(d)
    BY <1>0, <2>2 DEF Route!Delete, Route!Without, Route!Nowhere, Routes, Route!Maybe
  <2>3. CASE UNCHANGED route
    BY <1>0, <2>3
  <2>. QED  BY <1>3, <2>1, <2>2, <2>3 DEF Route!Administer, Route!Look, Route!Preferred
<1>4. ASSUME NEW r \in Requests, Route!Serve(r) \/ Route!Cancel(r)  PROVE Route!Save(r) \/ UNCHANGED route
  BY <1>4 DEF Route!Serve, Route!Cancel, Route!Succeed, Route!Fail, Route!Ends, Route!NoteFailure,
              Route!MayMove, Route!Fallback, Route!Retry, Route!Looked, Route!Clear
<1>. QED  BY <1>0, <1>1, <1>2, <1>3, <1>4 DEF Route!Next, Route!vars

\* The streaks.
LEMMA RNoted ==
  ASSUME RouteInv, NEW r \in Requests, Route!NoteFailure(r)
  PROVE  StreakInv' /\ Route!StreakEarned'
<1>. DEFINE k == call[r].key
            a == call[r].on
            n == bad[k][a]
            s == streak[k]
<1>1. k \in Keys /\ a \in Accounts /\ StreakInv /\ Route!StreakEarned
  BY TheTask DEF RouteInv, Route!NoteFailure, Route!At
<1>2. n \in 0..2 /\ s \in Streaks /\ s.failures \in 0..2 /\ (s.failures > 0 => s.failures <= bad[k][s.account])
  BY <1>1 DEF StreakInv, Route!StreakEarned, Streaks
<1>3. bad' = [bad EXCEPT ![k] = [@ EXCEPT ![a] = Route!AtMostTwo(n + 1)]]
  BY DEF Route!NoteFailure
<1>4. Route!AtMostTwo(n + 1) \in 1..2 /\ n <= Route!AtMostTwo(n + 1)
  BY <1>2 DEF Route!AtMostTwo
<1>5. /\ bad' \in [Keys -> [Accounts -> 0..2]]
      /\ bad'[k][a] = Route!AtMostTwo(n + 1)
      /\ \A l \in Keys, b \in Accounts : bad[l][b] <= bad'[l][b]
  <2>1. bad' \in [Keys -> [Accounts -> 0..2]] /\ bad'[k][a] = Route!AtMostTwo(n + 1)
    BY <1>1, <1>3, <1>4 DEF StreakInv
  <2>2. \A l \in Keys, b \in Accounts : bad'[l][b] = bad[l][b] \/ (l = k /\ b = a)
    BY <1>1, <1>3 DEF StreakInv
  <2>3. \A l \in Keys, b \in Accounts : bad[l][b] \in 0..2
    BY <1>1 DEF StreakInv
  <2>. QED  BY <1>4, <2>1, <2>2, <2>3
<1>. DEFINE next == Route!Longer(k, a)
<1>6. next \in Streaks /\ next.failures > 0 /\ next.account = a /\ next.failures <= Route!AtMostTwo(n + 1)
  <2>1. next.account = a /\ next.failures = (IF s.account = a THEN Route!AtMostTwo(s.failures + 1) ELSE 1)
    BY DEF Route!Longer
  <2>2. Route!AtMostTwo(s.failures + 1) \in 1..2
    BY <1>2, AtMost
  <2>3. s.account = a => Route!AtMostTwo(s.failures + 1) <= Route!AtMostTwo(n + 1)
    <3>1. s.account = a => s.failures <= n
      BY <1>2
    <3>. QED  BY <1>2, <3>1, LongerBoth
  <2>4. next.failures \in 1..2 /\ next.failures <= Route!AtMostTwo(n + 1)
    BY <1>4, <2>1, <2>2, <2>3
  <2>. QED  BY <1>1, <2>1, <2>4 DEF Route!Longer, Streaks, Route!Maybe
<1>7. /\ streak' = [l \in Keys |-> streak'[l]]
      /\ streak'[k] \in {s, next}
      /\ \A l \in Keys : l # k => streak'[l] = streak[l]
  BY <1>1 DEF Route!NoteFailure, StreakInv
<1>. HIDE DEF next
<1>8. ASSUME NEW l \in Keys
      PROVE  streak'[l] \in Streaks /\ Somebodys(streak'[l])
             /\ (streak'[l].failures > 0 => streak'[l].failures <= bad'[l][streak'[l].account])
  <2>1. CASE streak'[l] = streak[l]
    <3>1. streak[l] \in Streaks /\ streak[l].failures \in 0..2 /\ Somebodys(streak[l])
          /\ (streak[l].failures > 0 => streak[l].failures <= bad[l][streak[l].account])
      BY <1>1 DEF StreakInv, Route!StreakEarned, Streaks
    <3>2. streak[l].failures > 0 =>
            /\ bad[l][streak[l].account] \in 0..2 /\ bad'[l][streak[l].account] \in 0..2
            /\ bad[l][streak[l].account] <= bad'[l][streak[l].account]
      BY <1>1, <1>5, <3>1 DEF Somebodys, StreakInv
    <3>. QED  BY <2>1, <3>1, <3>2
  <2>2. CASE l = k /\ streak'[l] = next
    BY <1>1, <1>5, <1>6, <2>2 DEF Somebodys
  <2>. QED  BY <1>7, <2>1, <2>2
<1>. QED  BY <1>5, <1>7, <1>8 DEF StreakInv, Route!StreakEarned

\* Besides that, streaks only end, and only what an account itself did counts.
LEMMA REnded ==
  ASSUME RouteInv, streak' \in [Keys -> Streaks], bad' = bad,
         \A l \in Keys : streak'[l] \in {streak[l], Route!NoStreak}
  PROVE  StreakInv' /\ Route!StreakEarned'
BY DEF RouteInv, StreakInv, Route!StreakEarned, Route!NoStreak, Somebodys

LEMMA RSucceeded ==
  ASSUME RouteInv, NEW r \in Requests, Route!Succeed(r)
  PROVE  StreakInv' /\ Route!StreakEarned'
<1>. DEFINE k == call[r].key
            a == call[r].on
<1>1. k \in Keys /\ a \in Accounts /\ StreakInv /\ Route!StreakEarned
  BY TheTask DEF RouteInv, Route!Succeed, Route!At
<1>2. bad' = [bad EXCEPT ![k] = [@ EXCEPT ![a] = 0]]
  BY DEF Route!Succeed
<1>3. /\ bad' \in [Keys -> [Accounts -> 0..2]]
      /\ \A l \in Keys, b \in Accounts : bad'[l][b] = bad[l][b] \/ (l = k /\ b = a)
  BY <1>1, <1>2 DEF StreakInv
<1>4. /\ streak' = [l \in Keys |-> streak'[l]]
      /\ streak'[k] = Route!EndsStreak(k, a)
      /\ \A l \in Keys : l # k => streak'[l] = streak[l]
  BY <1>1 DEF Route!Succeed, StreakInv
<1>5. \A l \in Keys : \/ streak'[l] = Route!NoStreak
                      \/ streak'[l] = streak[l] /\ (l # k \/ streak[l].account # a)
  BY <1>4 DEF Route!EndsStreak
<1>6. Route!NoStreak \in Streaks /\ Route!NoStreak.failures = 0
  BY DEF Route!NoStreak, Streaks, Route!Maybe
<1>7. ASSUME NEW l \in Keys
      PROVE  streak'[l] \in Streaks /\ Somebodys(streak'[l])
             /\ (streak'[l].failures > 0 => streak'[l].failures <= bad'[l][streak'[l].account])
  <2>1. CASE streak'[l] = Route!NoStreak
    BY <1>6, <2>1 DEF Somebodys
  <2>2. CASE streak'[l] = streak[l] /\ (l # k \/ streak[l].account # a)
    <3>1. streak[l] \in Streaks /\ Somebodys(streak[l])
          /\ (streak[l].failures > 0 => streak[l].failures <= bad[l][streak[l].account])
      BY <1>1 DEF StreakInv, Route!StreakEarned
    <3>2. streak[l].failures > 0 => bad'[l][streak[l].account] = bad[l][streak[l].account]
      BY <1>3, <2>2, <3>1 DEF Somebodys
    <3>. QED  BY <2>2, <3>1, <3>2
  <2>. QED  BY <1>5, <2>1, <2>2
<1>. QED  BY <1>3, <1>4, <1>7 DEF StreakInv, Route!StreakEarned

LEMMA RStreaks ==
  ASSUME Route!RouteNames, RouteInv, [Route!Next]_(Route!vars)
  PROVE  StreakInv' /\ Route!StreakEarned'
<1>0. StreakInv /\ Route!StreakEarned /\ TaskInv /\ AdminInv
  BY DEF RouteInv
<1>1. CASE UNCHANGED <<streak, bad>>
  BY <1>0, <1>1 DEF StreakInv, Route!StreakEarned, Somebodys
<1>2. ASSUME NEW k \in Keys, streak' = [streak EXCEPT ![k] = Route!NoStreak],
             bad' = bad  PROVE StreakInv' /\ Route!StreakEarned'
  <2>1. Route!NoStreak \in Streaks
    BY DEF Route!NoStreak, Streaks, Route!Maybe
  <2>2. streak' \in [Keys -> Streaks] /\ \A l \in Keys : streak'[l] \in {streak[l], Route!NoStreak}
    BY <1>0, <1>2, <2>1 DEF StreakInv
  <2>. QED  BY <1>2, <2>2, REnded
<1>3. ASSUME NEW r \in Requests, Route!Clear(r)  PROVE StreakInv' /\ Route!StreakEarned'
  BY <1>0, <1>2, <1>3, TheTask DEF Route!Clear
<1>4. ASSUME NEW d \in Admins, Route!Administer(d)  PROVE StreakInv' /\ Route!StreakEarned'
  <2>1. CASE Route!Preferred(d)
    BY <1>0, <1>2, <2>1 DEF Route!Preferred, AdminInv, Orders
  <2>. QED  BY <1>1, <1>4, <2>1 DEF Route!Administer, Route!Look, Route!Prefer, Route!Delete
<1>5. ASSUME NEW r \in Requests, Route!Serve(r) \/ Route!Cancel(r)
      PROVE  Route!Succeed(r) \/ Route!NoteFailure(r) \/ Route!Clear(r) \/ UNCHANGED <<streak, bad>>
  BY <1>5 DEF Route!Serve, Route!Cancel, Route!Fail, Route!Ends, Route!MayMove, Route!Fallback, Route!Retry,
              Route!Looked, Route!Save
<1>6. ASSUME NEW r \in Requests, NEW k \in Keys, NEW a \in Accounts,
             Route!Select(r, k, a)  PROVE UNCHANGED <<streak, bad>>
  BY <1>6 DEF Route!Select
<1>. QED  BY <1>1, <1>3, <1>4, <1>5, <1>6, RSucceeded, RNoted DEF Route!Next, Route!vars

LEMMA RNext ==
  ASSUME Route!RouteNames, RouteInv, [Route!Next]_(Route!vars)
  PROVE  RouteInv'
BY RTasks, ROrders, RRoutes, RStreaks DEF RouteInv

\* The action of PreferenceKept.
Kept(k) ==
  route'[k].preferred # route[k].preferred =>
    \/ \E d \in Admins : /\ wish[d] = [op |-> "prefer", account |-> route'[k].preferred, key |-> k]
                         /\ wish'[d].op = "preferred"
    \/ /\ route'[k].preferred = NoAccount
       /\ \E d \in Admins : wish[d] = [op |-> "delete", account |-> route[k].preferred, key |-> Route!AnyKey]
                            \/ wish[d] = [op |-> "delete", account |-> route[k].active, key |-> Route!AnyKey]

LEMMA RKept ==
  ASSUME Route!RouteNames, RouteInv, Route!Next, NEW k \in Keys
  PROVE  Kept(k)
<1>0. route \in [Keys -> Routes] /\ TaskInv /\ AdminInv
  BY DEF RouteInv
<1>1. CASE route'[k].preferred = route[k].preferred
  BY <1>1 DEF Kept
<1>2. ASSUME NEW l \in Keys, NEW a \in Accounts, route' = [route EXCEPT ![l] = Route!Saved(@, a)]
      PROVE  route'[k].preferred = route[k].preferred
  BY <1>0, <1>2, RSaved
<1>3. ASSUME NEW r \in Requests,
             Route!Serve(r) \/ Route!Cancel(r)  PROVE route'[k].preferred = route[k].preferred
  <2>1. CASE Route!Save(r)
    BY <1>0, <1>2, <2>1, TheTask DEF Route!Save
  <2>. QED
    BY <1>3, <2>1 DEF Route!Serve, Route!Cancel, Route!Succeed, Route!Fail, Route!Ends, Route!NoteFailure,
                      Route!MayMove, Route!Fallback, Route!Retry, Route!Looked, Route!Clear
<1>4. ASSUME NEW d \in Admins, Route!Administer(d)  PROVE Kept(k)
  <2>0. wish[d] \in Orders /\ (wish[d].op = "delete" => wish[d].key = Route!AnyKey)
    BY <1>0 DEF AdminInv
  <2>1. CASE Route!Prefer(d)
    <3>1. CASE k = wish[d].key
      <4>1. route'[k].preferred = wish[d].account
        BY <1>0, <2>1, <3>1 DEF Route!Prefer
      <4>2. wish'[d].op = "preferred"
        BY <1>0, <2>1 DEF Route!Prefer, Route!Intends, AdminInv
      <4>3. wish[d] = [op |-> "prefer", account |-> wish[d].account, key |-> k]
        BY <2>0, <2>1, <3>1 DEF Route!Prefer, Orders
      <4>. QED  BY <4>1, <4>2, <4>3 DEF Kept
    <3>2. CASE k # wish[d].key
      BY <1>0, <1>1, <2>1, <3>2 DEF Route!Prefer
    <3>. QED  BY <3>1, <3>2
  <2>2. CASE Route!Delete(d)
    <3>. DEFINE a == wish[d].account
    <3>1. CASE a \in {route[k].preferred, route[k].active}
      <4>1. route'[k].preferred = NoAccount
        BY <2>2, <3>1 DEF Route!Delete, Route!Without, Route!Nowhere
      <4>2. wish[d] = [op |-> "delete", account |-> a, key |-> Route!AnyKey]
        BY <2>0, <2>2 DEF Route!Delete, Orders
      <4>. QED  BY <3>1, <4>1, <4>2 DEF Kept
    <3>2. CASE a \notin {route[k].preferred, route[k].active}
      BY <1>1, <2>2, <3>2 DEF Route!Delete, Route!Without
    <3>. QED  BY <3>1, <3>2
  <2>. QED  BY <1>1, <1>4, <2>1, <2>2 DEF Route!Administer, Route!Look, Route!Preferred
<1>5. ASSUME NEW r \in Requests, NEW l \in Keys, NEW a \in Accounts, Route!Select(r, l, a)
      PROVE  route'[k].preferred = route[k].preferred
  BY <1>2, <1>5 DEF Route!Select
<1>. QED  BY <1>1, <1>3, <1>4, <1>5 DEF Route!Next

\* Whoever is blamed for failures in a row on a key had them since its last
\* success there, and no selection, failover or retry sets, moves or drops the
\* preference an administrator chose, not even one that had decided before it
\* was set (_route_failure, select_account, set_api_key_route).
THEOREM RoutesAreKept ==
  ASSUME Route!RouteNames
  PROVE  Route!Spec => []Route!StreakEarned /\ Route!PreferenceKept
<1>1. Route!Init => RouteInv
  BY RInit
<1>2. RouteInv /\ [Route!Next]_(Route!vars) => RouteInv'
  BY RNext
<1>3. RouteInv => Route!StreakEarned
  BY DEF RouteInv
<1>4. RouteInv /\ [Route!Next]_(Route!vars) => [\A k \in Keys : Kept(k)]_(Route!vars)
  BY RKept
<1>. QED  BY <1>1, <1>2, <1>3, <1>4, PTL DEF Route!Spec, Route!PreferenceKept, Kept

-----------------------------------------------------------------------------
(* The quotas of the accounts (Quotas), for any accounts, lists and resets. *)
(*                                                                         *)
(* A fetcher that asks the provider holds the lock of its account, so what it *)
(* has seen is at least what the cache holds (Ahead); the fetcher of a reset *)
(* starts after its post was answered (Follows).                           *)
CONSTANTS Lists, Resets, Nobody, Provider, AccountOf, Slots, MaxAge, NewKeyEachTry, MaxTime, MaxTries
VARIABLES now, quota, redeemed, cache, lock, resetting, fetcher, refresh, reset

Quota == INSTANCE Quotas

Entries == [at : Int, quota : Int]
Answers == [quota : Int, at : Int, stale : BOOLEAN, cached : BOOLEAN]
Phases == {"idle", "queued", "waiting", "asking", "again", "details", "told", "done"}
Fetches == [pc : Phases, held : Entries, seen : Int, answer : Answers]
Looked == {"again", "details", "told"}
Tries == [pc : {"idle", "waiting", "posting", "reading", "unknown", "done"}, tries : Nat, cost : Nat, made : Nat]
Of(r) == <<r, AccountOf[r]>>

\* The snapshot of an account: something that was fetched, and not of a quota
\* the account has yet to reach.
Snapshot(c, q) == c \in Entries /\ (c = Quota!Nothing \/ c.at \in Nat) /\ c.quota <= q /\ -1 <= c.quota

\* A fetcher that asks holds the lock of its account; so what it has seen is
\* at least what the cache holds.
Holds(f, g, l) == g.pc \in Quota!Asking => l = f
Ahead(g, c, q) == g.pc \in Looked => c.quota <= g.seen /\ g.seen <= q

\* A reset and the fetcher it starts once its post is answered.
Follows(t, g, q) ==
  /\ t.made <= q
  /\ t.pc \in {"idle", "waiting", "posting", "unknown"} => g.pc = "idle"
  /\ t.pc = "reading" => g.pc \in {"waiting", "done"} \cup Quota!Asking
  /\ t.pc = "done" => g.pc = "done"
  /\ t.pc \in {"reading", "done"} /\ g.pc \in Looked => t.made <= g.seen
  /\ t.pc \in {"reading", "done"} /\ g.pc = "done" => g.answer.stale = TRUE \/ t.made <= g.answer.quota

\* With one key a reset pays at most once.
Pays(r) == reset[r].cost <= 1 /\ (reset[r].cost = 1 => <<r, 0>> \in redeemed)

QTypes ==
  /\ now \in Nat
  /\ quota \in [Accounts -> Nat]
  /\ cache \in [Accounts -> Entries]
  /\ lock \in [Accounts -> Quota!Fetchers \cup {Nobody}]
  /\ fetcher \in [Quota!Fetchers -> Fetches]
  /\ reset \in [Resets -> Tries]
Snapshots == \A a \in Accounts : Snapshot(cache[a], quota[a])
OneAsks == \A f \in Quota!Fetchers : Holds(f, fetcher[f], lock[Quota!Account(f)])
InOrder == \A f \in Quota!Fetchers : Ahead(fetcher[f], cache[Quota!Account(f)], quota[Quota!Account(f)])
Following == \A r \in Resets : Follows(reset[r], fetcher[Of(r)], quota[AccountOf[r]])
Paying == ~NewKeyEachTry => \A r \in Resets : Pays(r)
QInv == QTypes /\ Snapshots /\ OneAsks /\ InOrder /\ Following /\ Paying

LEMMA TheFetchers ==
  ASSUME Quota!BoundsAssumption
  PROVE  /\ \A f \in Quota!Fetchers : Quota!Account(f) \in Accounts
         /\ \A r \in Resets : Of(r) \in Quota!Fetchers /\ Of(r)[1] = r /\ Quota!Account(Of(r)) = AccountOf[r]
         /\ \A l \in Lists, r \in Resets : Of(r)[1] # l
         /\ Nobody \notin Quota!Fetchers
         /\ MaxAge \in Nat \ {0}
BY DEF Quota!BoundsAssumption, Quota!Fetchers, Quota!Account, Of

LEMMA AFetch ==
         /\ Quota!Nothing \in Entries /\ Quota!Nothing.quota = -1
         /\ Quota!Idle \in Fetches /\ Quota!Idle.pc = "idle"
         /\ \A p \in Phases : [Quota!Idle EXCEPT !.pc = p] \in Fetches /\ [Quota!Idle EXCEPT !.pc = p].pc = p
<1>1. Quota!Nothing \in Entries /\ Quota!Nothing.quota = -1
  BY DEF Quota!Nothing, Entries
<1>2. Quota!NoAnswer \in Answers
  BY DEF Quota!NoAnswer, Quota!Answer, Quota!Nothing, Answers
<1>. QED  BY <1>1, <1>2 DEF Quota!Idle, Fetches, Phases

LEMMA QInit ==
  ASSUME Quota!BoundsAssumption, Quota!Init
  PROVE  QInv
<1>1. \A f \in Quota!Fetchers : Quota!Account(f) \in Accounts
  BY TheFetchers
<1>2. now = 0 /\ quota \in [Accounts -> Nat] /\ \A a \in Accounts : quota[a] = 0
  BY DEF Quota!Init
<1>3. cache \in [Accounts -> Entries] /\ \A a \in Accounts : cache[a] = Quota!Nothing
  BY AFetch DEF Quota!Init
<1>4. fetcher \in [Quota!Fetchers -> Fetches] /\ \A f \in Quota!Fetchers : fetcher[f].pc = "idle"
  BY AFetch DEF Quota!Init
<1>5. reset \in [Resets -> Tries] /\ \A r \in Resets : reset[r].pc = "idle" /\ reset[r].made = 0
        /\ reset[r].cost = 0
  BY DEF Quota!Init, Tries
<1>6. lock \in [Accounts -> Quota!Fetchers \cup {Nobody}]
  BY DEF Quota!Init
<1>7. QTypes
  BY <1>2, <1>3, <1>4, <1>5, <1>6 DEF QTypes
<1>8. Snapshots
  BY <1>2, <1>3, AFetch DEF Snapshots, Snapshot
<1>9. OneAsks /\ InOrder
  BY <1>4 DEF OneAsks, InOrder, Holds, Ahead, Quota!Asking, Looked
<1>10. Following
  <2>1. \A r \in Resets : quota[AccountOf[r]] = 0 /\ fetcher[Of(r)].pc = "idle"
    BY <1>2, <1>4, TheFetchers DEF Quota!BoundsAssumption
  <2>. QED  BY <1>5, <2>1 DEF Following, Follows, Looked
<1>11. Paying
  BY <1>5 DEF Paying, Pays
<1>. QED  BY <1>7, <1>8, <1>9, <1>10, <1>11 DEF QInv

-----------------------------------------------------------------------------
(* A fetcher's step.                                                       *)

\* Whoever changes the lock or the snapshot of an account holds the lock or
\* finds it free: the other fetchers of the account ask nothing.
LEMMA OneFetches ==
  ASSUME Quota!BoundsAssumption, QInv, NEW f \in Quota!Fetchers, NEW g \in Fetches,
         fetcher' = [fetcher EXCEPT ![f] = g], quota' = quota,
         lock' \in [Accounts -> Quota!Fetchers \cup {Nobody}], cache' \in [Accounts -> Entries],
         \A a \in Accounts : a # Quota!Account(f) => lock'[a] = lock[a] /\ cache'[a] = cache[a],
         lock'[Quota!Account(f)] = lock[Quota!Account(f)] \/ lock[Quota!Account(f)] \in {f, Nobody},
         cache'[Quota!Account(f)] = cache[Quota!Account(f)] \/ lock[Quota!Account(f)] = f,
         Holds(f, g, lock'[Quota!Account(f)]), Ahead(g, cache'[Quota!Account(f)], quota[Quota!Account(f)])
  PROVE  OneAsks' /\ InOrder'
<1>1. \A h \in Quota!Fetchers : Quota!Account(h) \in Accounts /\ h # Nobody
  BY TheFetchers
<1>2. QTypes /\ OneAsks /\ InOrder
  BY DEF QInv
<1>3. fetcher'[f] = g /\ \A h \in Quota!Fetchers : h # f => fetcher'[h] = fetcher[h]
  BY <1>2 DEF QTypes
<1>4. ASSUME NEW h \in Quota!Fetchers, h # f, fetcher[h].pc \in Quota!Asking
      PROVE  lock[Quota!Account(h)] = h /\ lock'[Quota!Account(h)] = lock[Quota!Account(h)]
               /\ cache'[Quota!Account(h)] = cache[Quota!Account(h)]
  <2>1. lock[Quota!Account(h)] = h
    BY <1>2, <1>4 DEF OneAsks, Holds
  <2>2. Quota!Account(h) = Quota!Account(f) => lock[Quota!Account(f)] \notin {f, Nobody}
    BY <1>1, <1>4, <2>1
  <2>. QED  BY <1>1, <2>1, <2>2
<1>5. \A h \in Quota!Fetchers : Holds(h, fetcher'[h], lock'[Quota!Account(h)])
  BY <1>2, <1>3, <1>4 DEF OneAsks, Holds
<1>6. ASSUME NEW h \in Quota!Fetchers
      PROVE  Ahead(fetcher'[h], cache'[Quota!Account(h)], quota[Quota!Account(h)])
  <2>1. CASE h = f
    BY <1>3, <2>1
  <2>2. CASE h # f /\ fetcher[h].pc \in Looked
    BY <1>2, <1>3, <1>4, <2>2 DEF InOrder, Looked, Quota!Asking
  <2>3. CASE h # f /\ fetcher[h].pc \notin Looked
    BY <1>3, <2>3 DEF Ahead
  <2>. QED  BY <2>1, <2>2, <2>3
<1>. QED  BY <1>5, <1>6 DEF OneAsks, InOrder, Quota!Account

LEMMA FetchFollows ==
  ASSUME Quota!BoundsAssumption, QInv, NEW f \in Quota!Fetchers, NEW g \in Fetches,
         fetcher' = [fetcher EXCEPT ![f] = g], quota' = quota, reset' = reset,
         \A r \in Resets : f = Of(r) => Follows(reset[r], g, quota[AccountOf[r]])
  PROVE  Following'
<1>1. Following /\ QTypes /\ \A r \in Resets : Of(r) \in Quota!Fetchers
  BY TheFetchers DEF QInv
<1>2. \A r \in Resets : fetcher'[Of(r)] = IF f = Of(r) THEN g ELSE fetcher[Of(r)]
  BY <1>1 DEF QTypes
<1>. QED  BY <1>1, <1>2 DEF Following, Of

LEMMA TheFetch ==
  ASSUME Quota!BoundsAssumption, QInv, NEW f \in Quota!Fetchers
  PROVE  /\ fetcher[f] \in Fetches /\ fetcher[f].seen \in Int /\ fetcher[f].held \in Entries
         /\ Quota!Account(f) \in Accounts /\ quota[Quota!Account(f)] \in Nat /\ now \in Nat
         /\ Snapshot(cache[Quota!Account(f)], quota[Quota!Account(f)])
         /\ Holds(f, fetcher[f], lock[Quota!Account(f)])
         /\ Ahead(fetcher[f], cache[Quota!Account(f)], quota[Quota!Account(f)])
         /\ \A r \in Resets : f = Of(r) =>
              Follows(reset[r], fetcher[f], quota[AccountOf[r]]) /\ Quota!Account(f) = AccountOf[r]
                /\ Quota!Wants(f)
         /\ \A r \in Resets : reset[r] \in Tries
BY TheFetchers DEF QInv, QTypes, Snapshots, OneAsks, InOrder, Following, Fetches, Quota!Wants

\* What a finished fetcher shows.
Shows(f, answer) == [fetcher[f] EXCEPT !.pc = "done", !.answer = answer]

LEMMA TheAnswer ==
  ASSUME NEW f \in Quota!Fetchers, fetcher[f] \in Fetches, NEW answer \in Answers
  PROVE  Shows(f, answer) \in Fetches /\ Shows(f, answer).pc = "done" /\ Shows(f, answer).answer = answer
BY DEF Shows, Fetches, Phases

LEMMA AnAnswer ==
  ASSUME NEW entry \in Entries, NEW s \in BOOLEAN, NEW c \in BOOLEAN
  PROVE  /\ Quota!Answer(entry, s, c) \in Answers /\ Quota!Answer(entry, s, c).stale = s
         /\ Quota!Answer(entry, s, c).quota = entry.quota /\ Quota!Answer(entry, s, c).at = entry.at
BY DEF Quota!Answer, Answers, Entries

\* A step of one fetcher that leaves locks and snapshots alone.
LEMMA QQuiet ==
  ASSUME Quota!BoundsAssumption, QInv, NEW f \in Quota!Fetchers, NEW g \in Fetches,
         fetcher' = [fetcher EXCEPT ![f] = g],
         UNCHANGED <<now, quota, redeemed, cache, lock, resetting, refresh, reset>>,
         g.pc \in Quota!Asking => fetcher[f].pc \in Quota!Asking,
         Ahead(g, cache[Quota!Account(f)], quota[Quota!Account(f)]),
         \A r \in Resets : f = Of(r) => Follows(reset[r], g, quota[AccountOf[r]])
  PROVE  QInv'
<1>1. QTypes'
  BY DEF QInv, QTypes, Quota!Fetchers
<1>2. Snapshots' /\ Paying'
  BY DEF QInv, Snapshots, Paying, Pays
<1>3. Holds(f, g, lock[Quota!Account(f)])
  BY TheFetch DEF Holds
<1>4. OneAsks' /\ InOrder'
  BY <1>1, <1>3, OneFetches DEF QTypes
<1>5. Following'
  BY FetchFollows
<1>. QED  BY <1>1, <1>2, <1>4, <1>5 DEF QInv

LEMMA QEnter ==
  ASSUME Quota!BoundsAssumption, QInv, NEW f \in Quota!Fetchers, Quota!Enter(f)
  PROVE  QInv'
<1>1. CASE ~Quota!Wants(f) /\ Quota!Fresh(Quota!Account(f))
  <2>. DEFINE answer == Quota!Answer(cache[Quota!Account(f)], FALSE, TRUE)
              g == Shows(f, answer)
  <2>1. fetcher' = [fetcher EXCEPT ![f] = g]
    BY <1>1 DEF Quota!Enter, Quota!FromCache, Quota!Done, Shows
  <2>0. answer \in Answers
    BY TheFetch, AnAnswer DEF Snapshot
  <2>. HIDE DEF answer
  <2>2. g \in Fetches /\ g.pc = "done"
    BY <2>0, TheFetch, TheAnswer
  <2>3. \A r \in Resets : f # Of(r)
    BY <1>1, TheFetch
  <2>. HIDE DEF g
  <2>. QED  BY <2>1, <2>2, <2>3, QQuiet DEF Quota!Enter, Quota!Asking, Ahead, Looked
<1>2. CASE ~(~Quota!Wants(f) /\ Quota!Fresh(Quota!Account(f)))
  <2>. DEFINE g == [fetcher[f] EXCEPT !.pc = "waiting"]
  <2>1. fetcher' = [fetcher EXCEPT ![f] = g] /\ fetcher[f].pc = "queued"
    BY <1>2 DEF Quota!Enter
  <2>2. g \in Fetches /\ g.pc = "waiting"
    BY TheFetch DEF Fetches, Phases
  <2>3. \A r \in Resets : f = Of(r) => Follows(reset[r], g, quota[AccountOf[r]])
    BY <2>1, TheFetch DEF Follows, Tries, Quota!Asking
  <2>. HIDE DEF g
  <2>. QED  BY <2>1, <2>2, <2>3, QQuiet DEF Quota!Enter, Quota!Asking, Ahead, Looked
<1>. QED  BY <1>1, <1>2

LEMMA QLook ==
  ASSUME Quota!BoundsAssumption, QInv, NEW f \in Quota!Fetchers, NEW p \in Looked, Quota!To(f, p),
         Quota!Unmoved, fetcher[f].pc \in Quota!Asking
  PROVE  QInv'
<1>. DEFINE q == quota[Quota!Account(f)]
            g == [fetcher[f] EXCEPT !.pc = p, !.seen = q]
<1>1. fetcher' = [fetcher EXCEPT ![f] = g]
  BY DEF Quota!To
<1>0. q \in Int /\ fetcher[f] \in Fetches /\ p \in Phases
  BY TheFetch DEF Phases, Looked
<1>. HIDE DEF q
<1>2. g \in Fetches /\ g.pc = p /\ g.seen = q
  BY <1>0 DEF Fetches
<1>. USE DEF q
<1>3. Ahead(g, cache[Quota!Account(f)], quota[Quota!Account(f)])
  BY <1>2, TheFetch DEF Ahead, Snapshot, Entries
<1>4. \A r \in Resets : f = Of(r) => Follows(reset[r], g, quota[AccountOf[r]])
  BY <1>2, TheFetch DEF Follows, Tries, Quota!Asking, Looked
<1>. HIDE DEF g
<1>. QED  BY <1>1, <1>2, <1>3, <1>4, QQuiet DEF Quota!Unmoved

LEMMA QDetails ==
  ASSUME Quota!BoundsAssumption, QInv, NEW f \in Quota!Fetchers, Quota!Details(f)
  PROVE  QInv'
<1>. DEFINE g == [fetcher[f] EXCEPT !.pc = "told"]
<1>1. fetcher' = [fetcher EXCEPT ![f] = g] /\ fetcher[f].pc = "details"
  BY DEF Quota!Details
<1>2. g \in Fetches /\ g.pc = "told" /\ g.seen = fetcher[f].seen
  BY TheFetch DEF Fetches, Phases
<1>3. Ahead(g, cache[Quota!Account(f)], quota[Quota!Account(f)])
  BY <1>1, <1>2, TheFetch DEF Ahead, Looked
<1>4. \A r \in Resets : f = Of(r) => Follows(reset[r], g, quota[AccountOf[r]])
  BY <1>1, <1>2, TheFetch DEF Follows, Tries, Quota!Asking, Looked
<1>. HIDE DEF g
<1>. QED  BY <1>1, <1>2, <1>3, <1>4, QQuiet DEF Quota!Details, Quota!Unmoved, Quota!Asking

\* The steps that take or give back the lock.
LEMMA QLocked ==
  ASSUME Quota!BoundsAssumption, QInv, NEW f \in Quota!Fetchers, NEW g \in Fetches,
         NEW x \in Quota!Fetchers \cup {Nobody},
         fetcher' = [fetcher EXCEPT ![f] = g], lock' = [lock EXCEPT ![Quota!Account(f)] = x],
         cache' \in [Accounts -> Entries],
         \A a \in Accounts : a # Quota!Account(f) => cache'[a] = cache[a],
         Snapshot(cache'[Quota!Account(f)], quota[Quota!Account(f)]),
         UNCHANGED <<now, quota, redeemed, resetting, refresh, reset>>,
         lock[Quota!Account(f)] \in {f, Nobody},
         cache'[Quota!Account(f)] = cache[Quota!Account(f)] \/ lock[Quota!Account(f)] = f,
         Holds(f, g, x), g.pc \notin Looked,
         \A r \in Resets : f = Of(r) => Follows(reset[r], g, quota[AccountOf[r]])
  PROVE  QInv'
<1>1. lock' \in [Accounts -> Quota!Fetchers \cup {Nobody}] /\ lock'[Quota!Account(f)] = x
      /\ \A a \in Accounts : a # Quota!Account(f) => lock'[a] = lock[a]
  BY TheFetch DEF QInv, QTypes
<1>2. QTypes'
  BY <1>1 DEF QInv, QTypes, Quota!Fetchers
<1>3. Snapshots' /\ Paying'
  BY DEF QInv, Snapshots, Paying, Pays
<1>4. OneAsks' /\ InOrder'
  <2>1. Ahead(g, cache'[Quota!Account(f)], quota[Quota!Account(f)])
    BY DEF Ahead
  <2>. QED  BY <1>1, <2>1, OneFetches
<1>5. Following'
  BY FetchFollows
<1>. QED  BY <1>2, <1>3, <1>4, <1>5 DEF QInv

LEMMA QLock ==
  ASSUME Quota!BoundsAssumption, QInv, NEW f \in Quota!Fetchers, Quota!Lock(f)
  PROVE  QInv'
<1>1. CASE ~Quota!Wants(f) /\ Quota!Fresh(Quota!Account(f))
  <2>. DEFINE answer == Quota!Answer(cache[Quota!Account(f)], FALSE, TRUE)
              g == Shows(f, answer)
  <2>1. fetcher' = [fetcher EXCEPT ![f] = g] /\ lock' = lock
    BY <1>1 DEF Quota!Lock, Quota!FromCache, Quota!Done, Shows
  <2>0. answer \in Answers
    BY TheFetch, AnAnswer DEF Snapshot
  <2>. HIDE DEF answer
  <2>2. g \in Fetches /\ g.pc = "done"
    BY <2>0, TheFetch, TheAnswer
  <2>3. \A r \in Resets : f # Of(r)
    BY <1>1, TheFetch
  <2>. HIDE DEF g
  <2>. QED  BY <2>1, <2>2, <2>3, QQuiet DEF Quota!Lock, Quota!Asking, Ahead, Looked
<1>2. CASE ~(~Quota!Wants(f) /\ Quota!Fresh(Quota!Account(f)))
  <2>. DEFINE g == [fetcher[f] EXCEPT !.pc = "asking", !.held = cache[Quota!Account(f)]]
  <2>1. /\ fetcher' = [fetcher EXCEPT ![f] = g] /\ fetcher[f].pc = "waiting"
        /\ lock' = [lock EXCEPT ![Quota!Account(f)] = f] /\ lock[Quota!Account(f)] = Nobody /\ cache' = cache
        /\ UNCHANGED <<now, quota, redeemed, resetting, refresh, reset>>
    BY <1>2 DEF Quota!Lock, Quota!MayLock
  <2>2. g \in Fetches /\ g.pc = "asking"
    BY TheFetch DEF Fetches, Phases, Snapshot
  <2>3. \A r \in Resets : f = Of(r) => Follows(reset[r], g, quota[AccountOf[r]])
    BY <2>1, <2>2, TheFetch DEF Follows, Tries, Quota!Asking, Looked
  <2>4. cache' \in [Accounts -> Entries] /\ Snapshot(cache'[Quota!Account(f)], quota[Quota!Account(f)])
    BY <2>1, TheFetch DEF QInv, QTypes
  <2>. HIDE DEF g
  <2>. QED  BY <2>1, <2>2, <2>3, <2>4, QLocked DEF Looked, Holds
<1>. QED  BY <1>1, <1>2

LEMMA QStore ==
  ASSUME Quota!BoundsAssumption, QInv, NEW f \in Quota!Fetchers, Quota!Store(f)
  PROVE  QInv'
<1>. DEFINE entry == [at |-> now, quota |-> fetcher[f].seen]
            answer == Quota!Answer(entry, FALSE, FALSE)
            g == Shows(f, answer)
<1>1. /\ fetcher' = [fetcher EXCEPT ![f] = g] /\ fetcher[f].pc = "told"
      /\ lock' = [lock EXCEPT ![Quota!Account(f)] = Nobody] /\ cache' = [cache EXCEPT ![Quota!Account(f)] = entry]
      /\ UNCHANGED <<now, quota, redeemed, resetting, refresh, reset>>
  BY DEF Quota!Store, Quota!Done, Shows
<1>2. entry \in Entries /\ entry.quota = fetcher[f].seen /\ entry.at = now
  BY TheFetch DEF Entries
<1>. HIDE DEF entry
<1>0. answer \in Answers /\ answer.quota = fetcher[f].seen
  BY <1>2, AnAnswer
<1>. HIDE DEF answer
<1>3. g \in Fetches /\ g.pc = "done" /\ g.answer.quota = fetcher[f].seen
  BY <1>0, TheFetch, TheAnswer
<1>4. lock[Quota!Account(f)] = f
  BY <1>1, TheFetch DEF Holds, Quota!Asking
<1>5. /\ cache' \in [Accounts -> Entries] /\ cache'[Quota!Account(f)] = entry
      /\ \A a \in Accounts : a # Quota!Account(f) => cache'[a] = cache[a]
  BY <1>1, <1>2, TheFetch DEF QInv, QTypes
<1>6. Snapshot(entry, quota[Quota!Account(f)])
  <2>1. cache[Quota!Account(f)].quota <= fetcher[f].seen /\ fetcher[f].seen <= quota[Quota!Account(f)]
    BY <1>1, TheFetch DEF Ahead, Looked
  <2>2. -1 <= cache[Quota!Account(f)].quota /\ cache[Quota!Account(f)].quota \in Int /\ fetcher[f].seen \in Int
    BY TheFetch DEF Snapshot, Entries
  <2>. QED  BY <1>2, <2>1, <2>2, TheFetch DEF Snapshot
<1>. HIDE DEF g
<1>7. \A r \in Resets : f = Of(r) => Follows(reset[r], g, quota[AccountOf[r]])
  BY <1>1, <1>3, TheFetch DEF Follows, Tries, Quota!Asking, Looked
<1>. QED  BY <1>1, <1>3, <1>4, <1>5, <1>6, <1>7, QLocked DEF Looked, Holds, Quota!Asking

LEMMA QFail ==
  ASSUME Quota!BoundsAssumption, QInv, NEW f \in Quota!Fetchers, Quota!Fail(f)
  PROVE  QInv'
<1>. DEFINE answer == Quota!Failure(f)
            g == Shows(f, answer)
<1>1. /\ fetcher' = [fetcher EXCEPT ![f] = g] /\ fetcher[f].pc \in {"asking", "again", "told"}
      /\ lock' = [lock EXCEPT ![Quota!Account(f)] = Nobody] /\ cache' = cache
      /\ UNCHANGED <<now, quota, redeemed, resetting, refresh, reset>>
  BY DEF Quota!Fail, Quota!Done, Quota!MayFail, Shows
<1>0. answer \in Answers /\ answer.stale = TRUE
  BY TheFetch, AnAnswer DEF Quota!Failure
<1>. HIDE DEF answer
<1>2. g \in Fetches /\ g.pc = "done" /\ g.answer.stale = TRUE
  BY <1>0, TheFetch, TheAnswer
<1>3. lock[Quota!Account(f)] = f
  BY <1>1, TheFetch DEF Holds, Quota!Asking
<1>4. cache' \in [Accounts -> Entries] /\ Snapshot(cache'[Quota!Account(f)], quota[Quota!Account(f)])
  BY <1>1, TheFetch DEF QInv, QTypes
<1>. HIDE DEF g
<1>5. \A r \in Resets : f = Of(r) => Follows(reset[r], g, quota[AccountOf[r]])
  BY <1>1, <1>2, TheFetch DEF Follows, Tries, Quota!Asking, Looked
<1>. QED  BY <1>1, <1>2, <1>3, <1>4, <1>5, QLocked DEF Looked, Holds, Quota!Asking

LEMMA QBegin ==
  ASSUME Quota!BoundsAssumption, QInv, NEW l \in Lists, NEW again \in BOOLEAN, Quota!BeginList(l, again)
  PROVE  QInv'
<1>1. QInv /\ UNCHANGED <<now, quota, redeemed, cache, lock, resetting, reset>>
  BY DEF Quota!BeginList
<1>2. \A f \in Quota!Fetchers : \/ fetcher'[f] = fetcher[f]
                                \/ f[1] = l /\ fetcher'[f] \in Fetches /\ fetcher'[f].pc = "queued"
  BY AFetch DEF Quota!BeginList, Phases
<1>3. fetcher' \in [Quota!Fetchers -> Fetches]
  BY <1>1, <1>2 DEF Quota!BeginList, QInv, QTypes
<1>4. QTypes' /\ Snapshots' /\ Paying'
  BY <1>1, <1>3 DEF QInv, QTypes, Snapshots, Paying, Pays, Quota!Fetchers
<1>5. OneAsks' /\ InOrder'
  BY <1>1, <1>2 DEF QInv, OneAsks, InOrder, Holds, Ahead, Quota!Asking, Looked, Quota!Account,
                    Quota!Fetchers
<1>6. \A r \in Resets : fetcher'[Of(r)] = fetcher[Of(r)]
  BY <1>2, TheFetchers
<1>7. Following'
  BY <1>1, <1>6 DEF QInv, Following, Of
<1>. QED  BY <1>4, <1>5, <1>7 DEF QInv

-----------------------------------------------------------------------------
(* A reset's step.                                                         *)

LEMMA TheReset ==
  ASSUME Quota!BoundsAssumption, QInv, NEW r \in Resets
  PROVE  /\ reset[r] \in Tries /\ reset[r].made \in Nat /\ reset[r].cost \in Nat
         /\ AccountOf[r] \in Accounts /\ quota[AccountOf[r]] \in Nat /\ Of(r) \in Quota!Fetchers
         /\ fetcher[Of(r)] \in Fetches
         /\ Follows(reset[r], fetcher[Of(r)], quota[AccountOf[r]])
         /\ (~NewKeyEachTry => Pays(r))
BY TheFetchers DEF QInv, QTypes, Following, Paying, Tries, Quota!BoundsAssumption

\* A step that only concerns the reset itself.
LEMMA QReset ==
  ASSUME Quota!BoundsAssumption, QInv, NEW r \in Resets, NEW t \in Tries,
         reset' = [reset EXCEPT ![r] = t],
         UNCHANGED <<now, quota, redeemed, cache, lock, fetcher>>,
         t.cost = reset[r].cost,
         Follows(t, fetcher[Of(r)], quota[AccountOf[r]])
  PROVE  QInv'
<1>1. QTypes' /\ Snapshots' /\ OneAsks' /\ InOrder'
  BY DEF QInv, QTypes, Snapshots, OneAsks, InOrder, Quota!Fetchers, Quota!Account
<1>2. \A s \in Resets : reset'[s] = IF s = r THEN t ELSE reset[s]
  BY DEF QInv, QTypes
<1>3. Following'
  BY <1>2 DEF QInv, Following, Of
<1>4. Paying'
  BY <1>2 DEF QInv, Paying, Pays
<1>. QED  BY <1>1, <1>3, <1>4 DEF QInv

LEMMA QAsks ==
  ASSUME Quota!BoundsAssumption, QInv, NEW r \in Resets,
         Quota!Ask(r) \/ Quota!LockReset(r) \/ Quota!PostLost(r) \/ Quota!Answered(r)
  PROVE  QInv'
<1>0. /\ reset[r] \in Tries /\ reset[r].made \in Nat /\ reset[r].tries \in Nat /\ quota[AccountOf[r]] \in Nat
      /\ Follows(reset[r], fetcher[Of(r)], quota[AccountOf[r]])
  BY TheReset DEF Tries
<1>1. CASE Quota!Ask(r)
  <2>. DEFINE n == reset[r].tries + 1
              t == [reset[r] EXCEPT !.pc = "waiting", !.tries = n]
  <2>2. reset' = [reset EXCEPT ![r] = t]
    BY <1>1 DEF Quota!Ask
  <2>0. n \in Nat
    BY <1>0
  <2>. HIDE DEF n
  <2>1. t \in Tries /\ t.cost = reset[r].cost /\ t.made = reset[r].made /\ t.pc = "waiting"
    BY <1>0, <2>0 DEF Tries
  <2>3. Follows(t, fetcher[Of(r)], quota[AccountOf[r]])
    BY <1>0, <1>1, <2>1 DEF Follows, Quota!Ask
  <2>. HIDE DEF t
  <2>. QED  BY <1>1, <2>1, <2>2, <2>3, QReset DEF Quota!Ask
<1>2. CASE Quota!LockReset(r)
  <2>. DEFINE t == [reset[r] EXCEPT !.pc = "posting"]
  <2>1. t \in Tries /\ t.cost = reset[r].cost /\ t.made = reset[r].made /\ t.pc = "posting"
    BY <1>0 DEF Tries
  <2>2. reset' = [reset EXCEPT ![r] = t]
    BY <1>2 DEF Quota!LockReset
  <2>3. Follows(t, fetcher[Of(r)], quota[AccountOf[r]])
    BY <1>0, <1>2, <2>1 DEF Follows, Quota!LockReset
  <2>. HIDE DEF t
  <2>. QED  BY <1>2, <2>1, <2>2, <2>3, QReset DEF Quota!LockReset
<1>3. CASE Quota!PostLost(r)
  <2>. DEFINE t == [reset[r] EXCEPT !.pc = "unknown", !.made = 0]
  <2>1. t \in Tries /\ t.cost = reset[r].cost /\ t.made = 0 /\ t.pc = "unknown"
    BY <1>0 DEF Tries
  <2>2. reset' = [reset EXCEPT ![r] = t]
    BY <1>3 DEF Quota!PostLost
  <2>3. Follows(t, fetcher[Of(r)], quota[AccountOf[r]])
    BY <1>0, <1>3, <2>1 DEF Follows, Quota!PostLost
  <2>. HIDE DEF t
  <2>. QED  BY <1>3, <2>1, <2>2, <2>3, QReset DEF Quota!PostLost
<1>4. CASE Quota!Answered(r)
  <2>. DEFINE t == [reset[r] EXCEPT !.pc = "done"]
  <2>1. t \in Tries /\ t.cost = reset[r].cost /\ t.made = reset[r].made /\ t.pc = "done"
    BY <1>0 DEF Tries
  <2>2. reset' = [reset EXCEPT ![r] = t]
    BY <1>4 DEF Quota!Answered
  <2>3. Follows(t, fetcher[Of(r)], quota[AccountOf[r]])
    BY <1>0, <1>4, <2>1 DEF Follows, Quota!Answered, Of, Looked
  <2>. HIDE DEF t
  <2>. QED  BY <1>4, <2>1, <2>2, <2>3, QReset DEF Quota!Answered
<1>. QED  BY <1>1, <1>2, <1>3, <1>4

LEMMA QArrives ==
  ASSUME Quota!BoundsAssumption, QInv, NEW r \in Resets, Quota!PostArrives(r)
  PROVE  QInv'
<1>. DEFINE a == AccountOf[r]
            t == reset'[r]
<1>0. /\ reset[r].pc = "posting" /\ Quota!Redeem(r) /\ UNCHANGED <<now, cache, lock, resetting, fetcher, refresh>>
      /\ a \in Accounts /\ quota[a] \in Nat /\ quota \in [Accounts -> Nat] /\ reset \in [Resets -> Tries]
  BY TheReset DEF Quota!PostArrives, QInv, QTypes
<1>1. CASE Quota!Key(r) \in redeemed
  <2>. DEFINE u == [reset[r] EXCEPT !.made = quota[a]]
  <2>1. reset' = [reset EXCEPT ![r] = u] /\ quota' = quota
    BY <1>0, <1>1 DEF Quota!Redeem
  <2>2. redeemed' = redeemed
    BY <1>0, <1>1 DEF Quota!Redeem
  <2>3. u \in Tries /\ u.cost = reset[r].cost /\ u.made = quota[a] /\ u.pc = "posting"
    BY <1>0, TheReset DEF Tries
  <2>4. Follows(u, fetcher[Of(r)], quota[a])
    <3>1. fetcher[Of(r)].pc = "idle"
      BY <1>0, TheReset DEF Follows
    <3>. QED  BY <1>0, <2>3, <3>1 DEF Follows
  <2>. HIDE DEF u
  <2>. QED  BY <1>0, <2>1, <2>2, <2>3, <2>4, QReset
<1>2. CASE Quota!Key(r) \notin redeemed
  <2>1. /\ quota' \in [Accounts -> Nat] /\ quota'[a] = quota[a] + 1
        /\ \A b \in Accounts : quota[b] \in Nat /\ quota'[b] \in Nat /\ quota[b] <= quota'[b]
    BY <1>0, <1>2 DEF Quota!Redeem
  <2>. DEFINE q == quota'[a]
              c == reset[r].cost + 1
              u == [reset[r] EXCEPT !.cost = c, !.made = q]
  <2>2. reset' = [reset EXCEPT ![r] = u] /\ redeemed' = redeemed \cup {Quota!Key(r)}
    BY <1>0, <1>2 DEF Quota!Redeem
  <2>3. q \in Nat /\ c \in Nat /\ reset[r] \in Tries
    BY <1>0, <2>1, TheReset
  <2>. HIDE DEF q, c
  <2>4. u \in Tries /\ u.cost = c /\ u.made = q /\ u.pc = "posting"
    BY <1>0, <2>3 DEF Tries
  <2>. HIDE DEF u
  <2>5. reset' \in [Resets -> Tries] /\ \A s \in Resets : reset'[s] = IF s = r THEN u ELSE reset[s]
    BY <1>0, <2>2, <2>4
  <2>6. QTypes'
    BY <1>0, <2>1, <2>5 DEF QInv, QTypes, Quota!Fetchers
  <2>7. Snapshots'
    <3>1. \A b \in Accounts : cache[b].quota \in Int
      BY DEF QInv, QTypes, Entries
    <3>. QED  BY <1>0, <2>1, <3>1 DEF QInv, Snapshots, Snapshot
  <2>8. OneAsks'
    BY <1>0 DEF QInv, OneAsks, Quota!Fetchers, Quota!Account
  <2>9. InOrder'
    <3>1. \A f \in Quota!Fetchers : Quota!Account(f) \in Accounts /\ fetcher[f].seen \in Int
      BY TheFetchers, TheFetch
    <3>2. \A f \in Quota!Fetchers : Ahead(fetcher[f], cache[Quota!Account(f)], quota'[Quota!Account(f)])
      BY <2>1, <3>1 DEF QInv, InOrder, Ahead
    <3>. QED  BY <1>0, <3>2 DEF InOrder, Quota!Fetchers, Quota!Account
  <2>10. Following'
    <3>1. ASSUME NEW s \in Resets  PROVE Follows(reset'[s], fetcher[Of(s)], quota'[AccountOf[s]])
      <4>1. CASE s = r
        <5>1. u.made <= quota'[a]
          BY <2>3, <2>4 DEF q
        <5>2. fetcher[Of(r)].pc = "idle"
          BY <1>0, TheReset DEF Follows
        <5>. QED  BY <1>0, <2>4, <2>5, <4>1, <5>1, <5>2 DEF Follows
      <4>2. CASE s # r
        <5>1. reset'[s] = reset[s] /\ reset[s].made \in Nat /\ quota[AccountOf[s]] <= quota'[AccountOf[s]]
              /\ quota[AccountOf[s]] \in Nat /\ quota'[AccountOf[s]] \in Nat
          BY <2>1, <2>5, <4>2, TheReset
        <5>2. Follows(reset[s], fetcher[Of(s)], quota[AccountOf[s]])
          BY TheReset
        <5>3. reset[s].made <= quota'[AccountOf[s]]
          BY <5>1, <5>2 DEF Follows
        <5>. QED  BY <5>1, <5>2, <5>3 DEF Follows
      <4>. QED  BY <4>1, <4>2
    <3>. QED  BY <1>0, <3>1 DEF Following, Of
  <2>11. Paying'
    <3>. SUFFICES ASSUME ~NewKeyEachTry, NEW s \in Resets
                  PROVE  reset'[s].cost <= 1 /\ (reset'[s].cost = 1 => <<s, 0>> \in redeemed')
      BY DEF Paying, Pays
    <3>1. Quota!Key(r) = <<r, 0>>
      BY DEF Quota!Key
    <3>2. CASE s = r
      <4>1. reset[r].cost = 0
        BY <1>2, <3>1, TheReset DEF Pays
      <4>. QED  BY <2>2, <2>4, <2>5, <3>1, <3>2, <4>1 DEF c
    <3>3. CASE s # r
      BY <2>2, <2>5, <3>3, TheReset DEF Pays
    <3>. QED  BY <3>2, <3>3
  <2>. QED  BY <2>6, <2>7, <2>8, <2>9, <2>10, <2>11 DEF QInv
<1>. QED  BY <1>1, <1>2

LEMMA QAnswered ==
  ASSUME Quota!BoundsAssumption, QInv, NEW r \in Resets, Quota!PostAnswered(r)
  PROVE  QInv'
<1>. DEFINE a == AccountOf[r]
            f == Of(r)
            g == [Quota!Idle EXCEPT !.pc = "waiting"]
            t == [reset[r] EXCEPT !.pc = "reading"]
<1>0. /\ reset[r].pc = "posting" /\ UNCHANGED <<now, quota, redeemed, lock, resetting, refresh>>
      /\ cache' = [cache EXCEPT ![a] = Quota!Nothing] /\ fetcher' = [fetcher EXCEPT ![f] = g]
      /\ reset' = [reset EXCEPT ![r] = t]
  BY DEF Quota!PostAnswered, Quota!Forget, Quota!Start, Of
<1>1. g \in Fetches /\ g.pc = "waiting" /\ Quota!Nothing \in Entries /\ Quota!Nothing.quota = -1
  BY AFetch DEF Phases
<1>2. t \in Tries /\ t.pc = "reading" /\ t.cost = reset[r].cost /\ t.made = reset[r].made
  BY TheReset DEF Tries
<1>. HIDE DEF g, t
<1>3. /\ cache' \in [Accounts -> Entries] /\ fetcher' \in [Quota!Fetchers -> Fetches]
           /\ reset' \in [Resets -> Tries]
      /\ \A b \in Accounts : cache'[b] = IF b = a THEN Quota!Nothing ELSE cache[b]
      /\ \A h \in Quota!Fetchers : fetcher'[h] = IF h = f THEN g ELSE fetcher[h]
      /\ \A s \in Resets : reset'[s] = IF s = r THEN t ELSE reset[s]
  BY <1>0, <1>1, <1>2, TheReset DEF QInv, QTypes
<1>4. QTypes'
  BY <1>0, <1>3 DEF QInv, QTypes, Quota!Fetchers
<1>5. \A b \in Accounts : quota[b] \in Nat /\ cache'[b].quota \in Int /\ cache[b].quota \in Int
  BY <1>3 DEF QInv, QTypes, Entries
<1>6. Snapshots'
  BY <1>0, <1>1, <1>3, <1>5 DEF QInv, Snapshots, Snapshot
<1>7. OneAsks'
  BY <1>0, <1>1, <1>3 DEF QInv, OneAsks, Holds, Quota!Asking, Quota!Fetchers, Quota!Account
<1>8. InOrder'
  <2>1. ASSUME NEW h \in Quota!Fetchers  PROVE Ahead(fetcher'[h], cache'[Quota!Account(h)], quota[Quota!Account(h)])
    <3>1. CASE h = f
      BY <1>1, <1>3, <3>1 DEF Ahead, Looked
    <3>2. CASE h # f
      <4>1. fetcher'[h] = fetcher[h] /\ Quota!Account(h) \in Accounts
            /\ fetcher[h].seen \in Int /\ Ahead(fetcher[h], cache[Quota!Account(h)], quota[Quota!Account(h)])
        BY <1>3, <3>2, TheFetch
      <4>2. fetcher[h].pc \in Looked => cache'[Quota!Account(h)].quota <= fetcher[h].seen
        <5>1. CASE Quota!Account(h) # a
          BY <1>3, <4>1, <5>1 DEF Ahead
        <5>2. CASE Quota!Account(h) = a /\ fetcher[h].pc \in Looked
          <6>1. -1 <= cache[Quota!Account(h)].quota /\ cache[Quota!Account(h)].quota \in Int
            BY TheFetch DEF Snapshot, Entries
          <6>2. cache[Quota!Account(h)].quota <= fetcher[h].seen
            BY <4>1, <5>2 DEF Ahead
          <6>3. cache'[Quota!Account(h)].quota = -1
            BY <1>1, <1>3, <4>1, <5>2
          <6>. QED  BY <4>1, <6>1, <6>2, <6>3
        <5>. QED  BY <5>1, <5>2
      <4>. QED  BY <4>1, <4>2 DEF Ahead
    <3>. QED  BY <3>1, <3>2
  <2>. QED  BY <1>0, <2>1 DEF InOrder, Quota!Fetchers, Quota!Account
<1>9. Following'
  <2>1. ASSUME NEW s \in Resets  PROVE Follows(reset'[s], fetcher'[Of(s)], quota[AccountOf[s]])
    <3>1. CASE s = r
      BY <1>1, <1>2, <1>3, <3>1, TheReset DEF Follows, Quota!Asking, Looked
    <3>2. CASE s # r
      <4>1. Of(s) # f
        BY <3>2 DEF Of
      <4>. QED  BY <1>3, <3>2, <4>1, TheReset
    <3>. QED  BY <3>1, <3>2
  <2>. QED  BY <1>0, <2>1 DEF Following, Of
<1>10. Paying'
  BY <1>0, <1>2, <1>3 DEF QInv, Paying, Pays
<1>. QED  BY <1>4, <1>6, <1>7, <1>8, <1>9, <1>10 DEF QInv

LEMMA QNext ==
  ASSUME Quota!BoundsAssumption, QInv, [Quota!Next]_(Quota!vars)
  PROVE  QInv'
<1>1. CASE UNCHANGED Quota!vars
  BY <1>1 DEF Quota!vars, QInv, QTypes, Snapshots, OneAsks, InOrder, Following, Paying, Pays,
              Quota!Fetchers, Quota!Account, Of
<1>2. CASE Quota!Tick
  BY <1>2 DEF Quota!Tick, QInv, QTypes, Snapshots, OneAsks, InOrder, Following, Paying, Pays,
              Quota!Fetchers, Quota!Account, Of
<1>3. ASSUME NEW f \in Quota!Fetchers,
             Quota!LookCodex(f) \/ Quota!LookOnce(f) \/ Quota!LookAntigravity(f)  PROVE QInv'
  <2>1. Quota!Unmoved /\ fetcher[f].pc \in Quota!Asking /\ \E p \in Looked : Quota!To(f, p)
    BY <1>3 DEF Quota!LookCodex, Quota!LookOnce, Quota!LookAntigravity, Quota!Asking, Looked
  <2>. QED  BY <2>1, QLook
<1>. QED  BY <1>1, <1>2, <1>3, QBegin, QEnter, QLock, QStore, QFail, QDetails, QAsks, QArrives, QAnswered
          DEF Quota!Next

-----------------------------------------------------------------------------
(* The results.                                                            *)

LEMMA QSeen ==
  ASSUME Quota!BoundsAssumption, QInv
  PROVE  Quota!ResetIsSeen
<1>. SUFFICES ASSUME NEW r \in Resets, reset[r].pc = "done"
              PROVE  LET answer == fetcher[<<r, AccountOf[r]>>].answer
                     IN  answer.stale \/ answer.quota >= reset[r].made
  BY DEF Quota!ResetIsSeen
<1>. DEFINE g == fetcher[Of(r)]
<1>1. g.answer.stale = TRUE \/ reset[r].made <= g.answer.quota
  BY TheReset DEF Follows
<1>2. g.answer.quota \in Int /\ reset[r].made \in Int
  BY TheReset DEF Fetches, Answers
<1>3. CASE g.answer.stale = TRUE
  BY <1>3 DEF Of
<1>4. CASE reset[r].made <= g.answer.quota
  <2>1. g.answer.quota >= reset[r].made
    BY <1>2, <1>4
  <2>. HIDE DEF g
  <2>2. fetcher[<<r, AccountOf[r]>>] = g
    BY DEF g, Of
  <2>. QED  BY <2>1, <2>2
<1>. QED  BY <1>1, <1>3, <1>4

LEMMA QOnce ==
  ASSUME QInv, ~NewKeyEachTry
  PROVE  Quota!PaidOnce
BY DEF QInv, Paying, Pays, Quota!PaidOnce

Onwards(a) == cache[a] # Quota!Nothing /\ cache'[a] # Quota!Nothing => cache'[a].quota >= cache[a].quota

LEMMA QOnwards ==
  ASSUME Quota!BoundsAssumption, QInv, Quota!Next, NEW a \in Accounts
  PROVE  Onwards(a)
<1>0. cache \in [Accounts -> Entries] /\ cache[a].quota \in Int
  BY DEF QInv, QTypes, Entries
<1>1. CASE cache' = cache
  BY <1>0, <1>1 DEF Onwards
<1>2. ASSUME NEW f \in Quota!Fetchers, Quota!Store(f)  PROVE Onwards(a)
  <2>1. CASE a = Quota!Account(f)
    <3>1. cache'[a].quota = fetcher[f].seen
      BY <1>0, <1>2, <2>1 DEF Quota!Store
    <3>2. cache[a].quota <= fetcher[f].seen /\ fetcher[f].seen \in Int
      BY <1>2, <2>1, TheFetch DEF Ahead, Looked, Quota!Store
    <3>. QED  BY <1>0, <3>1, <3>2 DEF Onwards
  <2>2. CASE a # Quota!Account(f)
    BY <1>0, <1>2, <2>2 DEF Onwards, Quota!Store
  <2>. QED  BY <2>1, <2>2
<1>3. ASSUME NEW r \in Resets, Quota!PostAnswered(r)  PROVE Onwards(a)
  BY <1>0, <1>3 DEF Onwards, Quota!PostAnswered, Quota!Forget
<1>. QED
  BY <1>1, <1>2, <1>3
  DEF Quota!Next, Quota!Tick, Quota!BeginList, Quota!Enter, Quota!Lock, Quota!Fail, Quota!LookCodex,
      Quota!Details, Quota!LookOnce, Quota!LookAntigravity, Quota!Unmoved,
      Quota!Ask, Quota!LockReset, Quota!PostArrives, Quota!PostLost, Quota!Answered

YoungOnes(f) == fetcher[f].pc # "done" /\ fetcher'[f].pc = "done" => Quota!Young(f)

LEMMA QYoung ==
  ASSUME Quota!BoundsAssumption, QInv, Quota!Next, NEW f \in Quota!Fetchers
  PROVE  YoungOnes(f)
<1>0. fetcher \in [Quota!Fetchers -> Fetches] /\ now \in Nat /\ MaxAge \in Nat \ {0}
  BY TheFetchers DEF QInv, QTypes
<1>1. CASE fetcher'[f] = fetcher[f]
  BY <1>1 DEF YoungOnes
<1>2. CASE fetcher'[f].pc # "done"
  BY <1>2 DEF YoungOnes
<1>3. ASSUME Quota!Fresh(Quota!Account(f)), Quota!FromCache(f)  PROVE YoungOnes(f)
  <2>1. fetcher'[f].answer.at = cache[Quota!Account(f)].at
    <3>. DEFINE answer == Quota!Answer(cache[Quota!Account(f)], FALSE, TRUE)
    <3>1. fetcher'[f] = Shows(f, answer)
      BY <1>0, <1>3 DEF Quota!FromCache, Quota!Done, Shows
    <3>2. answer \in Answers /\ answer.at = cache[Quota!Account(f)].at
      BY TheFetch, AnAnswer DEF Snapshot
    <3>. HIDE DEF answer
    <3>3. Shows(f, answer).answer = answer
      BY <3>2, TheFetch, TheAnswer
    <3>. QED  BY <3>1, <3>2, <3>3
  <2>2. cache[Quota!Account(f)].at \in Nat /\ now - cache[Quota!Account(f)].at < MaxAge
    BY <1>3, TheFetch DEF Quota!Fresh, Snapshot
  <2>3. fetcher'[f].answer.at >= 0 /\ now - fetcher'[f].answer.at < MaxAge
    BY <1>0, <2>1, <2>2
  <2>. QED  BY <2>3 DEF YoungOnes, Quota!Young
<1>4. ASSUME Quota!Store(f)  PROVE YoungOnes(f)
  <2>. DEFINE entry == [at |-> now, quota |-> fetcher[f].seen]
              answer == Quota!Answer(entry, FALSE, FALSE)
  <2>1. fetcher'[f] = Shows(f, answer)
    BY <1>0, <1>4 DEF Quota!Store, Quota!Done, Shows
  <2>2. entry \in Entries /\ entry.at = now
    BY <1>0, TheFetch DEF Entries
  <2>. HIDE DEF entry
  <2>3. answer \in Answers /\ answer.at = now
    BY <2>2, AnAnswer
  <2>. HIDE DEF answer
  <2>4. fetcher'[f].answer.at = now
    BY <2>1, <2>3, TheFetch, TheAnswer
  <2>5. fetcher'[f].answer.at >= 0 /\ now - fetcher'[f].answer.at < MaxAge
    BY <1>0, <2>4
  <2>. QED  BY <2>5 DEF YoungOnes, Quota!Young
<1>5. ASSUME Quota!Fail(f)  PROVE YoungOnes(f)
  <2>. DEFINE answer == Quota!Failure(f)
  <2>1. fetcher'[f] = Shows(f, answer)
    BY <1>0, <1>5 DEF Quota!Fail, Quota!Done, Shows
  <2>2. answer \in Answers /\ answer.stale = TRUE
    BY TheFetch, AnAnswer DEF Quota!Failure
  <2>. HIDE DEF answer
  <2>3. fetcher'[f].answer = answer
    BY <2>1, <2>2, TheFetch, TheAnswer
  <2>4. fetcher'[f].answer.stale
    BY <2>2, <2>3
  <2>. QED  BY <2>4 DEF YoungOnes, Quota!Young
<1>7. ASSUME NEW h \in Quota!Fetchers,
             Quota!Enter(h) \/ Quota!Lock(h) \/ Quota!Store(h) \/ Quota!Fail(h)  PROVE YoungOnes(f)
  <2>1. CASE h # f
    BY <1>0, <1>1, <1>7, <2>1 DEF Quota!Enter, Quota!Lock, Quota!Store, Quota!Fail, Quota!FromCache,
                                  Quota!Done
  <2>2. CASE h = f
    <3>1. \/ Quota!Fresh(Quota!Account(f)) /\ Quota!FromCache(f)
          \/ Quota!Store(f) \/ Quota!Fail(f)
          \/ fetcher' = [fetcher EXCEPT ![f].pc = "waiting"]
          \/ fetcher' = [fetcher EXCEPT ![f].pc = "asking", ![f].held = cache[Quota!Account(f)]]
      BY <1>7, <2>2 DEF Quota!Enter, Quota!Lock
    <3>2. CASE fetcher' = [fetcher EXCEPT ![f].pc = "waiting"]
      <4>1. fetcher'[f].pc = "waiting"
        BY <1>0, <3>2, TheFetch DEF Fetches
      <4>. QED  BY <1>2, <4>1
    <3>3. CASE fetcher' = [fetcher EXCEPT ![f].pc = "asking", ![f].held = cache[Quota!Account(f)]]
      <4>1. fetcher'[f].pc = "asking"
        BY <1>0, <3>3, TheFetch DEF Fetches
      <4>. QED  BY <1>2, <4>1
    <3>. QED  BY <1>3, <1>4, <1>5, <3>1, <3>2, <3>3
  <2>. QED  BY <2>1, <2>2
<1>8. ASSUME NEW h \in Quota!Fetchers, NEW p \in Looked, Quota!To(h, p)  PROVE YoungOnes(f)
  <2>1. CASE h # f
    BY <1>0, <1>1, <1>8, <2>1 DEF Quota!To
  <2>2. CASE h = f
    <3>1. fetcher'[f].pc = p
      BY <1>0, <1>8, <2>2, TheFetch DEF Quota!To, Fetches
    <3>. QED  BY <1>2, <1>8, <3>1 DEF Looked
  <2>. QED  BY <2>1, <2>2
<1>9. ASSUME NEW h \in Quota!Fetchers,
             Quota!LookCodex(h) \/ Quota!LookOnce(h) \/ Quota!LookAntigravity(h)  PROVE YoungOnes(f)
  BY <1>8, <1>9 DEF Quota!LookCodex, Quota!LookOnce, Quota!LookAntigravity, Looked
<1>10. ASSUME NEW h \in Quota!Fetchers, Quota!Details(h)  PROVE YoungOnes(f)
  <2>1. CASE h # f
    BY <1>0, <1>1, <1>10, <2>1 DEF Quota!Details
  <2>2. CASE h = f
    <3>1. fetcher'[f].pc = "told"
      BY <1>0, <1>10, <2>2, TheFetch DEF Quota!Details, Fetches
    <3>. QED  BY <1>2, <3>1
  <2>. QED  BY <2>1, <2>2
<1>11. ASSUME NEW l \in Lists, NEW again \in BOOLEAN, Quota!BeginList(l, again)  PROVE YoungOnes(f)
  <2>1. fetcher'[f] = fetcher[f] \/ fetcher'[f].pc = "queued"
    BY <1>11, AFetch DEF Quota!BeginList, Phases
  <2>. QED  BY <1>1, <1>2, <2>1
<1>12. ASSUME NEW r \in Resets, Quota!PostAnswered(r)  PROVE YoungOnes(f)
  <2>1. fetcher'[f] = fetcher[f] \/ fetcher'[f].pc = "waiting"
    BY <1>0, <1>12, AFetch DEF Quota!PostAnswered, Quota!Start, Phases
  <2>. QED  BY <1>1, <1>2, <2>1
<1>. QED
  BY <1>1, <1>7, <1>9, <1>10, <1>11, <1>12
  DEF Quota!Next, Quota!Tick, Quota!Ask, Quota!LockReset, Quota!PostArrives, Quota!PostLost, Quota!Answered

\* The answer of a reset shows the quota after it or says that it is stale; the
\* cache of an account never goes back; what is not marked stale is younger than
\* the cache's age; and whoever retries a reset with its idempotency key pays
\* once (_account_quota, reset_account_quota, _quota_failure).
THEOREM QuotasAreTrueAlways ==
  ASSUME Quota!BoundsAssumption
  PROVE  /\ Quota!Spec => []Quota!ResetIsSeen /\ Quota!NeverBackwards /\ Quota!FreshIsYoung
         /\ ~NewKeyEachTry => (Quota!Spec => []Quota!PaidOnce)
<1>1. Quota!Init => QInv
  BY QInit
<1>2. QInv /\ [Quota!Next]_(Quota!vars) => QInv'
  BY QNext
<1>3. QInv => Quota!ResetIsSeen
  BY QSeen
<1>4. QInv /\ [Quota!Next]_(Quota!vars) => [\A a \in Accounts : Onwards(a)]_(Quota!vars)
  BY QOnwards
<1>5. QInv /\ [Quota!Next]_(Quota!vars) => [\A f \in Quota!Fetchers : YoungOnes(f)]_(Quota!vars)
  BY QYoung
<1>6. Quota!Spec => []QInv
  BY <1>1, <1>2, PTL DEF Quota!Spec
<1>7. Quota!Spec => []Quota!ResetIsSeen
  BY <1>3, <1>6, PTL
<1>8. Quota!Spec => Quota!NeverBackwards
  BY <1>4, <1>6, PTL DEF Quota!Spec, Quota!NeverBackwards, Onwards
<1>9. Quota!Spec => Quota!FreshIsYoung
  BY <1>5, <1>6, PTL DEF Quota!Spec, Quota!FreshIsYoung, YoungOnes
<1>10. ASSUME ~NewKeyEachTry  PROVE Quota!Spec => []Quota!PaidOnce
  <2>1. QInv => Quota!PaidOnce
    BY <1>10, QOnce
  <2>. QED  BY <1>6, <2>1, PTL
<1>. QED  BY <1>7, <1>8, <1>9, <1>10
=============================================================================
