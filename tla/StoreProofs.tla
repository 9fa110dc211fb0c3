----------------------------- MODULE StoreProofs -----------------------------
(***************************************************************************)
(* Theorems about what the processes share: StoreQueue, for any calls, on  *)
(* SQLite and on MySQL, and in sections of their own HttpPool (Pool) and   *)
(* what the desktop client keeps in files: HarnessFiles (Harness) and      *)
(* CodexSessions (Talk).                                                   *)
(*                                                                         *)
(* What a caller is told says what became of its transaction because an    *)
(* operation is in the queue once, has not happened as long as it is in    *)
(* it, and is in it although its caller may have gone (Line); because the  *)
(* Stop comes behind whatever was queued before it (Order); and because    *)
(* only a caller that holds the lock has its own thread running (Threads). *)
(***************************************************************************)
EXTENDS StoreQueue, FiniteSetTheorems, TLAPS

InQueue(o) == \E i \in DOMAIN queue : queue[i] = o

\* What is in the queue has not happened, and is there once.
Line ==
  /\ \A i \in DOMAIN queue : queue[i] # Stop =>
       /\ did[queue[i]] = "nothing"
       /\ at[queue[i]] \in {"queued", "behind"} \/ (at[queue[i]] = "over" /\ told[queue[i]] = "gone")
  /\ \A i, j \in DOMAIN queue : queue[i] = queue[j] => i = j
  /\ \A o \in Ops :
       /\ at[o] \in {"queued", "behind"} => engine = "sqlite" /\ (did[o] = "nothing" \/ worker = "dead")
       /\ engine = "sqlite" /\ did[o] = "nothing" /\ (at[o] \in {"queued", "behind"} \/ told[o] = "gone") => InQueue(o)

\* The Stop is put behind whatever is queued.
Order ==
  /\ stopping = "no" => ~InQueue(Stop) /\ worker # "finished"
  /\ \A i, j \in DOMAIN queue : queue[i] = Stop /\ queue[j] # Stop /\ at[queue[j]] = "queued" => j < i
  /\ worker = "finished" => \A o \in Ops : at[o] # "queued"

\* Each engine has its own way; a thread runs for the holder of the lock, or
\* for a caller that has gone.
Threads ==
  /\ engine = "mysql" => queue = <<>> /\ worker = "none"
  /\ \A o \in Ops :
       /\ at[o] = "threaded" <=> lock = o
       /\ at[o] \in {"locking", "threaded"} \/ did[o] = "open" => engine = "mysql"
       /\ did[o] = "open" => told[o] = "gone" \/ at[o] = "threaded"

\* Whoever has not been told anything waits, and has not begun before that.
Words ==
  \A o \in Ops :
    /\ at[o] = "over" <=> told[o] # "nothing"
    /\ at[o] \in {"new", "locking"} => did[o] = "nothing"

SInv == TypeOK /\ Line /\ Order /\ Threads /\ Words /\ ToldIsTrue

-----------------------------------------------------------------------------
(* The queue.                                                              *)

LEMMA QueueFacts ==
  ASSUME TypeOK
  PROVE  /\ DOMAIN queue = 1..Len(queue) /\ Len(queue) \in Nat
         /\ \A i \in DOMAIN queue : queue[i] \in Ops \cup {Stop}
         /\ queue # <<>> => 1 \in DOMAIN queue /\ Head(queue) = queue[1]
BY DEF TypeOK

LEMMA AppendFacts ==
  ASSUME TypeOK, NEW x \in Ops \cup {Stop}, queue' = Append(queue, x)
  PROVE  /\ queue' \in Seq(Ops \cup {Stop}) /\ DOMAIN queue' = DOMAIN queue \cup {Len(queue) + 1}
         /\ Len(queue) + 1 \notin DOMAIN queue /\ queue'[Len(queue) + 1] = x
         /\ \A i \in DOMAIN queue : queue'[i] = queue[i] /\ i < Len(queue) + 1
BY DEF TypeOK

\* The first of the queue is taken out: the others come one place forward.
LEMMA TailFacts ==
  ASSUME TypeOK, queue # <<>>, queue' = Tail(queue)
  PROVE  /\ queue' \in Seq(Ops \cup {Stop})
         /\ \A i \in DOMAIN queue' : i \in Nat /\ i + 1 \in DOMAIN queue /\ queue'[i] = queue[i + 1]
         /\ \A i \in DOMAIN queue : i # 1 => i - 1 \in DOMAIN queue' /\ queue'[i - 1] = queue[i]
         /\ \A i \in DOMAIN queue : i \in Nat
BY DEF TypeOK

LEMMA SInit == Init => SInv
<1>. SUFFICES ASSUME Init PROVE SInv
  OBVIOUS
<1>1. /\ at = [o \in Ops |-> "new"] /\ told = [o \in Ops |-> "nothing"] /\ did = [o \in Ops |-> "nothing"]
      /\ queue = <<>> /\ lock = Stop /\ stopping = "no" /\ engine \in Engines
      /\ worker = IF engine = "sqlite" THEN "running" ELSE "none"
  BY DEF Init
<1>2. DOMAIN queue = {} /\ queue \in Seq(Ops \cup {Stop})
  BY <1>1
<1>3. TypeOK
  BY <1>1, <1>2 DEF TypeOK, Told, Did
<1>4. Line /\ Order
  BY <1>1, <1>2 DEF Line, Order, InQueue
<1>5. Threads /\ Words /\ ToldIsTrue
  BY <1>1, StoreNames DEF Threads, Words, ToldIsTrue
<1>. QED  BY <1>3, <1>4, <1>5 DEF SInv

-----------------------------------------------------------------------------
(* SQLite.                                                                 *)

LEMMA PutStep == ASSUME SInv, NEW o \in Ops, Put(o) PROVE SInv'
<1>. USE DEF SInv
<1>1. engine = "sqlite" /\ at[o] = "new" /\ told[o] = "nothing" /\ did[o] = "nothing"
      /\ UNCHANGED <<engine, did, worker, lock, stopping>> /\ o # Stop /\ lock # o /\ lock = Stop
  BY StoreNames DEF Put, Words, Threads, TypeOK
<1>2. \A i \in DOMAIN queue : queue[i] # o
  BY <1>1, QueueFacts DEF Line
<1>3. CASE worker = "running" /\ stopping # "closed"
  <2>. DEFINE place == IF stopping = "no" THEN "queued" ELSE "behind"
  <2>1. at' = [at EXCEPT ![o] = place] /\ queue' = Append(queue, o) /\ told' = told
    BY <1>3 DEF Put, Moves
  <2>2. place \in {"queued", "behind"} /\ (place = "queued" => stopping = "no")
    OBVIOUS
  <2>. HIDE DEF place
  <2>3. at'[o] = place /\ \A p \in Ops : p # o => at'[p] = at[p]
    BY <2>1 DEF TypeOK
  <2>4. /\ queue' \in Seq(Ops \cup {Stop}) /\ DOMAIN queue' = DOMAIN queue \cup {Len(queue) + 1}
        /\ Len(queue) + 1 \notin DOMAIN queue /\ queue'[Len(queue) + 1] = o
        /\ \A i \in DOMAIN queue : queue'[i] = queue[i] /\ i < Len(queue) + 1
    BY <2>1, AppendFacts
  <2>5. TypeOK'
    BY <1>1, <2>1, <2>2, <2>4 DEF TypeOK
  <2>6. \A p : InQueue(p)' <=> InQueue(p) \/ p = o
    BY <2>4 DEF InQueue
  <2>7. Line'
    <3>1. \A i, j \in DOMAIN queue' : queue'[i] = queue'[j] => i = j
      BY <1>2, <2>4 DEF Line
    <3>2. ASSUME NEW i \in DOMAIN queue', queue'[i] # Stop
          PROVE  /\ did[queue'[i]] = "nothing"
                 /\ at'[queue'[i]] \in {"queued", "behind"} \/ (at'[queue'[i]] = "over" /\ told[queue'[i]] = "gone")
      <4>1. CASE i = Len(queue) + 1
        BY <1>1, <2>2, <2>3, <2>4, <4>1
      <4>2. CASE i \in DOMAIN queue
        <5>1. queue'[i] = queue[i] /\ queue[i] # o /\ queue[i] \in Ops
          BY <1>2, <2>4, <3>2, <4>2, QueueFacts
        <5>. QED  BY <2>3, <3>2, <4>2, <5>1 DEF Line
      <4>. QED  BY <2>4, <4>1, <4>2
    <3>3. ASSUME NEW p \in Ops
          PROVE  /\ at'[p] \in {"queued", "behind"} => did[p] = "nothing" \/ worker = "dead"
                 /\ did[p] = "nothing" /\ (at'[p] \in {"queued", "behind"} \/ told[p] = "gone") => InQueue(p)'
      BY <1>1, <2>3, <2>6 DEF Line
    <3>. QED  BY <1>1, <2>1, <3>1, <3>2, <3>3 DEF Line
  <2>8. Order'
    <3>1. stopping = "no" => ~InQueue(Stop)' /\ worker # "finished"
      BY <1>1, <2>6 DEF Order
    <3>2. ASSUME NEW i \in DOMAIN queue', NEW j \in DOMAIN queue',
                 queue'[i] = Stop, queue'[j] # Stop, at'[queue'[j]] = "queued"
          PROVE  j < i
      <4>1. i \in DOMAIN queue /\ queue[i] = Stop
        BY <1>1, <2>4, <3>2
      <4>2. stopping # "no"
        BY <4>1 DEF Order, InQueue
      <4>3. j \in DOMAIN queue /\ queue[j] = queue'[j] /\ queue[j] # o
        BY <1>2, <2>2, <2>3, <2>4, <3>2, <4>2
      <4>. QED  BY <2>3, <3>2, <4>1, <4>3, QueueFacts DEF Order
    <3>. QED  BY <1>1, <1>3, <3>1, <3>2 DEF Order
  <2>9. Threads' /\ Words' /\ ToldIsTrue'
    BY <1>1, <2>1, <2>2, <2>3 DEF Threads, Words, ToldIsTrue
  <2>. QED  BY <2>5, <2>7, <2>8, <2>9
<1>4. CASE ~(worker = "running" /\ stopping # "closed")
  <2>1. at' = [at EXCEPT ![o] = "over"] /\ told' = [told EXCEPT ![o] = "refused"] /\ queue' = queue
    BY <1>1, <1>4 DEF Put, Moves, Tells, TypeOK
  <2>2. /\ at'[o] = "over" /\ told'[o] = "refused"
        /\ \A p \in Ops : p # o => at'[p] = at[p] /\ told'[p] = told[p]
    BY <2>1 DEF TypeOK
  <2>3. TypeOK'
    BY <1>1, <2>1 DEF TypeOK, Told
  <2>4. \A p : InQueue(p)' <=> InQueue(p)
    BY <2>1 DEF InQueue
  <2>5. Line'
    BY <1>1, <1>2, <2>1, <2>2, <2>4, QueueFacts DEF Line
  <2>6. Order'
    BY <1>1, <1>2, <2>1, <2>2, <2>4, QueueFacts DEF Order
  <2>7. Threads' /\ Words' /\ ToldIsTrue'
    BY <1>1, <2>1, <2>2 DEF Threads, Words, ToldIsTrue
  <2>. QED  BY <2>3, <2>5, <2>6, <2>7
<1>. QED  BY <1>3, <1>4

\* The first of the queue is carried out, or the worker dies of it.
LEMMA CarryStep ==
  ASSUME SInv, NEW o \in Ops, WorkerDies \/ (\E fate \in {"committed", "undone"} : Carry(o, fate)),
         queue # <<>> /\ Head(queue) = o
  PROVE  SInv'
<1>. USE DEF SInv
<1>1. /\ worker = "running" /\ queue' = Tail(queue) /\ UNCHANGED <<engine, lock, stopping>>
      /\ \/ worker' = "dead" /\ UNCHANGED <<at, told>>
         \/ worker' = "running" /\ at' = [at EXCEPT ![o] = "over"]
      /\ \E fate \in {"committed", "undone"} :
           /\ did' = [did EXCEPT ![o] = fate]
           /\ \/ told' = told /\ worker' = "dead"
              \/ told' = [told EXCEPT ![o] = IF @ = "nothing" THEN Word(fate) ELSE @] /\ worker' = "running"
  BY DEF WorkerDies, Carry, Carries, Moves, Tells
<1>2. /\ 1 \in DOMAIN queue /\ queue[1] = o /\ o # Stop
      /\ did[o] = "nothing" /\ (at[o] \in {"queued", "behind"} \/ (at[o] = "over" /\ told[o] = "gone"))
  BY QueueFacts, StoreNames DEF Line
<1>3. engine = "sqlite" /\ lock = Stop
  BY <1>2, StoreNames DEF Threads, TypeOK
<1>4. /\ queue' \in Seq(Ops \cup {Stop})
      /\ \A i \in DOMAIN queue' : i \in Nat /\ i + 1 \in DOMAIN queue /\ queue'[i] = queue[i + 1]
      /\ \A i \in DOMAIN queue : i # 1 => i - 1 \in DOMAIN queue' /\ queue'[i - 1] = queue[i]
  BY <1>1, TailFacts
<1>5. \A i \in DOMAIN queue' : queue'[i] # o
  <2>1. ASSUME NEW i \in DOMAIN queue', queue'[i] = o PROVE FALSE
    <3>1. i + 1 \in DOMAIN queue /\ queue[i + 1] = queue[1] /\ i \in Nat
      BY <1>2, <1>4, <2>1
    <3>2. i + 1 = 1
      BY <1>2, <3>1 DEF Line
    <3>3. i = 0 /\ 0 \in DOMAIN queue'
      BY <2>1, <3>1, <3>2
    <3>. QED  BY <1>4, <3>3
  <2>. QED  BY <2>1
<1>6. \A p \in Ops : p # o => did'[p] = did[p] /\ at'[p] = at[p] /\ told'[p] = told[p]
  BY <1>1 DEF TypeOK
<1>7. /\ did'[o] \in {"committed", "undone"}
      /\ \/ worker' = "dead" /\ at'[o] = at[o] /\ told'[o] = told[o]
         \/ /\ worker' = "running" /\ at'[o] = "over"
            /\ \/ told'[o] = "gone"
               \/ told'[o] = "result" /\ did'[o] = "committed"
               \/ told'[o] = "error" /\ did'[o] = "undone"
  BY <1>1, <1>2 DEF TypeOK, Word, Words
<1>8. TypeOK'
  <2>1. told' \in [Ops -> Told]
    BY <1>1 DEF TypeOK, Told, Word
  <2>2. did' \in [Ops -> Did]
    BY <1>1 DEF TypeOK, Did
  <2>3. at' \in [Ops -> {"new", "queued", "behind", "locking", "threaded", "over"}]
    BY <1>1 DEF TypeOK
  <2>. QED  BY <1>1, <1>3, <1>4, <2>1, <2>2, <2>3 DEF TypeOK
<1>9. \A p : p # o /\ InQueue(p) => InQueue(p)'
  BY <1>2, <1>4 DEF InQueue
<1>10. \A i \in DOMAIN queue' : queue'[i] \in Ops \cup {Stop} /\ (queue'[i] # Stop => queue'[i] \in Ops \ {o})
  BY <1>4, <1>5, QueueFacts
<1>11. Line'
  <2>1. ASSUME NEW i \in DOMAIN queue', NEW j \in DOMAIN queue', queue'[i] = queue'[j] PROVE i = j
    <3>1. i + 1 = j + 1 /\ i \in Nat /\ j \in Nat
      BY <1>4, <2>1 DEF Line
    <3>. QED  BY <3>1
  <2>2. ASSUME NEW i \in DOMAIN queue', queue'[i] # Stop
        PROVE  /\ did'[queue'[i]] = "nothing"
               /\ at'[queue'[i]] \in {"queued", "behind"} \/ (at'[queue'[i]] = "over" /\ told'[queue'[i]] = "gone")
    BY <1>4, <1>6, <1>10, <2>2 DEF Line
  <2>3. ASSUME NEW p \in Ops
        PROVE  /\ at'[p] \in {"queued", "behind"} => did'[p] = "nothing" \/ worker' = "dead"
               /\ did'[p] = "nothing" /\ (at'[p] \in {"queued", "behind"} \/ told'[p] = "gone") => InQueue(p)'
    BY <1>1, <1>3, <1>6, <1>7, <1>9 DEF Line
  <2>. QED  BY <1>1, <1>3, <2>1, <2>2, <2>3 DEF Line
<1>12. Order'
  <2>1. \A p : InQueue(p)' => InQueue(p)
    BY <1>4 DEF InQueue
  <2>2. ASSUME NEW i \in DOMAIN queue', NEW j \in DOMAIN queue',
               queue'[i] = Stop, queue'[j] # Stop, at'[queue'[j]] = "queued"
        PROVE  j < i
    <3>1. /\ i + 1 \in DOMAIN queue /\ j + 1 \in DOMAIN queue /\ queue[i + 1] = Stop
          /\ queue[j + 1] # Stop /\ at[queue[j + 1]] = "queued" /\ i \in Nat /\ j \in Nat
      BY <1>4, <1>6, <1>10, <2>2
    <3>2. j + 1 < i + 1
      BY <3>1 DEF Order
    <3>. QED  BY <3>1, <3>2
  <2>3. worker' # "finished"
    BY <1>1
  <2>. QED  BY <1>1, <2>1, <2>2, <2>3 DEF Order
<1>13. Threads'
  BY <1>1, <1>3, <1>6, <1>7, StoreNames DEF Threads
<1>14. Words'
  BY <1>2, <1>6, <1>7 DEF Words
<1>15. ToldIsTrue'
  <2>1. told[o] \in {"nothing", "gone"}
    BY <1>2 DEF Words
  <2>. QED  BY <1>6, <1>7, <2>1 DEF ToldIsTrue
<1>. QED  BY <1>8, <1>11, <1>12, <1>13, <1>14, <1>15

\* The store is stopped: the Stop is asked for, found, and waited for.
LEMMA StopStep == ASSUME SInv, AskStop \/ WorkerStops \/ Close PROVE SInv'
<1>. USE DEF SInv
<1>1. UNCHANGED <<engine, at, told, did, lock>>
  BY DEF AskStop, WorkerStops, Close
<1>2. Words' /\ ToldIsTrue'
  BY <1>1 DEF Words, ToldIsTrue
<1>3. CASE worker = "running" /\ stopping = "no" /\ queue' = StopLast /\ stopping' = "waiting" /\ worker' = worker
  <2>1. queue' = Append(queue, Stop) /\ Stop \in Ops \cup {Stop}
    BY <1>3 DEF StopLast
  <2>2. /\ queue' \in Seq(Ops \cup {Stop}) /\ DOMAIN queue' = DOMAIN queue \cup {Len(queue) + 1}
        /\ Len(queue) + 1 \notin DOMAIN queue /\ queue'[Len(queue) + 1] = Stop
        /\ \A i \in DOMAIN queue : queue'[i] = queue[i] /\ i < Len(queue) + 1
    BY <2>1, AppendFacts
  <2>3. \A i \in DOMAIN queue : queue[i] # Stop
    BY <1>3 DEF Order, InQueue
  <2>4. TypeOK'
    BY <1>1, <1>3, <2>2 DEF TypeOK
  <2>5. \A p : InQueue(p) => InQueue(p)'
    BY <2>2 DEF InQueue
  <2>6. Line'
    BY <1>1, <1>3, <2>2, <2>3, <2>5 DEF Line
  <2>7. Order'
    BY <1>1, <1>3, <2>2, <2>3 DEF Order
  <2>8. Threads'
    BY <1>1, <1>3 DEF Threads
  <2>. QED  BY <1>2, <2>4, <2>6, <2>7, <2>8
<1>4. CASE WorkerStops
  <2>1. /\ worker = "running" /\ queue # <<>> /\ Head(queue) = Stop /\ queue' = Tail(queue)
        /\ worker' = "finished" /\ stopping' = stopping
    BY <1>4 DEF WorkerStops
  <2>2. 1 \in DOMAIN queue /\ queue[1] = Stop
    BY <2>1, QueueFacts
  <2>3. /\ queue' \in Seq(Ops \cup {Stop})
        /\ \A i \in DOMAIN queue' : i \in Nat /\ i + 1 \in DOMAIN queue /\ queue'[i] = queue[i + 1]
        /\ \A i \in DOMAIN queue : i # 1 => i - 1 \in DOMAIN queue' /\ queue'[i - 1] = queue[i]
        /\ \A i \in DOMAIN queue : i \in Nat
    BY <2>1, TailFacts
  <2>4. \A p \in Ops : InQueue(p) => InQueue(p)'
    BY <2>2, <2>3, StoreNames DEF InQueue
  <2>5. TypeOK'
    BY <1>1, <2>1, <2>3 DEF TypeOK
  <2>6. Line'
    <3>1. ASSUME NEW i \in DOMAIN queue', NEW j \in DOMAIN queue', queue'[i] = queue'[j] PROVE i = j
      <4>1. i + 1 = j + 1 /\ i \in Nat /\ j \in Nat
        BY <2>3, <3>1 DEF Line
      <4>. QED  BY <4>1
    <3>2. \A i \in DOMAIN queue' : queue'[i] # Stop =>
            /\ did[queue'[i]] = "nothing"
            /\ at[queue'[i]] \in {"queued", "behind"} \/ (at[queue'[i]] = "over" /\ told[queue'[i]] = "gone")
      BY <2>3 DEF Line
    <3>3. \A o \in Ops : at[o] \in {"queued", "behind"} => did[o] = "nothing"
      BY <2>1 DEF Line
    <3>. QED  BY <1>1, <2>4, <3>1, <3>2, <3>3 DEF Line
  <2>7. Order'
    <3>1. stopping # "no"
      BY <2>2 DEF Order, InQueue
    <3>2. \A o \in Ops : at[o] # "queued"
      <4>1. ASSUME NEW o \in Ops, at[o] = "queued" PROVE FALSE
        <5>1. PICK j \in DOMAIN queue : queue[j] = o
          BY <2>1, <4>1 DEF Line, InQueue
        <5>2. j < 1 /\ j \in 1..Len(queue)
          BY <2>2, <4>1, <5>1, QueueFacts, StoreNames DEF Order
        <5>. QED  BY <5>2, QueueFacts
      <4>. QED  BY <4>1
    <3>3. \A i \in DOMAIN queue' : queue'[i] # Stop => at[queue'[i]] # "queued"
      BY <2>3, <3>2, QueueFacts
    <3>. QED  BY <1>1, <2>1, <3>1, <3>2, <3>3 DEF Order
  <2>8. Threads'
    BY <1>1, <2>1 DEF Threads
  <2>. QED  BY <1>2, <2>5, <2>6, <2>7, <2>8
<1>5. CASE stopping' = "closed" /\ UNCHANGED <<queue, worker>>
  <2>1. \A p : InQueue(p)' <=> InQueue(p)
    BY <1>5 DEF InQueue
  <2>. QED  BY <1>1, <1>2, <1>5, <2>1 DEF TypeOK, Line, Order, Threads
<1>. QED  BY <1>3, <1>4, <1>5 DEF AskStop, WorkerStops, Close

-----------------------------------------------------------------------------
(* MySQL, and cancellation.                                                *)

\* One call goes on: the queue and the worker are left alone.
LEMMA CallStep ==
  ASSUME SInv, NEW o \in Ops,
         Ask(o) \/ Locked(o) \/ ThreadBegins(o) \/ Learns(o) \/ Cancel(o)
           \/ \E fate \in {"committed", "undone"} : ThreadEnds(o, fate)
  PROVE  SInv'
<1>. USE DEF SInv
<1>1. UNCHANGED <<engine, queue, worker, stopping>>
  BY DEF Ask, Locked, ThreadBegins, Learns, Cancel, ThreadEnds
<1>2. o # Stop
  BY StoreNames
<1>3. \A p : InQueue(p)' <=> InQueue(p)
  BY <1>1 DEF InQueue
<1>4. \A p \in Ops : p # o => at'[p] = at[p] /\ told'[p] = told[p] /\ did'[p] = did[p]
  BY DEF Ask, Locked, ThreadBegins, Learns, Cancel, ThreadEnds, Moves, Tells, TypeOK
<1>5. \/ at[o] = "new" /\ at'[o] = "locking" /\ UNCHANGED <<told, did, lock>> /\ engine = "mysql"
      \/ at[o] = "locking" /\ at'[o] = "threaded" /\ lock = Stop /\ lock' = o /\ UNCHANGED <<told, did>>
      \/ at[o] = "threaded" /\ did[o] = "nothing" /\ told[o] = "nothing" /\ did'[o] = "open" /\ UNCHANGED <<at, told, lock>>
      \/ did[o] = "open" /\ did'[o] \in {"committed", "undone"} /\ UNCHANGED <<at, told, lock>>
      \/ /\ at[o] = "threaded" /\ did[o] \in {"committed", "undone"} /\ at'[o] = "over" /\ lock' = Stop /\ did' = did
         /\ told'[o] = IF told[o] = "nothing" THEN Word(did[o]) ELSE told[o]
      \/ /\ at[o] \in {"queued", "behind", "locking", "threaded"} /\ at'[o] = "over"
         /\ lock' = LeavesLock(o) /\ did' = did
         /\ told'[o] = IF told[o] = "nothing" THEN "gone" ELSE told[o]
  BY DEF Ask, Locked, MayEnter, ThreadBegins, Learns, Cancel, ThreadEnds, Moves, Tells, TypeOK
<1>6. /\ at' \in [Ops -> {"new", "queued", "behind", "locking", "threaded", "over"}]
      /\ told' \in [Ops -> Told] /\ did' \in [Ops -> Did]
  BY DEF Ask, Locked, ThreadBegins, Learns, Cancel, ThreadEnds, Moves, Tells, Word, TypeOK, Told, Did
<1>7. Threads'
  <2>1. ASSUME NEW p \in Ops PROVE at'[p] = "threaded" <=> lock' = p
    <3>1. p # Stop /\ (at[o] = "threaded" <=> lock = o) /\ (at[p] = "threaded" <=> lock = p)
      BY StoreNames DEF Threads
    <3>2. CASE p = o
      BY <1>2, <1>5, <3>1, <3>2 DEF LeavesLock
    <3>3. CASE p # o
      BY <1>2, <1>4, <1>5, <3>1, <3>3 DEF LeavesLock
    <3>. QED  BY <3>2, <3>3
  <2>2. at[o] \in {"locking", "threaded"} \/ did[o] = "open" => engine = "mysql"
    BY DEF Threads
  <2>3. at'[o] \in {"locking", "threaded"} \/ did'[o] = "open" => engine = "mysql"
    BY <1>5, <2>2
  <2>4. did'[o] = "open" => told'[o] = "gone" \/ at'[o] = "threaded"
    BY <1>5 DEF Threads, Words
  <2>. QED  BY <1>1, <1>4, <2>1, <2>3, <2>4 DEF Threads
<1>8. TypeOK'
  <2>1. lock' \in Ops \cup {Stop} /\ (lock' # Stop => at'[lock'] = "threaded")
    BY <1>2, <1>4, <1>5 DEF TypeOK, LeavesLock, Threads
  <2>. QED  BY <1>1, <1>6, <2>1 DEF TypeOK
<1>9. Words'
  BY <1>4, <1>5, <1>6 DEF Words, Word
<1>10. ToldIsTrue'
  BY <1>4, <1>5 DEF Words, Word, ToldIsTrue
<1>11. Line'
  <2>1. ASSUME NEW i \in DOMAIN queue, queue[i] # Stop
        PROVE  /\ did'[queue[i]] = "nothing"
               /\ at'[queue[i]] \in {"queued", "behind"} \/ (at'[queue[i]] = "over" /\ told'[queue[i]] = "gone")
    <3>1. queue[i] \in Ops /\ engine = "sqlite"
      <4>1. queue # <<>> /\ engine \in Engines
        BY DEF TypeOK
      <4>. QED  BY <2>1, <4>1, QueueFacts, StoreNames DEF Threads
    <3>2. CASE queue[i] = o
      BY <1>4, <1>5, <2>1, <3>1, <3>2, StoreNames DEF Line, Threads, Words
    <3>. QED  BY <1>4, <2>1, <3>1, <3>2 DEF Line
  <2>2. ASSUME NEW p \in Ops
        PROVE  /\ at'[p] \in {"queued", "behind"} => engine = "sqlite" /\ (did'[p] = "nothing" \/ worker = "dead")
               /\ engine = "sqlite" /\ did'[p] = "nothing" /\ (at'[p] \in {"queued", "behind"} \/ told'[p] = "gone") => InQueue(p)
    <3>1. CASE p = o
      BY <1>4, <1>5, <3>1, StoreNames DEF Line, Threads, Words
    <3>. QED  BY <1>4, <3>1 DEF Line
  <2>. QED  BY <1>1, <1>3, <2>1, <2>2 DEF Line
<1>12. Order'
  BY <1>1, <1>3, <1>4, <1>5, QueueFacts DEF Order
<1>. QED  BY <1>7, <1>8, <1>9, <1>10, <1>11, <1>12

-----------------------------------------------------------------------------
LEMMA SStep == SInv /\ [Next]_vars => SInv'
<1>. SUFFICES ASSUME SInv, [Next]_vars PROVE SInv'
  OBVIOUS
<1>1. CASE WorkerDies
  <2>1. queue # <<>> /\ Head(queue) \in Ops
    BY <1>1, QueueFacts DEF WorkerDies, SInv
  <2>. QED  BY <1>1, <2>1, CarryStep
<1>2. ASSUME NEW o \in Ops, NEW fate \in {"committed", "undone"}, Carry(o, fate) PROVE SInv'
  BY <1>2, CarryStep DEF Carry
<1>3. CASE UNCHANGED vars
  <2>1. \A p : InQueue(p)' <=> InQueue(p)
    BY <1>3 DEF vars, InQueue
  <2>. QED  BY <1>3, <2>1 DEF vars, SInv, TypeOK, Line, Order, Threads, Words, ToldIsTrue
<1>. QED  BY <1>1, <1>2, <1>3, PutStep, StopStep, CallStep DEF Next, Works

\* On SQLite and MySQL alike, through cancellations, rollbacks, the death of
\* the worker and stop(): what a caller is told is what happened; on SQLite a
\* cancelled call is carried out, or still in the queue, and what was queued
\* before stop() is carried out before the end; and only a cancelled caller
\* leaves a transaction open beside another's (GatewayStore.call, _worker, stop).
THEOREM CallsAreTrueAlways == Spec => []CallsAreTrue
<1>1. SInv => CallsAreTrue
  <2>. SUFFICES ASSUME SInv PROVE CallsAreTrue
    BY DEF SInv
  <2>1. StoppedIsDrained /\ CancelledIsDone
    BY DEF SInv, Order, Line, InQueue, StoppedIsDrained, CancelledIsDone
  <2>2. OneUnlessCancelled
    <3>. DEFINE S == {o \in Ops : did[o] = "open" /\ (engine = "mysql" => told[o] # "gone")}
    <3>1. S \subseteq {lock}
      BY DEF SInv, Threads
    <3>2. IsFiniteSet({lock}) /\ Cardinality({lock}) = 1
      BY FS_Singleton
    <3>3. IsFiniteSet(S) /\ Cardinality(S) <= 1
      BY <3>1, <3>2, FS_Subset
    <3>. QED  BY <3>3 DEF OneUnlessCancelled
  <2>. QED  BY <2>1, <2>2 DEF SInv, CallsAreTrue
<1>. QED  BY <1>1, SInit, SStep, PTL DEF Spec

-----------------------------------------------------------------------------
(* The HTTP pool (HttpPool), for any requests, connections, timeout and    *)
(* drain that is longer than it.                                           *)
CONSTANTS Requests, Connections, Wait, Drain, MaxClients
VARIABLES current, made, open, retirement, request, closing, hand, exhausted

Pool == INSTANCE HttpPool

TaskNames == {"none", "new", "asleep", "cancelled", "over"}
Retirements == [task : TaskNames, left : 0..Drain]
Asked == [pc : Pool!Phases, client : 0..MaxClients, age : 0..Drain]

Shapes ==
  /\ current \in 0..made /\ made \in 0..MaxClients /\ open \subseteq 1..made
  /\ retirement \in [Pool!Clients -> Retirements] /\ request \in [Requests -> Asked]
  /\ closing \in {"no", "waits", "done"} /\ hand \subseteq 1..made /\ exhausted \subseteq Pool!Clients

\* Only clients that were built are retired, and not the one in use; they are
\* given all the time there is; and only the shutdown cancels their tasks.
Retirees ==
  /\ \A c \in Pool!Clients : retirement[c].task # "none" => c <= made /\ c # current
  /\ \A c \in Pool!Clients : retirement[c].task = "new" => retirement[c].left = Drain
  /\ closing = "no" => \A c \in Pool!Clients : retirement[c].task # "cancelled"

\* Nobody begins on a client that is being retired: who still waits for one of
\* its connections has waited since, and who got one got it within the wait.
Fits(q) ==
  /\ q.pc = "waiting" => q.age <= Wait
  /\ q.pc \in {"waiting", "refused"} => q.client \in Pool!Clients
  /\ q.pc = "refused" => q.client \in exhausted
  /\ \A c \in Pool!Clients : retirement[c].task \in {"new", "asleep"} /\ q.client = c =>
       /\ q.pc = "waiting" => Drain - retirement[c].left <= q.age
       /\ q.pc = "streaming" => Drain - retirement[c].left <= q.age + Wait

PoolInv == Shapes /\ Retirees /\ (\A r \in Requests : Fits(request[r])) /\ Pool!RetiredForCause
  /\ Pool!NoneForgotten

LEMMA PoolNumbers ==
  ASSUME Pool!PoolAssumption
  PROVE  Wait \in Nat /\ Drain \in Nat /\ MaxClients \in Nat /\ Wait < Drain /\ Wait > 0 /\ MaxClients > 0
BY DEF Pool!PoolAssumption

LEMMA PoolInit == Pool!PoolAssumption /\ Pool!Init => PoolInv
<1>. SUFFICES ASSUME Pool!PoolAssumption, Pool!Init PROVE PoolInv
  OBVIOUS
<1>1. Pool!Idle \in Asked /\ Pool!Idle.pc = "idle" /\ [task |-> "none", left |-> 0] \in Retirements
  BY PoolNumbers DEF Pool!Idle, Asked, Retirements, TaskNames, Pool!Phases
<1>2. \A c \in Pool!Clients : retirement[c] = [task |-> "none", left |-> 0]
  BY DEF Pool!Init
<1>3. \A r \in Requests : Fits(request[r])
  BY <1>1, <1>2 DEF Pool!Init, Fits
<1>4. Shapes
  BY <1>1, PoolNumbers DEF Pool!Init, Shapes
<1>. QED  BY <1>2, <1>3, <1>4 DEF Pool!Init, PoolInv, Retirees, Pool!RetiredForCause, Pool!NoneForgotten

\* One request changes and fits; the clients and their tasks stay.
LEMMA OneMoves ==
  ASSUME PoolInv, NEW r \in Requests, request' \in [Requests -> Asked],
         \A s \in Requests : s # r => request'[s] = request[s],
         Fits(request[r])',
         UNCHANGED <<current, made, open, retirement, closing, hand>>,
         exhausted \subseteq exhausted', exhausted' \subseteq Pool!Clients
  PROVE  PoolInv'
<1>. USE DEF PoolInv
<1>1. Shapes' /\ Retirees' /\ Pool!NoneForgotten'
  BY DEF Shapes, Retirees, Pool!NoneForgotten
<1>2. Pool!RetiredForCause'
  BY DEF Pool!RetiredForCause
<1>3. ASSUME NEW s \in Requests PROVE Fits(request[s])'
  BY DEF Fits
<1>. QED  BY <1>1, <1>2, <1>3

\* What is known of a request.
LEMMA OneAsked ==
  ASSUME Pool!PoolAssumption, PoolInv, NEW r \in Requests
  PROVE  /\ request[r] \in Asked /\ request[r].age \in 0..Drain /\ request[r].client \in 0..MaxClients
         /\ request[r].pc \in Pool!Phases /\ Fits(request[r])
BY DEF PoolInv, Shapes, Asked

\* A client more, which is the one in use from now on.
LEMMA Builds ==
  ASSUME Pool!PoolAssumption, PoolInv, NEW r \in Requests, Pool!Build, request' \in [Requests -> Asked],
         \A s \in Requests : s # r => request'[s] = request[s],
         Fits(request[r])',
         \/ retirement' = retirement /\ current = 0
         \/ current # 0 /\ retirement' = Pool!Retired(current) /\ current \in exhausted,
         UNCHANGED <<closing, hand, exhausted>>
  PROVE  PoolInv'
<1>. USE DEF PoolInv
<1>1. /\ made \in Nat /\ made' = made + 1 /\ current' = made + 1 /\ made' \in 0..MaxClients
      /\ open' = open \cup {made + 1} /\ current \in 0..made
  BY PoolNumbers DEF Pool!Build, Shapes
<1>2. retirement' \in [Pool!Clients -> Retirements]
  BY PoolNumbers DEF Shapes, Pool!Retired, Retirements, TaskNames
<1>3. \A c \in Pool!Clients : c # current => retirement'[c] = retirement[c]
  BY DEF Shapes, Pool!Retired
<1>4. current # 0 => /\ current \in Pool!Clients /\ retirement'[current].task = "new"
                          /\ retirement'[current].left = Drain
                     /\ current \in exhausted
  BY <1>1, PoolNumbers DEF Shapes, Pool!Retired, Pool!Clients
<1>5. Shapes'
  BY <1>1, <1>2 DEF Shapes
<1>6. Retirees'
  BY <1>1, <1>3, <1>4 DEF Retirees, Pool!Clients
<1>7. Pool!RetiredForCause'
  BY <1>3, <1>4 DEF Pool!RetiredForCause
<1>8. Pool!NoneForgotten'
  <2>1. ASSUME NEW c \in open' PROVE \/ c = current' \/ retirement'[c].task \in {"new", "asleep", "cancelled"}
                                     \/ closing = "waits" /\ c \in hand
    <3>1. CASE c = made + 1
      BY <1>1, <3>1
    <3>2. CASE c \in open /\ c = current
      BY <1>1, <1>4, <3>2 DEF Shapes
    <3>3. CASE c \in open /\ c # current
      <4>1. c \in Pool!Clients
        BY <1>1, <3>3, PoolNumbers DEF Shapes, Pool!Clients
      <4>. QED  BY <1>3, <3>3, <4>1 DEF Pool!NoneForgotten
    <3>. QED  BY <1>1, <3>1, <3>2, <3>3
  <2>2. made + 1 \notin hand
    BY <1>1 DEF Shapes
  <2>. QED  BY <1>1, <2>1, <2>2 DEF Pool!NoneForgotten
<1>9. ASSUME NEW s \in Requests PROVE Fits(request[s])'
  <2>1. CASE s = r
    BY <2>1
  <2>2. CASE s # r
    <3>1. request'[s] = request[s] /\ Fits(request[s]) /\ request[s].age \in Nat
      BY <2>2, OneAsked DEF Asked
    <3>2. ASSUME NEW c \in Pool!Clients, retirement'[c].task \in {"new", "asleep"}, request[s].client = c
          PROVE  /\ request[s].pc = "waiting" => Drain - retirement'[c].left <= request[s].age
                 /\ request[s].pc = "streaming" => Drain - retirement'[c].left <= request[s].age + Wait
      <4>1. CASE c = current
        <5>1. Drain - retirement'[c].left = 0
          BY <1>4, <4>1, PoolNumbers DEF Pool!Clients
        <5>. QED  BY <3>1, <5>1, PoolNumbers
      <4>. QED  BY <1>3, <3>1, <3>2, <4>1 DEF Fits
    <3>. QED  BY <3>1, <3>2 DEF Fits
  <2>. QED  BY <2>1, <2>2
<1>. QED  BY <1>5, <1>6, <1>7, <1>8, <1>9

LEMMA PBegin ==
  ASSUME Pool!PoolAssumption, PoolInv, NEW r \in Requests, Pool!Begin(r)
  PROVE  PoolInv'
<1>1. request' = [request EXCEPT ![r] = [pc |-> "waiting", client |-> current', age |-> 0]]
  BY DEF Pool!Begin
<1>2. current' \in Pool!Clients /\ \A c \in Pool!Clients : c = current' => retirement'[c].task = "none"
  <2>1. CASE current = 0
    BY <2>1, PoolNumbers DEF Pool!Begin, Pool!Build, PoolInv, Shapes, Retirees, Pool!Clients
  <2>2. CASE current # 0
    BY <2>2, PoolNumbers DEF Pool!Begin, PoolInv, Shapes, Retirees, Pool!Clients
  <2>. QED  BY <2>1, <2>2
<1>3. /\ request' \in [Requests -> Asked] /\ \A s \in Requests : s # r => request'[s] = request[s]
      /\ request'[r].pc = "waiting" /\ request'[r].client = current' /\ request'[r].age = 0
  BY <1>1, <1>2, PoolNumbers DEF PoolInv, Shapes, Asked, Pool!Phases, Pool!Clients
<1>4. Fits(request[r])'
  BY <1>2, <1>3, PoolNumbers DEF Fits
<1>5. CASE current = 0
  BY <1>3, <1>4, <1>5, Builds DEF Pool!Begin
<1>6. CASE current # 0
  BY <1>3, <1>4, <1>6, OneMoves DEF Pool!Begin, PoolInv, Shapes
<1>. QED  BY <1>5, <1>6

LEMMA PMoves ==
  ASSUME Pool!PoolAssumption, PoolInv, NEW r \in Requests, Pool!Connect(r) \/ Pool!TimeOut(r) \/ Pool!End(r)
  PROVE  PoolInv'
<1>. DEFINE q == request[r]
<1>1. /\ q \in Asked /\ q.age \in 0..Drain /\ q.client \in 0..MaxClients /\ q.pc \in Pool!Phases /\ Fits(q)
  BY OneAsked
<1>2. UNCHANGED <<current, made, open, retirement, closing, hand>> /\ exhausted \subseteq exhausted'
  BY DEF Pool!Connect, Pool!TimeOut, Pool!End
<1>3. exhausted' \subseteq Pool!Clients
  BY <1>1 DEF Pool!Connect, Pool!TimeOut, Pool!End, PoolInv, Shapes, Fits, Pool!At
<1>4. /\ request' \in [Requests -> Asked] /\ \A s \in Requests : s # r => request'[s] = request[s]
      /\ request'[r].pc \in {"streaming", "refused", "idle"}
      /\ request'[r].pc # "idle" => request'[r].client = q.client /\ request'[r].age = 0 /\ q.pc = "waiting"
      /\ request'[r].pc = "refused" => q.client \in exhausted'
  <2>1. CASE Pool!End(r)
    <3>1. Pool!Idle \in Asked /\ Pool!Idle.pc = "idle" /\ request' = [request EXCEPT ![r] = Pool!Idle]
      BY <2>1, PoolNumbers DEF Pool!End, Pool!Idle, Asked, Pool!Phases
    <3>. QED  BY <3>1 DEF PoolInv, Shapes
  <2>2. ASSUME NEW p \in {"streaming", "refused"}, Pool!Goes(r, p), q.pc = "waiting"
        PROVE  /\ request' \in [Requests -> Asked] /\ \A s \in Requests : s # r => request'[s] = request[s]
               /\ request'[r].pc = p /\ request'[r].client = q.client /\ request'[r].age = 0
    <3>. DEFINE next == [q EXCEPT !.pc = p, !.age = 0]
    <3>1. next \in Asked /\ next.pc = p /\ next.client = q.client /\ next.age = 0
      <4>1. p \in Pool!Phases /\ 0 \in 0..Drain
        BY PoolNumbers DEF Pool!Phases
      <4>. HIDE DEF q
      <4>. QED  BY <1>1, <4>1 DEF Asked
    <3>2. request' = [request EXCEPT ![r] = next]
      BY <2>2 DEF Pool!Goes, PoolInv, Shapes
    <3>. HIDE DEF next
    <3>. QED  BY <3>1, <3>2 DEF PoolInv, Shapes
  <2>. QED  BY <2>1, <2>2 DEF Pool!Connect, Pool!TimeOut, Pool!At
<1>5. Fits(request[r])'
  <2>1. ASSUME NEW c \in Pool!Clients, retirement[c].task \in {"new", "asleep"}, request'[r].client = c,
               request'[r].pc = "streaming"
        PROVE  Drain - retirement[c].left <= request'[r].age + Wait
    <3>1. Drain - retirement[c].left <= q.age /\ q.age <= Wait /\ request'[r].age = 0
      BY <1>1, <1>4, <2>1 DEF Fits
    <3>2. retirement[c].left \in 0..Drain
      BY DEF PoolInv, Shapes, Retirements
    <3>. QED  BY <1>1, <3>1, <3>2, PoolNumbers
  <2>2. request'[r].pc = "refused" => request'[r].client \in Pool!Clients
    BY <1>1, <1>4 DEF Fits
  <2>. QED  BY <1>2, <1>4, <2>1, <2>2 DEF Fits
<1>. QED  BY <1>2, <1>3, <1>4, <1>5, OneMoves

LEMMA PRotate ==
  ASSUME Pool!PoolAssumption, PoolInv, NEW r \in Requests, Pool!Rotate(r)
  PROVE  PoolInv'
<1>1. Pool!Idle \in Asked /\ Pool!Idle.pc = "idle" /\ request' = [request EXCEPT ![r] = Pool!Idle]
  BY PoolNumbers DEF Pool!Rotate, Pool!Idle, Asked, Pool!Phases
<1>2. /\ request' \in [Requests -> Asked] /\ \A s \in Requests : s # r => request'[s] = request[s]
      /\ request'[r].pc = "idle"
  BY <1>1 DEF PoolInv, Shapes
<1>3. Fits(request[r])'
  BY <1>2 DEF Fits
<1>4. request[r].client \in exhausted
  BY OneAsked DEF Fits, Pool!Rotate, Pool!At
<1>5. CASE UNCHANGED <<current, made, open, retirement>>
  BY <1>2, <1>3, <1>5, OneMoves DEF Pool!Rotate, PoolInv, Shapes
<1>6. CASE /\ Pool!Build
           /\ \/ retirement' = retirement /\ current = 0
              \/ current # 0 /\ retirement' = Pool!Retired(current) /\ current \in exhausted
  BY <1>2, <1>3, <1>6, Builds DEF Pool!Rotate
<1>. QED  BY <1>4, <1>5, <1>6 DEF Pool!Rotate, Pool!Replaces

\* Whoever streams through a client that is closed is cut off, and nobody else.
LEMMA Cuts ==
  ASSUME Pool!PoolAssumption, PoolInv, NEW cs, Pool!Closed(cs)
  PROVE  /\ request' \in [Requests -> Asked]
         /\ \A s \in Requests : \/ request'[s] = request[s]
                                \/ /\ Pool!At(s, "streaming") /\ request[s].client \in cs
                                   /\ request'[s].pc = "cut" /\ request'[s].client = request[s].client
<1>1. \A s \in Requests : request[s] \in Asked
  BY OneAsked
<1>2. request' = [r \in Requests |-> IF \E c \in cs : r \in Pool!Streams(c)
        THEN [request[r] EXCEPT !.pc = "cut"] ELSE request[r]]
  BY DEF Pool!Closed
<1>3. \A s \in Requests : request'[s] \in Asked
  BY <1>1, <1>2 DEF Asked, Pool!Phases
<1>. QED  BY <1>1, <1>2, <1>3 DEF Pool!Streams, Asked

\* Clients are closed, and tasks are over: who is left fits as before.
LEMMA Closes ==
  ASSUME Pool!PoolAssumption, PoolInv, NEW cs, Pool!Closed(cs),
         retirement' \in [Pool!Clients -> Retirements],
         \A c \in Pool!Clients : \/ retirement'[c] = retirement[c]
                                 \/ c \in cs /\ retirement[c].task # "none" /\ retirement'[c].task = "over",
         \A c \in Pool!Clients \ cs : retirement'[c] = retirement[c],
         UNCHANGED <<current, made, hand, exhausted>>,
         closing' \in {"no", "waits", "done"}, closing' = "no" => closing = "no",
         closing' # closing =>
           cs = hand /\ closing' = "done" /\ \A c \in Pool!Clients : retirement[c].task # "cancelled"
  PROVE  PoolInv'
<1>. USE DEF PoolInv
<1>1. /\ request' \in [Requests -> Asked] /\ open' = open \ cs
      /\ \A s \in Requests : request'[s] = request[s] \/ request'[s].pc = "cut"
  BY Cuts DEF Pool!Closed
<1>2. Shapes'
  BY <1>1 DEF Shapes
<1>3. Retirees' /\ Pool!RetiredForCause'
  BY DEF Retirees, Pool!RetiredForCause
<1>4. \A s \in Requests : Fits(request[s])'
  BY <1>1 DEF Fits
<1>5. Pool!NoneForgotten'
  <2>1. ASSUME NEW c \in open' PROVE \/ c = current \/ retirement'[c].task \in {"new", "asleep", "cancelled"}
                                     \/ closing' = "waits" /\ c \in hand
    <3>1. c \in Pool!Clients \ cs
      BY <1>1, PoolNumbers DEF Shapes, Pool!Clients
    <3>. QED  BY <1>1, <3>1 DEF Pool!NoneForgotten
  <2>2. closing' = "done" => open' \cap hand = {}
    BY <1>1 DEF Pool!NoneForgotten
  <2>. QED  BY <2>1, <2>2 DEF Pool!NoneForgotten
<1>. QED  BY <1>2, <1>3, <1>4, <1>5

LEMMA PTasks ==
  ASSUME Pool!PoolAssumption, PoolInv, NEW c \in Pool!Clients, Pool!Sleep(c) \/ Pool!CloseRetired(c)
  PROVE  PoolInv'
<1>1. retirement[c] \in Retirements
  BY DEF PoolInv, Shapes
<1>2. ASSUME NEW task \in TaskNames, Pool!Becomes(c, task)
      PROVE  /\ retirement' \in [Pool!Clients -> Retirements] /\ \A d \in Pool!Clients : d # c =>
                  retirement'[d] = retirement[d]
             /\ retirement'[c].task = task /\ retirement'[c].left = retirement[c].left
  <2>. DEFINE next == [retirement[c] EXCEPT !.task = task]
  <2>1. next \in Retirements /\ next.task = task /\ next.left = retirement[c].left
    BY <1>1 DEF Retirements
  <2>2. retirement' = [retirement EXCEPT ![c] = next]
    BY <1>2 DEF Pool!Becomes, PoolInv, Shapes
  <2>. HIDE DEF next
  <2>. QED  BY <2>1, <2>2 DEF PoolInv, Shapes
<1>3. CASE Pool!Sleep(c)
  <2>1. /\ retirement' \in [Pool!Clients -> Retirements] /\ \A d \in Pool!Clients : d # c =>
             retirement'[d] = retirement[d]
        /\ retirement'[c].task = "asleep" /\ retirement'[c].left = retirement[c].left
             /\ retirement[c].task = "new"
        /\ UNCHANGED <<current, made, open, request, closing, hand, exhausted>>
    BY <1>2, <1>3 DEF Pool!Sleep, TaskNames
  <2>2. Shapes' /\ Retirees' /\ Pool!RetiredForCause'
    BY <2>1 DEF PoolInv, Shapes, Retirees, Pool!RetiredForCause
  <2>3. \A s \in Requests : Fits(request[s])'
    BY <2>1 DEF PoolInv, Fits
  <2>4. Pool!NoneForgotten'
    BY <2>1, PoolNumbers DEF PoolInv, Shapes, Pool!NoneForgotten, Pool!Clients
  <2>. QED  BY <2>2, <2>3, <2>4 DEF PoolInv
<1>4. CASE Pool!CloseRetired(c)
  <2>1. /\ retirement' \in [Pool!Clients -> Retirements] /\ \A d \in Pool!Clients : d # c =>
             retirement'[d] = retirement[d]
        /\ retirement'[c].task = "over" /\ retirement[c].task # "none" /\ Pool!Closed({c})
        /\ UNCHANGED <<current, made, closing, hand, exhausted>>
    BY <1>2, <1>4 DEF Pool!CloseRetired, TaskNames
  <2>2. closing \in {"no", "waits", "done"}
    BY DEF PoolInv, Shapes
  <2>. QED  BY <2>1, <2>2, Closes
<1>. QED  BY <1>3, <1>4

LEMMA PCloseBegin ==
  ASSUME Pool!PoolAssumption, PoolInv, Pool!CloseBegin
  PROVE  PoolInv'
<1>. USE DEF PoolInv
<1>1. /\ closing = "no" /\ closing' = "waits" /\ hand' = Pool!Retiring \cup ({current} \ {0}) /\ current' = 0
      /\ UNCHANGED <<made, open, request, exhausted>>
  BY DEF Pool!CloseBegin, Pool!InHand
<1>2. \A c \in Pool!Clients :
        /\ retirement'[c] \in Retirements
        /\ c \notin Pool!Retiring => retirement'[c] = retirement[c]
        /\ c \in Pool!Retiring => retirement'[c].task \in {"over", "cancelled"}
        /\ retirement'[c].task = "none" <=> retirement[c].task = "none"
  <2>. SUFFICES ASSUME NEW c \in Pool!Clients
                PROVE  /\ retirement'[c] \in Retirements
                       /\ c \notin Pool!Retiring => retirement'[c] = retirement[c]
                       /\ c \in Pool!Retiring => retirement'[c].task \in {"over", "cancelled"}
                       /\ retirement'[c].task = "none" <=> retirement[c].task = "none"
    OBVIOUS
  <2>1. retirement[c] \in Retirements
    BY DEF Shapes
  <2>2. retirement'[c] = IF c \in Pool!Retiring
                         THEN [retirement[c] EXCEPT !.task = IF @ = "new" THEN "over" ELSE "cancelled"]
                         ELSE retirement[c]
    BY DEF Pool!CloseBegin
  <2>3. CASE c \in Pool!Retiring
    <3>1. PICK task \in {"over", "cancelled"} : retirement'[c] = [retirement[c] EXCEPT !.task = task]
      BY <2>1, <2>2, <2>3 DEF Retirements
    <3>. QED  BY <2>1, <2>3, <3>1 DEF Retirements, TaskNames, Pool!Retiring
  <2>. QED  BY <2>1, <2>2, <2>3
<1>3. retirement' \in [Pool!Clients -> Retirements]
  BY <1>2 DEF Pool!CloseBegin
<1>4. hand' \subseteq 1..made
  BY <1>1, PoolNumbers DEF Shapes, Retirees, Pool!Retiring, Pool!Clients
<1>5. Shapes'
  BY <1>1, <1>3, <1>4 DEF Shapes
<1>6. Retirees'
  BY <1>1, <1>2 DEF Retirees, Pool!Retiring, Pool!Clients
<1>7. Pool!RetiredForCause'
  BY <1>1, <1>2 DEF Pool!RetiredForCause
<1>8. \A s \in Requests : Fits(request[s])'
  BY <1>1, <1>2 DEF Fits, Pool!Retiring
<1>9. Pool!NoneForgotten'
  <2>1. ASSUME NEW c \in open PROVE retirement'[c].task = "cancelled" \/ c \in hand'
    <3>1. c \in Pool!Clients /\ c # 0
      BY <2>1, PoolNumbers DEF Shapes, Pool!Clients
    <3>. QED  BY <1>1, <1>2, <3>1 DEF Pool!NoneForgotten, Pool!Retiring
  <2>. QED  BY <1>1, <2>1 DEF Pool!NoneForgotten
<1>. QED  BY <1>5, <1>6, <1>7, <1>8, <1>9

LEMMA PCloseEnd ==
  ASSUME Pool!PoolAssumption, PoolInv, Pool!CloseEnd
  PROVE  PoolInv'
<1>1. /\ Pool!Closed(hand) /\ UNCHANGED <<current, made, retirement, hand, exhausted>>
      /\ closing = "waits" /\ closing' = "done" /\ \A c \in Pool!Clients : retirement[c].task # "cancelled"
  BY DEF Pool!CloseEnd
<1>2. retirement' \in [Pool!Clients -> Retirements] /\ \A c \in Pool!Clients : retirement'[c] = retirement[c]
  BY <1>1 DEF PoolInv, Shapes
<1>3. /\ retirement' \in [Pool!Clients -> Retirements]
      /\ \A c \in Pool!Clients : \/ retirement'[c] = retirement[c]
                                 \/ c \in hand /\ retirement[c].task # "none" /\ retirement'[c].task = "over"
      /\ \A c \in Pool!Clients \ hand : retirement'[c] = retirement[c]
  BY <1>2
<1>4. /\ UNCHANGED <<current, made, hand, exhausted>>
      /\ closing' \in {"no", "waits", "done"} /\ (closing' = "no" => closing = "no")
      /\ closing' # closing =>
           hand = hand /\ closing' = "done" /\ \A c \in Pool!Clients : retirement[c].task # "cancelled"
  BY <1>1
<1>. QED  BY <1>1, <1>3, <1>4, Closes

\* A tick: what is left to a client and how long a request has been at it move
\* together.
LEMMA PTick ==
  ASSUME Pool!PoolAssumption, PoolInv, Pool!Tick
  PROVE  PoolInv'
<1>. USE DEF PoolInv
<1>1. /\ UNCHANGED <<current, made, open, closing, hand, exhausted>>
      /\ \A c \in Pool!Clients : /\ retirement[c].task \notin {"new", "cancelled"}
                                 /\ retirement[c].task = "asleep" => retirement[c].left > 0
      /\ \A r \in Requests : Pool!At(r, "waiting") => request[r].age < Wait
  BY DEF Pool!Tick
<1>2. ASSUME NEW c \in Pool!Clients
      PROVE  /\ retirement'[c] \in Retirements /\ retirement'[c].task = retirement[c].task
             /\ retirement[c].task = "asleep" => retirement'[c].left = retirement[c].left - 1
             /\ retirement[c].left \in 0..Drain /\ retirement'[c].left \in 0..Drain
  <2>1. retirement[c] \in Retirements /\ retirement[c].left \in 0..Drain
    BY DEF Shapes, Retirements
  <2>2. retirement'[c] = IF retirement[c].task = "asleep"
          THEN [retirement[c] EXCEPT !.left = @ - 1] ELSE retirement[c]
    BY DEF Pool!Tick
  <2>3. CASE retirement[c].task = "asleep"
    <3>. DEFINE n == retirement[c].left - 1
    <3>1. n \in 0..Drain
      BY <1>1, <2>1, <2>3, PoolNumbers
    <3>2. retirement'[c] = [retirement[c] EXCEPT !.left = n]
      BY <2>1, <2>2, <2>3 DEF Retirements
    <3>3. n = retirement[c].left - 1
      OBVIOUS
    <3>. HIDE DEF n
    <3>. QED  BY <2>1, <2>3, <3>1, <3>2, <3>3 DEF Retirements
  <2>. QED  BY <2>1, <2>2, <2>3
<1>3. ASSUME NEW r \in Requests
      PROVE  /\ request'[r] \in Asked /\ request'[r].pc = request[r].pc /\ request'[r].client = request[r].client
             /\ request[r].age \in 0..Drain
             /\ request'[r].age = IF Pool!At(r, "waiting") \/ Pool!At(r, "streaming")
                  THEN Pool!Older(request[r].age) ELSE request[r].age
  <2>1. request[r] \in Asked /\ request[r].age \in 0..Drain
    BY OneAsked
  <2>2. request'[r] = IF Pool!At(r, "waiting") \/ Pool!At(r, "streaming")
          THEN [request[r] EXCEPT !.age = Pool!Older(@)] ELSE request[r]
    BY DEF Pool!Tick
  <2>3. CASE Pool!At(r, "waiting") \/ Pool!At(r, "streaming")
    <3>. DEFINE n == Pool!Older(request[r].age)
    <3>1. n \in 0..Drain
      BY <2>1, PoolNumbers DEF Pool!Older
    <3>2. request'[r] = [request[r] EXCEPT !.age = n]
      BY <2>1, <2>2, <2>3 DEF Asked
    <3>. HIDE DEF n
    <3>3. /\ request'[r] \in Asked /\ request'[r].pc = request[r].pc /\ request'[r].client = request[r].client
          /\ request'[r].age = n
      BY <2>1, <3>1, <3>2 DEF Asked
    <3>. QED  BY <2>1, <2>3, <3>3 DEF n
  <2>. QED  BY <2>1, <2>2, <2>3
<1>9. \A c \in Pool!Clients : /\ retirement'[c].task = retirement[c].task
                              /\ retirement[c].task # "new" /\ retirement[c].task # "cancelled"
  BY <1>1, <1>2
<1>4. retirement' \in [Pool!Clients -> Retirements] /\ request' \in [Requests -> Asked]
  BY <1>2, <1>3 DEF Pool!Tick
<1>5. Shapes'
  BY <1>1, <1>4 DEF Shapes
<1>6. Retirees' /\ Pool!RetiredForCause'
  BY <1>1, <1>9 DEF Retirees, Pool!RetiredForCause
<1>7. ASSUME NEW r \in Requests PROVE Fits(request[r])'
  <2>1. Fits(request[r]) /\ request[r].age \in 0..Drain
    BY <1>3
  <2>2. request[r].pc = "waiting" => request'[r].age = request[r].age + 1 /\ request'[r].age <= Wait
    BY <1>1, <1>3, <2>1, PoolNumbers DEF Pool!At, Pool!Older
  <2>3. ASSUME NEW c \in Pool!Clients, retirement[c].task = "asleep", request[r].client = c
        PROVE  /\ request[r].pc = "waiting" => Drain - retirement'[c].left <= request'[r].age
               /\ request[r].pc = "streaming" => Drain - retirement'[c].left <= request'[r].age + Wait
    <3>1. /\ retirement'[c].left = retirement[c].left - 1 /\ retirement[c].left \in 0..Drain
          /\ retirement'[c].left \in 0..Drain
      BY <1>2, <2>3
    <3>2. CASE request[r].pc = "waiting"
      <4>1. Drain - retirement[c].left <= request[r].age
        BY <2>1, <2>3, <3>2 DEF Fits
      <4>. QED  BY <2>1, <2>2, <3>1, <3>2, <4>1, PoolNumbers
    <3>3. CASE request[r].pc = "streaming"
      <4>1. Drain - retirement[c].left <= request[r].age + Wait
        BY <2>1, <2>3, <3>3 DEF Fits
      <4>2. request'[r].age = IF request[r].age < Drain THEN request[r].age + 1 ELSE request[r].age
        BY <1>3, <3>3 DEF Pool!At, Pool!Older
      <4>. QED  BY <2>1, <3>1, <3>3, <4>1, <4>2, PoolNumbers
    <3>. QED  BY <3>2, <3>3
  <2>4. \A c \in Pool!Clients : retirement'[c].task \in {"new", "asleep"} => retirement[c].task = "asleep"
    BY <1>9
  <2>. QED  BY <1>1, <1>3, <2>1, <2>2, <2>3, <2>4 DEF Fits
<1>8. Pool!NoneForgotten'
  BY <1>1, <1>9, PoolNumbers DEF Pool!NoneForgotten, Shapes, Pool!Clients
<1>. QED  BY <1>5, <1>6, <1>7, <1>8

LEMMA PoolStep == Pool!PoolAssumption /\ PoolInv /\ [Pool!Next]_(Pool!vars) => PoolInv'
<1>. SUFFICES ASSUME Pool!PoolAssumption, PoolInv, [Pool!Next]_(Pool!vars) PROVE PoolInv'
  OBVIOUS
<1>1. CASE UNCHANGED Pool!vars
  BY <1>1 DEF Pool!vars, PoolInv, Shapes, Retirees, Fits, Pool!RetiredForCause, Pool!NoneForgotten
<1>. QED  BY <1>1, PBegin, PMoves, PRotate, PTasks, PCloseBegin, PCloseEnd, PTick DEF Pool!Next

\* Only a closing client cuts a stream off, and while the gateway is up one is
\* closed when its time is over.
LEMMA DrainedStep ==
  ASSUME Pool!PoolAssumption, PoolInv, [Pool!Next]_(Pool!vars), NEW r \in Requests, Pool!At(r, "streaming"),
         request'[r].pc = "cut",
         closing = "no"
  PROVE  request[r].age >= Drain - Wait
<1>1. request[r] \in Asked /\ Fits(request[r]) /\ request[r].age \in 0..Drain /\ request[r].pc = "streaming"
  BY OneAsked DEF Pool!At
<1>2. PICK c \in Pool!Clients : Pool!CloseRetired(c)
  <2>1. request' # request
    BY <1>1
  <2>2. ~\E q \in Requests : Pool!Begin(q) \/ Pool!Connect(q) \/ Pool!TimeOut(q) \/ Pool!Rotate(q) \/ Pool!End(q)
    <3>. SUFFICES ASSUME NEW q \in Requests, Pool!Begin(q) \/ Pool!Connect(q) \/ Pool!TimeOut(q) \/ Pool!Rotate(q) \/ Pool!End(q)
                  PROVE  FALSE
      OBVIOUS
    <3>1. request[q] \in Asked
      BY OneAsked
    <3>2. request'[q].pc # "cut" /\ \A s \in Requests : s # q => request'[s] = request[s]
      BY <3>1 DEF Pool!Begin, Pool!Connect, Pool!TimeOut, Pool!Rotate, Pool!End, Pool!Goes, Pool!Idle,
                  PoolInv, Shapes, Asked
    <3>. QED  BY <1>1, <3>2
  <2>3. ~Pool!Tick
    <3>1. Pool!Tick => request'[r].pc = "streaming"
      BY <1>1 DEF Pool!Tick, Asked
    <3>. QED  BY <3>1
  <2>. QED  BY <2>1, <2>2, <2>3 DEF Pool!Next, Pool!vars, Pool!Sleep, Pool!CloseBegin, Pool!CloseEnd
<1>3. request[r].client = c
  BY <1>1, <1>2, Cuts DEF Pool!CloseRetired
<1>4. retirement[c].task = "asleep" /\ retirement[c].left = 0
  BY <1>2 DEF Pool!CloseRetired, PoolInv, Retirees
<1>5. Drain - 0 <= request[r].age + Wait
  BY <1>1, <1>3, <1>4 DEF Fits
<1>. QED  BY <1>1, <1>5, PoolNumbers

\* Requests that time out together replace the client once; no client is
\* forgotten that somebody has to close; and while the gateway is up no stream
\* is cut that has not had the drain time, less the wait for its connection
\* (rotate_shared_client, _close_retired_client, close_shared_client).
THEOREM PoolIsDrained == Pool!PoolAssumption =>
                           (Pool!Spec => [](Pool!RetiredForCause /\ Pool!NoneForgotten) /\ Pool!DrainedFirst)
<1>. SUFFICES ASSUME Pool!PoolAssumption PROVE Pool!Spec =>
                       [](Pool!RetiredForCause /\ Pool!NoneForgotten) /\ Pool!DrainedFirst
  OBVIOUS
<1>1. Pool!Init => PoolInv
  BY PoolInit
<1>2. PoolInv /\ [Pool!Next]_(Pool!vars) => PoolInv'
  BY PoolStep
<1>3. PoolInv => Pool!RetiredForCause /\ Pool!NoneForgotten
  BY DEF PoolInv
<1>4. PoolInv /\ [Pool!Next]_(Pool!vars) =>
        [\A r \in Requests : Pool!At(r, "streaming") /\ request'[r].pc = "cut" =>
           closing # "no" \/ request[r].age >= Drain - Wait]_(Pool!vars)
  BY DrainedStep
<1>. QED  BY <1>1, <1>2, <1>3, <1>4, PTL DEF Pool!Spec, Pool!DrainedFirst

-----------------------------------------------------------------------------
(* The files of a local tool (HarnessFiles), for any files, in any orders, *)
(* and any number of kept versions.                                        *)
(*                                                                         *)
(* What is undone is what was there because the rollback copy is the whole of *)
(* it before the first write, and so is a version that can be chosen, which *)
(* no pruning takes (HeldTwice).                                           *)
CONSTANTS Files, CopyOrder, WriteOrder, Keep, MaxApplies
VARIABLES live, official, backups, rollback, doing, nth, source, before, applies

Harness == INSTANCE HarnessFiles WITH pc <- doing, i <- nth

Steps == {"idle", "snapshot", "backup", "hold", "write", "undo", "restore", "restored", "done", "undone"}

ToolTypes ==
  /\ live \in Harness!Copies /\ rollback \in Harness!Copies /\ source \in Harness!Copies
       /\ before \in Harness!Copies
  /\ official \in [files : Harness!Copies, done : BOOLEAN]
  /\ backups \in Seq(Harness!Copies) /\ nth \in Nat \ {0} /\ doing \in Steps

\* Before the snapshot is complete nothing of the client's is anywhere: there is
\* nothing to restore, and no apply has come to its writes.
Untouched ==
  /\ \A f \in Files : official.files[f] # "cloud"
  /\ ~official.done => /\ backups = <<>> /\ doing \in {"idle", "snapshot"}
                       /\ \A f \in Files : live[f] # "cloud"
  /\ doing = "snapshot" => ~official.done

\* A copy in the making: the first files in the order are in it.
Partial(copy) ==
  /\ \A f \in Files : copy[f] \in {"none", before[f]}
  /\ \A j \in 1..Harness!N : j < nth => copy[CopyOrder[j]] = before[CopyOrder[j]]

\* Nothing is written before it is held twice, in a version that can be chosen
\* and in the rollback copy.
HeldTwice ==
  /\ doing \in {"snapshot", "backup", "hold"} => live = before
  /\ doing = "backup" => backups # <<>> /\ Partial(backups[Len(backups)])
  /\ doing \in {"hold", "write", "undo"} /\ before # Harness!Nothing =>
       \E k \in 1..Len(backups) : backups[k] = before
  /\ doing = "hold" => Partial(rollback)
  /\ doing \in {"write", "undo"} => rollback = before
  /\ doing = "undo" => \A j \in 1..Harness!N : j < nth => live[CopyOrder[j]] = before[CopyOrder[j]]
  /\ doing = "undone" => live = before

HInv == ToolTypes /\ Untouched /\ HeldTwice

Ordered == Harness!OrderAssumption /\ Harness!KeepAssumption

LEMMA Places ==
  ASSUME Ordered
  PROVE  /\ Harness!N \in Nat /\ \A j \in 1..Harness!N : CopyOrder[j] \in Files
         /\ \A f \in Files : \E j \in 1..Harness!N : CopyOrder[j] = f
         /\ Keep \in Nat /\ Keep > 0
BY DEF Ordered, Harness!OrderAssumption, Harness!KeepAssumption, Harness!N, Harness!ToSet

LEMMA Nowhere == Harness!Nothing \in Harness!Copies /\ \A f \in Files : Harness!Nothing[f] = "none"
BY DEF Harness!Nothing, Harness!Copies, Harness!Content

\* The next file is copied, or there is none to copy.
LEMMA CopyGrows ==
  ASSUME Ordered, NEW copy \in Harness!Copies, NEW j \in Nat \ {0}, j <= Harness!N, live = before,
         before \in Harness!Copies, nth \in Nat,
         j = nth, Partial(copy), NEW next, next = Harness!Copied(copy, live, CopyOrder[j])
  PROVE  /\ next \in Harness!Copies
         /\ \A f \in Files : next[f] \in {"none", before[f]}
         /\ \A k \in 1..Harness!N : k < nth + 1 => next[CopyOrder[k]] = before[CopyOrder[k]]
<1>. DEFINE g == CopyOrder[j]
<1>1. g \in Files
  BY Places
<1>2. /\ next \in Harness!Copies /\ \A f \in Files : f # g => next[f] = copy[f]
      /\ next[g] = before[g]
  <2>1. copy[g] \in {"none", before[g]}
    BY <1>1 DEF Partial
  <2>2. CASE before[g] = "none"
    BY <2>1, <2>2 DEF Harness!Copied
  <2>3. CASE before[g] # "none"
    BY <1>1, <2>3 DEF Harness!Copied, Harness!Copies
  <2>. QED  BY <2>2, <2>3
<1>3. ASSUME NEW f \in Files PROVE next[f] \in {"none", before[f]}
  BY <1>2 DEF Partial
<1>4. ASSUME NEW k \in 1..Harness!N, k < nth + 1 PROVE next[CopyOrder[k]] = before[CopyOrder[k]]
  <2>1. CASE CopyOrder[k] = g
    BY <1>2, <2>1
  <2>2. CASE CopyOrder[k] # g
    <3>1. k < nth /\ CopyOrder[k] \in Files
      BY <1>4, <2>2, Places
    <3>. QED  BY <1>2, <2>2, <3>1 DEF Partial
  <2>. QED  BY <2>1, <2>2
<1>. QED  BY <1>2, <1>3, <1>4

\* A copy of every file is the whole.
LEMMA CopyIsWhole ==
  ASSUME Ordered, NEW copy \in Harness!Copies, before \in Harness!Copies, nth > Harness!N, nth \in Nat,
         \A j \in 1..Harness!N : j < nth => copy[CopyOrder[j]] = before[CopyOrder[j]]
  PROVE  copy = before
<1>1. \A f \in Files : copy[f] = before[f]
  BY Places
<1>. QED  BY <1>1 DEF Harness!Copies

LEMMA EmptyIsPartial ==
  ASSUME Ordered, nth' = 1, before' \in Harness!Copies
  PROVE  Partial(Harness!Nothing)'
BY Nowhere DEF Partial, Harness!Copies, Harness!Nothing

LEMMA HInit == Ordered /\ Harness!Init => HInv
<1>. SUFFICES ASSUME Ordered, Harness!Init PROVE HInv
  OBVIOUS
<1>1. ToolTypes
  BY Nowhere DEF Harness!Init, ToolTypes, Harness!Copies, Harness!Content, Steps
<1>2. Untouched
  BY Nowhere DEF Harness!Init, Untouched
<1>3. HeldTwice
  BY DEF Harness!Init, HeldTwice
<1>. QED  BY <1>1, <1>2, <1>3 DEF HInv

\* The steps that end, cut short or begin anew what an operation does, and an
\* edit of the user's: nothing is promised of what comes next.
LEMMA HRests ==
  ASSUME Ordered, HInv,
         (\E f \in Files, c \in {"none", "mine", "edited"} : Harness!Edit(f,
           c)) \/ Harness!Written \/ Harness!Undone \/ Harness!Restored
           \/ Harness!StepFails \/ Harness!Killed \/ (\E v \in Harness!Sources : Harness!Restore(v)) \/ Harness!RestoreOne
  PROVE  HInv'
<1>. USE DEF HInv
<1>1. /\ UNCHANGED <<official, backups>> /\ nth' \in Nat \ {0} /\ rollback' \in {rollback,
           Harness!Nothing} /\ doing' \in Steps
      /\ doing' \in {"idle", "done", "undone", "restore", "restored"}
  BY DEF ToolTypes, Harness!Edit, Harness!Written, Harness!Undone, Harness!Restored, Harness!StepFails,
         Harness!Killed, Harness!Restore, Harness!RestoreOne, Harness!Begins, Steps
<1>2. live' \in Harness!Copies
  <2>1. CASE \E f \in Files, c \in {"none", "mine", "edited"} : Harness!Edit(f, c)
    BY <2>1 DEF ToolTypes, Harness!Edit, Harness!Copies, Harness!Content
  <2>2. CASE Harness!RestoreOne
    <3>1. nth \in 1..Harness!N /\ live' = [live EXCEPT ![CopyOrder[nth]] = source[CopyOrder[nth]]]
            /\ CopyOrder[nth] \in Files
      BY <2>2, Places DEF ToolTypes, Harness!RestoreOne, Harness!GivesBack
    <3>. QED  BY <3>1 DEF ToolTypes, Harness!Copies
  <2>. QED  BY <2>1, <2>2 DEF ToolTypes, Harness!Written, Harness!Undone, Harness!Restored,
                              Harness!StepFails, Harness!Killed, Harness!Restore
<1>3. source' \in Harness!Copies /\ before' \in Harness!Copies
  <2>1. ASSUME NEW v \in Harness!Sources PROVE v \in Harness!Copies
    BY DEF ToolTypes, Harness!Sources, Harness!ToSet
  <2>. QED  BY <2>1 DEF ToolTypes, Harness!Edit, Harness!Written, Harness!Undone, Harness!Restored,
                        Harness!StepFails, Harness!Killed, Harness!Restore, Harness!RestoreOne
<1>4. ToolTypes'
  BY <1>1, <1>2, <1>3, Nowhere DEF ToolTypes
<1>5. Untouched'
  <2>1. ASSUME ~official.done PROVE doing' = "idle" /\ \A f \in Files : live'[f] # "cloud"
    <3>1. doing \in {"idle", "snapshot"} /\ Harness!Sources = {} /\ \A f \in Files : live[f] # "cloud"
      BY <2>1 DEF Untouched, Harness!Sources, Harness!ToSet
    <3>2. CASE \E f \in Files, c \in {"none", "mine", "edited"} : Harness!Edit(f, c)
      <4>1. PICK f \in Files, c \in {"none", "mine", "edited"} : Harness!Edit(f, c)
        BY <3>2
      <4>. QED  BY <3>1, <4>1 DEF Harness!Edit, ToolTypes, Harness!Copies
    <3>. QED  BY <3>1, <3>2 DEF Harness!Written, Harness!Undone, Harness!Restored, Harness!StepFails,
                                Harness!Killed, Harness!Restore, Harness!RestoreOne, Harness!Begins
  <2>. QED  BY <1>1, <2>1 DEF Untouched
<1>6. doing' = "undone" => live' = before'
  <2>1. ASSUME doing' = "undone" PROVE Harness!Undone
    BY <2>1 DEF Harness!Edit, Harness!Written, Harness!Undone, Harness!Restored, Harness!StepFails,
                Harness!Killed, Harness!Restore, Harness!RestoreOne, Harness!Begins
  <2>2. ASSUME Harness!Undone PROVE live' = before'
    <3>1. doing = "undo" /\ nth > Harness!N /\ UNCHANGED <<live, before>>
      BY <2>2 DEF Harness!Undone
    <3>. QED  BY <3>1, CopyIsWhole DEF HeldTwice, ToolTypes
  <2>. QED  BY <2>1, <2>2
<1>7. HeldTwice'
  BY <1>1, <1>6 DEF HeldTwice
<1>. QED  BY <1>4, <1>5, <1>7

LEMMA HApply ==
  ASSUME Ordered, HInv, Harness!Apply
  PROVE  HInv'
<1>. USE DEF HInv
<1>1. /\ UNCHANGED <<live, official, rollback, source>> /\ before' = live /\ nth' = 1 /\ doing \in Steps
      /\ \/ ~official.done /\ doing' = "snapshot" /\ backups' = backups
         \/ official.done /\ doing' = "backup" /\ backups' = Append(backups, Harness!Nothing)
  BY DEF Harness!Apply, Harness!Begins, Harness!NeedsSnapshot, ToolTypes
<1>2. backups' \in Seq(Harness!Copies)
  BY <1>1, Nowhere DEF ToolTypes
<1>3. ToolTypes'
  BY <1>1, <1>2 DEF ToolTypes, Steps
<1>4. Untouched'
  BY <1>1 DEF Untouched
<1>5. Partial(Harness!Nothing)'
  BY <1>1, EmptyIsPartial DEF ToolTypes
<1>6. doing' = "backup" => backups' # <<>> /\ backups'[Len(backups')] = Harness!Nothing
  BY <1>1, Nowhere DEF ToolTypes
<1>7. HeldTwice'
  BY <1>1, <1>5, <1>6 DEF HeldTwice, Partial, Harness!Nothing
<1>. QED  BY <1>3, <1>4, <1>7

LEMMA HSnapshot ==
  ASSUME Ordered, HInv, Harness!Snapshot \/ Harness!Complete
  PROVE  HInv'
<1>. USE DEF HInv
<1>1. doing = "snapshot" /\ live = before /\ UNCHANGED <<live, rollback, source, before>>
  BY DEF Harness!Snapshot, Harness!Complete, HeldTwice
<1>2. CASE Harness!Snapshot
  <2>. DEFINE next == Harness!Copied(official.files, live, CopyOrder[nth])
  <2>1. /\ nth <= Harness!N /\ nth' = nth + 1 /\ official' = [official EXCEPT !.files = next]
             /\ UNCHANGED <<backups, doing>>
    BY <1>2 DEF Harness!Snapshot
  <2>2. CopyOrder[nth] \in Files /\ official.files \in Harness!Copies
    BY <2>1, Places DEF ToolTypes
  <2>3. next \in Harness!Copies /\ \A f \in Files : next[f] # "cloud"
    <3>1. /\ \A f \in Files : live[f] # "cloud" /\ official.files[f] # "cloud"
          /\ live \in Harness!Copies
      BY <1>1 DEF ToolTypes, Untouched
    <3>. QED  BY <2>2, <3>1 DEF Harness!Copied, Harness!Copies
  <2>. HIDE DEF next
  <2>4. official' \in [files : Harness!Copies, done : BOOLEAN] /\ official'.files = next
          /\ official'.done = official.done
    BY <2>1, <2>3 DEF ToolTypes
  <2>5. ToolTypes'
    BY <1>1, <2>1, <2>4 DEF ToolTypes
  <2>6. Untouched'
    BY <1>1, <2>1, <2>3, <2>4 DEF Untouched
  <2>7. HeldTwice'
    BY <1>1, <2>1 DEF HeldTwice
  <2>. QED  BY <2>5, <2>6, <2>7
<1>3. CASE Harness!Complete
  <2>1. /\ official' = [official EXCEPT !.done = TRUE] /\ backups' = Append(backups, Harness!Nothing)
        /\ doing' = "backup" /\ nth' = 1
    BY <1>3 DEF Harness!Complete, Harness!Begins
  <2>2. official' \in [files : Harness!Copies, done : BOOLEAN] /\ official'.files = official.files
          /\ official'.done
    BY <2>1 DEF ToolTypes
  <2>3. backups' \in Seq(Harness!Copies) /\ backups' # <<>> /\ backups'[Len(backups')] = Harness!Nothing
    BY <2>1, Nowhere DEF ToolTypes
  <2>4. ToolTypes'
    BY <1>1, <2>1, <2>2, <2>3 DEF ToolTypes, Steps
  <2>5. Untouched'
    BY <2>1, <2>2 DEF Untouched
  <2>6. Partial(Harness!Nothing)'
    BY <1>1, <2>1, EmptyIsPartial DEF ToolTypes
  <2>7. HeldTwice'
    BY <1>1, <2>1, <2>3, <2>6 DEF HeldTwice, Partial, Harness!Nothing
  <2>. QED  BY <2>4, <2>5, <2>7
<1>. QED  BY <1>2, <1>3

LEMMA HBackup ==
  ASSUME Ordered, HInv, Harness!Backup
  PROVE  HInv'
<1>. USE DEF HInv
<1>. DEFINE last == Len(backups)
            next == Harness!Copied(backups[last], live, CopyOrder[nth])
<1>1. /\ doing = "backup" /\ nth <= Harness!N /\ nth' = nth + 1 /\ backups' = [backups EXCEPT ![last] = next]
      /\ UNCHANGED <<live, official, rollback, doing, source, before>>
  BY DEF Harness!Backup
<1>2. last \in 1..Len(backups) /\ backups[last] \in Harness!Copies /\ Partial(backups[last]) /\ live = before
  BY <1>1 DEF HeldTwice, ToolTypes
<1>3. /\ next \in Harness!Copies
      /\ \A f \in Files : next[f] \in {"none", before[f]}
      /\ \A k \in 1..Harness!N : k < nth + 1 => next[CopyOrder[k]] = before[CopyOrder[k]]
  BY <1>1, <1>2, CopyGrows DEF ToolTypes
<1>. HIDE DEF next
<1>4. backups' \in Seq(Harness!Copies) /\ Len(backups') = Len(backups) /\ backups'[last] = next
  BY <1>1, <1>2, <1>3 DEF ToolTypes
<1>5. ToolTypes'
  BY <1>1, <1>4 DEF ToolTypes
<1>6. Untouched'
  BY <1>1 DEF Untouched
<1>7. Partial(backups[Len(backups)])'
  BY <1>1, <1>3, <1>4 DEF Partial
<1>8. HeldTwice'
  BY <1>1, <1>2, <1>4, <1>7 DEF HeldTwice
<1>. QED  BY <1>5, <1>6, <1>8

\* The version that was just made is never among those that go.
LEMMA HPrune ==
  ASSUME Ordered, HInv, Harness!Prune
  PROVE  HInv'
<1>. USE DEF HInv
<1>. DEFINE last == Len(backups)
<1>1. /\ doing = "backup" /\ nth > Harness!N /\ doing' = "hold" /\ nth' = 1 /\ rollback' = Harness!Nothing
      /\ UNCHANGED <<live, official, source, before>>
      /\ backups' = IF backups[last] = Harness!Nothing THEN Harness!Front(backups) ELSE Harness!Pruned(backups)
  BY DEF Harness!Prune, Harness!Begins
<1>2. last \in Nat \ {0} /\ backups[last] \in Harness!Copies /\ Partial(backups[last]) /\ live = before
  BY <1>1 DEF HeldTwice, ToolTypes
<1>3. backups[last] = before
  BY <1>1, <1>2, CopyIsWhole DEF ToolTypes, Partial
<1>4. backups' \in Seq(Harness!Copies)
  BY <1>1, <1>2, Places DEF ToolTypes, Harness!Front, Harness!Pruned
<1>5. before # Harness!Nothing => \E k \in 1..Len(backups') : backups'[k] = before
  <2>. SUFFICES ASSUME before # Harness!Nothing PROVE \E k \in 1..Len(backups') : backups'[k] = before
    OBVIOUS
  <2>. DEFINE first == IF last > Keep THEN last - Keep + 1 ELSE 1
  <2>1. backups' = SubSeq(backups, first, last) /\ first \in 1..last
    BY <1>1, <1>2, <1>3, Places DEF Harness!Pruned
  <2>. HIDE DEF first
  <2>2. Len(backups') = last - first + 1 /\ backups'[last - first + 1] = backups[last]
    BY <1>2, <2>1 DEF ToolTypes
  <2>. DEFINE place == last - first + 1
  <2>3. place \in 1..Len(backups') /\ backups'[place] = before
    BY <1>2, <1>3, <2>1, <2>2
  <2>. HIDE DEF place
  <2>. QED  BY <2>3
<1>6. ToolTypes'
  BY <1>1, <1>4, Nowhere DEF ToolTypes, Steps
<1>7. Untouched'
  BY <1>1 DEF Untouched
<1>8. Partial(rollback)'
  BY <1>1, EmptyIsPartial DEF ToolTypes, Partial, Harness!Nothing
<1>9. HeldTwice'
  BY <1>1, <1>2, <1>5, <1>8 DEF HeldTwice
<1>. QED  BY <1>6, <1>7, <1>9

LEMMA HHold ==
  ASSUME Ordered, HInv, Harness!Hold \/ Harness!Held
  PROVE  HInv'
<1>. USE DEF HInv
<1>1. /\ doing = "hold" /\ live = before /\ Partial(rollback) /\ UNCHANGED <<live, official, backups,
           source, before>>
      /\ before # Harness!Nothing => \E k \in 1..Len(backups) : backups[k] = before
  BY DEF Harness!Hold, Harness!Held, HeldTwice
<1>2. Untouched'
  BY <1>1 DEF Untouched, Harness!Hold, Harness!Held, Harness!Begins
<1>3. CASE Harness!Hold
  <2>. DEFINE next == Harness!Copied(rollback, live, CopyOrder[nth])
  <2>1. nth <= Harness!N /\ nth' = nth + 1 /\ rollback' = next /\ doing' = doing
    BY <1>3 DEF Harness!Hold
  <2>2. /\ next \in Harness!Copies
        /\ \A f \in Files : next[f] \in {"none", before[f]}
        /\ \A k \in 1..Harness!N : k < nth + 1 => next[CopyOrder[k]] = before[CopyOrder[k]]
    BY <1>1, <2>1, CopyGrows DEF ToolTypes
  <2>. HIDE DEF next
  <2>3. ToolTypes'
    BY <1>1, <2>1, <2>2 DEF ToolTypes
  <2>4. Partial(rollback)'
    BY <1>1, <2>1, <2>2 DEF Partial
  <2>5. HeldTwice'
    BY <1>1, <2>1, <2>4 DEF HeldTwice
  <2>. QED  BY <1>2, <2>3, <2>5
<1>4. CASE Harness!Held
  <2>1. nth > Harness!N /\ nth' = 1 /\ doing' = "write" /\ rollback' = rollback
    BY <1>4 DEF Harness!Held, Harness!Begins
  <2>2. rollback = before
    BY <1>1, <2>1, CopyIsWhole DEF ToolTypes, Partial
  <2>3. ToolTypes' /\ HeldTwice'
    BY <1>1, <2>1, <2>2 DEF ToolTypes, HeldTwice, Steps
  <2>. QED  BY <1>2, <2>3
<1>. QED  BY <1>3, <1>4

LEMMA HWrite ==
  ASSUME Ordered, HInv, Harness!Write \/ Harness!WriteFails \/ Harness!Undo
  PROVE  HInv'
<1>. USE DEF HInv
<1>1. /\ doing \in {"write", "undo"} /\ rollback = before /\ nth \in 1..Harness!N /\ nth' \in Nat \ {0}
           /\ doing' \in {"write", "undo"}
      /\ UNCHANGED <<official, backups, rollback, source, before>>
      /\ before # Harness!Nothing => \E k \in 1..Len(backups) : backups[k] = before
  BY DEF Harness!Write, Harness!WriteFails, Harness!Undo, HeldTwice, ToolTypes, Harness!Begins
<1>2. live' \in Harness!Copies
  <2>1. CASE Harness!Write
    BY <2>1 DEF Harness!Write, ToolTypes, Harness!Copies, Harness!Content
  <2>2. CASE Harness!WriteFails
    BY <2>2 DEF Harness!WriteFails, ToolTypes
  <2>3. CASE Harness!Undo
    BY <1>1, <2>3, Places DEF Harness!Undo, Harness!GivesBack, ToolTypes, Harness!Copies
  <2>. QED  BY <2>1, <2>2, <2>3
<1>3. ToolTypes'
  BY <1>1, <1>2 DEF ToolTypes, Steps
<1>4. Untouched'
  BY <1>1 DEF Untouched
<1>5. doing' = "undo" => \A j \in 1..Harness!N : j < nth' => live'[CopyOrder[j]] = before[CopyOrder[j]]
  <2>1. CASE Harness!Write
    BY <2>1 DEF Harness!Write
  <2>2. CASE Harness!WriteFails
    BY <2>2 DEF Harness!WriteFails, Harness!Begins
  <2>3. CASE Harness!Undo
    <3>1. nth' = nth + 1 /\ live' = [live EXCEPT ![CopyOrder[nth]] = before[CopyOrder[nth]]] /\ doing = "undo"
      BY <1>1, <2>3 DEF Harness!Undo, Harness!GivesBack
    <3>2. ASSUME NEW j \in 1..Harness!N, j < nth + 1 PROVE live'[CopyOrder[j]] = before[CopyOrder[j]]
      <4>1. CopyOrder[j] \in Files /\ CopyOrder[nth] \in Files /\ live \in Harness!Copies
        BY <1>1, Places DEF ToolTypes
      <4>2. CASE CopyOrder[j] = CopyOrder[nth]
        BY <3>1, <4>1, <4>2 DEF Harness!Copies
      <4>3. CASE CopyOrder[j] # CopyOrder[nth]
        <5>1. j < nth
          BY <1>1, <3>2, <4>3
        <5>. QED  BY <3>1, <4>1, <4>3, <5>1 DEF HeldTwice, Harness!Copies
      <4>. QED  BY <4>2, <4>3
    <3>. QED  BY <3>1, <3>2
  <2>. QED  BY <2>1, <2>2, <2>3
<1>6. HeldTwice'
  BY <1>1, <1>5 DEF HeldTwice
<1>. QED  BY <1>3, <1>4, <1>6

LEMMA HStep == Ordered /\ HInv /\ [Harness!Next]_(Harness!vars) => HInv'
<1>. SUFFICES ASSUME Ordered, HInv, [Harness!Next]_(Harness!vars) PROVE HInv'
  OBVIOUS
<1>1. CASE UNCHANGED Harness!vars
  BY <1>1 DEF Harness!vars, HInv, ToolTypes, Untouched, HeldTwice, Partial
<1>. QED  BY <1>1, HRests, HApply, HSnapshot, HBackup, HPrune, HHold, HWrite DEF Harness!Next

\* The version from before the first connect never holds anything the client
\* wrote; an apply that fails leaves the files as they were; and nothing is
\* overwritten before all of it is in a version that can be chosen, whatever
\* fails or is killed in between (snapshot_harness, apply_codex and its kin).
THEOREM FilesComeBackAlways ==
  Harness!OrderAssumption /\ Harness!KeepAssumption =>
    (Harness!Spec => [](Harness!FirstIsTheUsers /\ Harness!UndoneOnError /\ Harness!SavedBeforeWritten))
<1>. SUFFICES ASSUME Ordered PROVE Harness!Spec =>
                       [](Harness!FirstIsTheUsers /\ Harness!UndoneOnError /\ Harness!SavedBeforeWritten)
  BY DEF Ordered
<1>1. Harness!Init => HInv
  BY HInit
<1>2. HInv /\ [Harness!Next]_(Harness!vars) => HInv'
  BY HStep
<1>3. HInv => Harness!FirstIsTheUsers /\ Harness!UndoneOnError /\ Harness!SavedBeforeWritten
  <2>. SUFFICES ASSUME HInv PROVE Harness!FirstIsTheUsers /\ Harness!UndoneOnError /\ Harness!SavedBeforeWritten
    OBVIOUS
  <2>1. Harness!FirstIsTheUsers
    BY DEF HInv, Untouched, Harness!FirstIsTheUsers
  <2>2. Harness!UndoneOnError
    BY DEF HInv, HeldTwice, Harness!UndoneOnError
  <2>3. Harness!SavedBeforeWritten
    BY DEF HInv, ToolTypes, HeldTwice, Harness!SavedBeforeWritten, Harness!ToSet
  <2>. QED  BY <2>1, <2>2, <2>3
<1>. QED  BY <1>1, <1>2, <1>3, PTL DEF Harness!Spec

-----------------------------------------------------------------------------
(* The conversations of Codex (CodexSessions), for any conversations, routes *)
(* and models.                                                             *)
(*                                                                         *)
(* Rewriting is a fixed point of its own (Rewrites); a sync that ends well *)
(* has brought every record there, file by file (Come).                    *)
CONSTANTS Dialogs, Routes, Models, Official, Fallback, BaseOf, Parked, MaxTurns
VARIABLES route, rollout, thread, index, recent, version, owner, syncing, todo, temp, synced, fetched

Talk == INSTANCE CodexSessions WITH pc <- syncing, Threads <- Dialogs

Syncs == Talk!RouteAssumption /\ Talk!ThreadAssumption

\* Nothing of it changes when it is rewritten for the route.
Fixed(x) == Talk!NewProvider(x.provider) = x.provider /\ Talk!ModelFor(x.model) = x.model
Done(t) == rollout[t].here => Fixed(rollout[t])

CodexTypes ==
  /\ route \in Routes /\ rollout \in [Dialogs -> Talk!Rollout] /\ thread \in [Dialogs -> Talk!Row]
  /\ index \in [Dialogs -> Talk!Providers \ {""}] /\ recent \in Models
  /\ syncing \in {"idle", "rollouts", "index", "recent", "threads", "fetch", "owner"}

\* The copy beside a rollout is that rollout rewritten.
Beside ==
  temp.of # "none" => /\ syncing = "rollouts" /\ temp.of \in todo
                      /\ temp.of \in Dialogs => temp.file = Talk!Rewritten(rollout[temp.of])

\* How far a sync has come: what it has done is fixed, and stays so, as nobody
\* else works on the files while it runs.
Come ==
  /\ syncing = "rollouts" => \A t \in Dialogs : t \notin todo /\ t \notin fetched => Done(t)
  /\ synced \/ syncing \in {"index", "recent", "threads", "fetch"} =>
       \A t \in Dialogs : t \notin fetched => Done(t)
  /\ synced \/ syncing \in {"recent", "threads", "fetch"} =>
       \A t \in Dialogs : Talk!NewProvider(index[t]) = index[t]
  /\ synced \/ syncing \in {"threads", "fetch"} => Talk!ModelFor(recent) = recent
  /\ synced \/ syncing = "fetch" => \A t \in Dialogs : Fixed(thread[t])
  /\ synced \/ syncing # "idle" => version = route.provider
  /\ synced => owner = route.mode

\* Who was put back.
PutBack ==
  /\ syncing = "fetch" => \A t \in Dialogs : t \notin todo /\ thread[t].here /\ Parked[t].here => rollout[t].here
  /\ Talk!NoDeadRows

CxInv == CodexTypes /\ Beside /\ Come /\ PutBack

LEMMA FirstOf ==
  ASSUME NEW S, NEW c \in Seq(S)
  PROVE  /\ Talk!ToSet(c) = {c[n] : n \in 1..Len(c)} /\ Talk!ToSet(c) \subseteq S
         /\ c = <<>> <=> Talk!ToSet(c) = {}
         /\ c # <<>> => Head(c) = c[1] /\ Head(c) \in Talk!ToSet(c)
<1>1. Talk!ToSet(c) = {c[n] : n \in 1..Len(c)}
  BY DEF Talk!ToSet
<1>2. c # <<>> => Head(c) = c[1] /\ 1 \in 1..Len(c)
  OBVIOUS
<1>3. \A n \in 1..Len(c) : c[n] \in S
  OBVIOUS
<1>4. c = <<>> => Len(c) = 0
  OBVIOUS
<1>. QED  BY <1>1, <1>2, <1>3, <1>4

LEMMA ModelFacts ==
  ASSUME Syncs, route \in Routes
  PROVE  /\ \A m \in Models : Talk!ModelFor(m) \in Models /\ Talk!ModelFor(Talk!ModelFor(m)) = Talk!ModelFor(m)
         /\ \A m \in Models : Talk!ModelFor(m) = m => IF route.mode = "chatgpt" THEN m \in Official
                                            ELSE route.catalog # <<>> => m \in Talk!ToSet(route.catalog)
<1>. DEFINE slugs == Talk!ToSet(route.catalog)
<1>1. /\ Official \subseteq Models /\ Fallback \in Official /\ BaseOf \in [Models -> Models]
      /\ route.model \in Models \cup {""} /\ slugs \subseteq Models
      /\ route.catalog # <<>> => route.model \in slugs
      /\ slugs # {} => Head(route.catalog) \in slugs
      /\ route.catalog = <<>> <=> slugs = {}
  <2>1. route.catalog \in Seq(Models) /\ route.model \in Models \cup {""}
        /\ (route.catalog # <<>> => route.model \in slugs)
    BY DEF Syncs, Talk!RouteAssumption
  <2>2. /\ slugs \subseteq Models /\ (route.catalog = <<>> <=> slugs = {})
        /\ route.catalog # <<>> => Head(route.catalog) \in slugs
    BY <2>1, FirstOf
  <2>. HIDE DEF slugs
  <2>. QED  BY <2>1, <2>2 DEF Syncs, Talk!RouteAssumption
<1>2. CASE route.mode = "chatgpt"
  BY <1>1, <1>2 DEF Talk!ModelFor
<1>3. CASE route.mode # "chatgpt"
  <2>1. ASSUME NEW m \in Models
        PROVE  Talk!ModelFor(m) = IF m \in slugs THEN m
                                  ELSE IF BaseOf[m] \in slugs THEN BaseOf[m]
                                  ELSE IF route.model # "" THEN route.model
                                  ELSE IF slugs # {} THEN Head(route.catalog) ELSE m
    BY <1>3 DEF Talk!ModelFor
  <2>. HIDE DEF slugs
  <2>2. ASSUME NEW m \in Models
        PROVE  Talk!ModelFor(m) \in Models /\ (slugs # {} => Talk!ModelFor(m) \in slugs)
               /\ (slugs = {} => Talk!ModelFor(m) = IF route.model # "" THEN route.model ELSE m)
    BY <1>1, <2>1
  <2>3. ASSUME NEW m \in Models PROVE Talk!ModelFor(Talk!ModelFor(m)) = Talk!ModelFor(m)
    BY <2>1, <2>2
  <2>4. ASSUME NEW m \in Models, Talk!ModelFor(m) = m, route.catalog # <<>> PROVE m \in slugs
    BY <1>1, <2>2, <2>4
  <2>. QED  BY <1>3, <2>2, <2>3, <2>4 DEF slugs
<1>. QED  BY <1>2, <1>3

LEMMA ProviderFacts ==
  ASSUME route \in Routes
  PROVE  /\ Talk!RunsOn(route) \in Talk!Providers \ {""} /\ (Talk!Target # "" => Talk!Target = Talk!RunsOn(route))
         /\ \A p \in Talk!Providers :
              /\ Talk!NewProvider(p) \in Talk!Providers
              /\ Talk!NewProvider(Talk!NewProvider(p)) = Talk!NewProvider(p)
              /\ p # "" => Talk!NewProvider(p) # ""
              /\ Talk!Target # "" => Talk!NewProvider(p) = Talk!RunsOn(route)
BY DEF Talk!RunsOn, Talk!Target, Talk!NewProvider, Talk!Providers

LEMMA Rewrites ==
  ASSUME Syncs, route \in Routes, NEW x, x \in Talk!Rollout \/ x \in Talk!Row
  PROVE  /\ Talk!Rewritten(x).here <=> x.here
         /\ x \in Talk!Rollout => Talk!Rewritten(x) \in Talk!Rollout /\ Talk!Rewritten(x).turns = x.turns
         /\ x \in Talk!Row => Talk!Rewritten(x) \in Talk!Row
         /\ Fixed(Talk!Rewritten(x))
         /\ Fixed(x) => Talk!Rewritten(x) = x
<1>1. x.provider \in Talk!Providers /\ x.model \in Models
  BY DEF Talk!Rollout, Talk!Row
<1>. DEFINE p == Talk!NewProvider(x.provider)
            m == Talk!ModelFor(x.model)
<1>2. p \in Talk!Providers /\ m \in Models /\ Talk!NewProvider(p) = p /\ Talk!ModelFor(m) = m
  BY <1>1, ModelFacts, ProviderFacts
<1>3. Fixed(x) <=> p = x.provider /\ m = x.model
  BY DEF Fixed
<1>4. Talk!Rewritten(x) = [x EXCEPT !.provider = p, !.model = m]
  BY DEF Talk!Rewritten
<1>. HIDE DEF p, m
<1>. DEFINE y == [x EXCEPT !.provider = p, !.model = m]
<1>5. CASE x \in Talk!Rollout
  <2>1. y \in Talk!Rollout
    BY <1>2, <1>5 DEF Talk!Rollout
  <2>2. (y.here <=> x.here) /\ y.turns = x.turns
    BY <1>5 DEF Talk!Rollout
  <2>3. y.provider = p /\ y.model = m
    BY <1>5 DEF Talk!Rollout
  <2>4. p = x.provider /\ m = x.model => y = x
    BY <1>5 DEF Talk!Rollout
  <2>5. x \notin Talk!Row
    BY <1>5 DEF Talk!Rollout, Talk!Row
  <2>. HIDE DEF y
  <2>6. Fixed(y)
    BY <1>2, <2>3 DEF Fixed
  <2>. QED  BY <1>3, <1>4, <2>1, <2>2, <2>4, <2>5, <2>6 DEF y
<1>6. CASE x \in Talk!Row
  <2>1. y \in Talk!Row
    BY <1>2, <1>6 DEF Talk!Row
  <2>2. y.here <=> x.here
    BY <1>6 DEF Talk!Row
  <2>3. y.provider = p /\ y.model = m
    BY <1>6 DEF Talk!Row
  <2>4. p = x.provider /\ m = x.model => y = x
    BY <1>6 DEF Talk!Row
  <2>5. x \notin Talk!Rollout
    BY <1>6 DEF Talk!Rollout, Talk!Row
  <2>. HIDE DEF y
  <2>6. Fixed(y)
    BY <1>2, <2>3 DEF Fixed
  <2>. QED  BY <1>3, <1>4, <2>1, <2>2, <2>4, <2>5, <2>6 DEF y
<1>. QED  BY <1>5, <1>6

LEMMA CxInit == Syncs /\ Talk!Init => CxInv
<1>. SUFFICES ASSUME Syncs, Talk!Init PROVE CxInv
  OBVIOUS
<1>1. PICK old \in Routes, lost \in SUBSET Dialogs :
        /\ rollout = [t \in Dialogs |-> [here |-> t \notin lost, provider |-> Talk!RunsOn(old),
                                         model |-> Talk!FirstModel(old), turns |-> IF t \in lost THEN 0 ELSE 1]]
        /\ thread = [t \in Dialogs |-> [here |-> TRUE, provider |-> Talk!RunsOn(old),
             model |-> Talk!FirstModel(old)]]
        /\ index = [t \in Dialogs |-> Talk!RunsOn(old)]
        /\ recent = Talk!FirstModel(old)
  BY DEF Talk!Init
<1>2. Talk!RunsOn(old) \in Talk!Providers \ {""}
  BY DEF Talk!RunsOn, Talk!Providers
<1>3. Talk!FirstModel(old) \in Models
  <2>1. old.catalog \in Seq(Models) /\ old.model \in Models \cup {""} /\ Fallback \in Models
    BY DEF Syncs, Talk!RouteAssumption
  <2>2. old.catalog # <<>> => Head(old.catalog) \in Models
    BY <2>1, FirstOf
  <2>. QED  BY <2>1, <2>2 DEF Talk!FirstModel
<1>. DEFINE turn(t) == IF t \in lost THEN 0 ELSE 1
<1>4. \A t \in Dialogs : turn(t) \in 0..MaxTurns /\ (t \notin lost) \in BOOLEAN
  BY DEF Syncs, Talk!ThreadAssumption
<1>5. rollout \in [Dialogs -> Talk!Rollout]
  BY <1>1, <1>2, <1>3, <1>4 DEF Talk!Rollout
<1>6. thread \in [Dialogs -> Talk!Row] /\ index \in [Dialogs -> Talk!Providers \ {""}] /\ recent \in Models
  BY <1>1, <1>2, <1>3 DEF Talk!Row
<1>7. syncing = "idle" /\ synced = FALSE /\ temp.of = "none" /\ route \in Routes
  BY DEF Talk!Init, Talk!NoTemp
<1>. QED  BY <1>5, <1>6, <1>7 DEF CxInv, CodexTypes, Beside, Come, PutBack, Talk!NoDeadRows

\* One rollout is replaced by one that is there if it was, with no turn less.
LEMMA RolloutTo ==
  ASSUME rollout \in [Dialogs -> Talk!Rollout], NEW t \in Dialogs, NEW next \in Talk!Rollout,
         rollout' = [rollout EXCEPT ![t] = next], rollout[t].here => next.here /\ next.turns >= rollout[t].turns,
         \A u \in Dialogs : rollout[u].turns >= rollout[u].turns
  PROVE  /\ rollout' \in [Dialogs -> Talk!Rollout]
         /\ \A u \in Dialogs : rollout[u].here => rollout'[u].here /\ rollout'[u].turns >= rollout[u].turns
<1>1. rollout' \in [Dialogs -> Talk!Rollout]
  OBVIOUS
<1>2. ASSUME NEW u \in Dialogs,
             rollout[u].here PROVE rollout'[u].here /\ rollout'[u].turns >= rollout[u].turns
  <2>1. CASE u = t
    <3>1. rollout'[u] = next
      BY <2>1
    <3>. QED  BY <1>2, <2>1, <3>1
  <2>2. CASE u # t
    <3>1. rollout'[u] = rollout[u]
      BY <2>2
    <3>. QED  BY <1>2, <3>1
  <2>. QED  BY <2>1, <2>2
<1>. QED  BY <1>1, <1>2

\* No rollout is taken away or loses a turn.
LEMMA CxTurns ==
  ASSUME Syncs, CxInv, [Talk!Next]_(Talk!vars)
  PROVE  /\ rollout' \in [Dialogs -> Talk!Rollout]
         /\ \A t \in Dialogs : rollout[t].here => rollout'[t].here /\ rollout'[t].turns >= rollout[t].turns
         /\ thread' \in [Dialogs -> Talk!Row] /\ \A t \in Dialogs : thread'[t].here <=> thread[t].here
<1>1. /\ rollout \in [Dialogs -> Talk!Rollout] /\ thread \in [Dialogs -> Talk!Row] /\ route \in Routes
           /\ MaxTurns \in Nat
      /\ Parked \in [Dialogs -> Talk!Rollout] /\ "none" \notin Dialogs
  BY DEF CxInv, CodexTypes, Syncs, Talk!ThreadAssumption
<1>0. \A t \in Dialogs : rollout[t] \in Talk!Rollout /\ rollout[t].turns \in Nat
        /\ rollout[t].turns >= rollout[t].turns
  BY <1>1 DEF Talk!Rollout
<1>2. CASE UNCHANGED <<rollout, thread>>
  BY <1>0, <1>1, <1>2
<1>3. ASSUME NEW t \in Dialogs, Talk!Chat(t)
      PROVE  /\ rollout' \in [Dialogs -> Talk!Rollout] /\ thread' = thread
             /\ \A u \in Dialogs : rollout[u].here => rollout'[u].here /\ rollout'[u].turns >= rollout[u].turns
  <2>. DEFINE more == rollout[t].turns + 1
              next == [rollout[t] EXCEPT !.turns = more]
  <2>1. more \in 0..MaxTurns /\ more >= rollout[t].turns
    BY <1>0, <1>1, <1>3 DEF Talk!Chat
  <2>. HIDE DEF more
  <2>2. next \in Talk!Rollout /\ (next.here <=> rollout[t].here) /\ next.turns = more
    <3>1. rollout[t] \in Talk!Rollout
      BY <1>0
    <3>2. next \in Talk!Rollout
      BY <2>1, <3>1 DEF Talk!Rollout
    <3>3. (next.here <=> rollout[t].here) /\ next.turns = more
      BY <3>1 DEF Talk!Rollout
    <3>. QED  BY <3>2, <3>3
  <2>3. rollout' = [rollout EXCEPT ![t] = next] /\ thread' = thread
    BY <1>1, <1>3 DEF Talk!Chat, more
  <2>. HIDE DEF next
  <2>. QED  BY <1>0, <1>1, <2>1, <2>2, <2>3, RolloutTo
<1>4. ASSUME NEW t \in Dialogs, Talk!Replace(t)
      PROVE  /\ rollout' \in [Dialogs -> Talk!Rollout] /\ thread' = thread
             /\ \A u \in Dialogs : rollout[u].here => rollout'[u].here /\ rollout'[u].turns >= rollout[u].turns
  <2>. DEFINE next == Talk!Rewritten(rollout[t])
  <2>1. rollout' = [rollout EXCEPT ![t] = next] /\ thread' = thread
    BY <1>1, <1>4 DEF CxInv, Talk!Replace, Beside
  <2>2. next \in Talk!Rollout /\ (next.here <=> rollout[t].here) /\ next.turns = rollout[t].turns
    BY <1>0, <1>1, Rewrites
  <2>. HIDE DEF next
  <2>. QED  BY <1>0, <1>1, <2>1, <2>2, RolloutTo
<1>5. ASSUME NEW t \in Dialogs, Talk!Fetch(t)
      PROVE  /\ rollout' \in [Dialogs -> Talk!Rollout] /\ thread' = thread
             /\ \A u \in Dialogs : rollout[u].here => rollout'[u].here /\ rollout'[u].turns >= rollout[u].turns
  <2>1. CASE Talk!Wanted(t)
    <3>1. rollout' = [rollout EXCEPT ![t] = Parked[t]] /\ ~rollout[t].here /\ Parked[t] \in Talk!Rollout
            /\ thread' = thread
        BY <1>1, <1>5, <2>1 DEF Talk!Fetch, Talk!Wanted
    <3>. QED  BY <1>0, <1>1, <3>1, RolloutTo
  <2>2. CASE ~Talk!Wanted(t)
    BY <1>0, <1>1, <1>5, <2>2 DEF Talk!Fetch
  <2>. QED  BY <2>1, <2>2
<1>6. CASE Talk!RewriteThreads
  <2>1. rollout' = rollout /\ thread' = [t \in Dialogs |-> Talk!Rewritten(thread[t])]
    BY <1>6 DEF Talk!RewriteThreads
  <2>2. \A t \in Dialogs : Talk!Rewritten(thread[t]) \in Talk!Row
          /\ (Talk!Rewritten(thread[t]).here <=> thread[t].here)
    BY <1>1, Rewrites
  <2>. QED  BY <1>0, <1>1, <2>1, <2>2
<1>7. CASE Talk!Begin \/ Talk!RolloutsDone \/ Talk!Index \/ Talk!Recent \/ Talk!Finish \/ Talk!Stop \/ UNCHANGED Talk!vars
  BY <1>2, <1>7 DEF Talk!Begin, Talk!RolloutsDone, Talk!Index, Talk!Recent, Talk!Finish, Talk!Stop,
                    Talk!Unfinished, Talk!vars
<1>8. ASSUME (\E r \in Routes : Talk!Switch(r)) \/ (\E t \in Dialogs : Talk!Copy(t)) PROVE UNCHANGED <<rollout,
             thread>>
  BY <1>8 DEF Talk!Switch, Talk!Copy
<1>9. CASE \E t \in Dialogs : Talk!Chat(t) \/ Talk!Replace(t) \/ Talk!Fetch(t)
  BY <1>0, <1>1, <1>3, <1>4, <1>5, <1>9
<1>. QED  BY <1>2, <1>6, <1>7, <1>8, <1>9 DEF Talk!Next, Talk!SyncStep

LEMMA CxTypes ==
  ASSUME Syncs, CxInv, [Talk!Next]_(Talk!vars)
  PROVE  CodexTypes'
<1>1. CodexTypes
  BY DEF CxInv
<1>2. route' \in Routes
  BY <1>1 DEF CodexTypes, Talk!Next, Talk!SyncStep, Talk!Begin, Talk!RolloutsDone, Talk!Index, Talk!Recent,
              Talk!RewriteThreads, Talk!Finish, Talk!Copy, Talk!Replace,
              Talk!Fetch, Talk!Stop, Talk!Switch, Talk!Chat, Talk!vars
<1>3. syncing' \in {"idle", "rollouts", "index", "recent", "threads", "fetch", "owner"}
  BY <1>1 DEF CodexTypes, Talk!Next, Talk!SyncStep, Talk!Begin, Talk!RolloutsDone, Talk!Index, Talk!Recent,
              Talk!RewriteThreads, Talk!Finish, Talk!Copy, Talk!Replace,
              Talk!Fetch, Talk!Stop, Talk!Switch, Talk!Chat, Talk!vars
<1>4. index' \in [Dialogs -> Talk!Providers \ {""}]
  <2>1. CASE Talk!Index
    BY <1>1, <2>1, ProviderFacts DEF CodexTypes, Talk!Index
  <2>2. CASE ~Talk!Index
    BY <1>1, <2>2 DEF CodexTypes, Talk!Next, Talk!SyncStep, Talk!Begin, Talk!RolloutsDone, Talk!Recent,
                      Talk!RewriteThreads, Talk!Finish, Talk!Copy, Talk!Replace,
                      Talk!Fetch, Talk!Stop, Talk!Switch, Talk!Chat, Talk!vars
  <2>. QED  BY <2>1, <2>2
<1>5. recent' \in Models
  <2>1. CASE Talk!Recent
    BY <1>1, <2>1, ModelFacts DEF CodexTypes, Talk!Recent
  <2>2. CASE ~Talk!Recent
    BY <1>1, <2>2 DEF CodexTypes, Talk!Next, Talk!SyncStep, Talk!Begin, Talk!RolloutsDone, Talk!Index,
                      Talk!RewriteThreads, Talk!Finish, Talk!Copy, Talk!Replace,
                      Talk!Fetch, Talk!Stop, Talk!Switch, Talk!Chat, Talk!vars
  <2>. QED  BY <2>1, <2>2
<1>. QED  BY <1>2, <1>3, <1>4, <1>5, CxTurns DEF CodexTypes

LEMMA CxBeside ==
  ASSUME Syncs, CxInv, [Talk!Next]_(Talk!vars)
  PROVE  Beside'
<1>1. Beside /\ "none" \notin Dialogs
  BY DEF CxInv, Syncs, Talk!ThreadAssumption
<1>2. ASSUME NEW t \in Dialogs, Talk!Copy(t) PROVE Beside'
  <2>1. /\ temp' = [of |-> t, file |-> Talk!Rewritten(rollout[t])] /\ syncing = "rollouts" /\ t \in todo
        /\ UNCHANGED <<route, rollout, syncing, todo>>
    BY <1>2 DEF Talk!Copy
  <2>2. Talk!Rewritten(rollout[t])' = Talk!Rewritten(rollout[t])
    BY <2>1 DEF Talk!Rewritten, Talk!NewProvider, Talk!Target, Talk!ModelFor
  <2>3. temp'.of = t /\ temp'.file = Talk!Rewritten(rollout[t])
    BY <2>1
  <2>4. syncing' = "rollouts" /\ temp'.of \in todo'
    BY <2>1, <2>3
  <2>5. temp'.file = Talk!Rewritten(rollout[temp.of])'
    BY <2>1, <2>3 DEF Talk!Rewritten, Talk!NewProvider, Talk!Target, Talk!ModelFor
  <2>. QED  BY <2>4, <2>5 DEF Beside
<1>3. CASE \/ \E t \in Dialogs : Talk!Replace(t)
           \/ Talk!Stop
  BY <1>3 DEF Beside, Talk!Replace, Talk!Stop, Talk!NoTemp
<1>4. CASE Talk!Begin \/ Talk!Index \/ Talk!Recent \/ Talk!RewriteThreads \/ Talk!Finish \/ (\E r \in Routes : Talk!Switch(r))
           \/ \E t \in Dialogs : Talk!Chat(t) \/ Talk!Fetch(t)
  <2>1. syncing # "rollouts" /\ temp' = temp
    BY <1>4 DEF Talk!Begin, Talk!Index, Talk!Recent, Talk!RewriteThreads, Talk!Finish, Talk!Switch,
                Talk!Chat, Talk!Fetch
  <2>. QED  BY <1>1, <2>1 DEF Beside
<1>5. CASE Talk!RolloutsDone
  BY <1>1, <1>5 DEF Beside, Talk!RolloutsDone
<1>6. CASE UNCHANGED Talk!vars
  BY <1>1, <1>6 DEF Beside, Talk!Rewritten, Talk!NewProvider, Talk!Target, Talk!ModelFor, Talk!vars
<1>. QED  BY <1>2, <1>3, <1>4, <1>5, <1>6 DEF Talk!Next, Talk!SyncStep

\* What is fixed stays so as long as the route does.
LEMMA FixedTo ==
  ASSUME route' = route, NEW t
  PROVE  /\ \A y : rollout'[t] = y /\ Fixed(y) => Fixed(rollout[t])'
         /\ \A y : thread'[t] = y /\ Fixed(y) => Fixed(thread[t])'
         /\ \A y : index'[t] = y /\ Talk!NewProvider(y) = y => (Talk!NewProvider(index[t]) = index[t])'
         /\ \A y : recent' = y /\ Talk!ModelFor(y) = y => (Talk!ModelFor(recent) = recent)'
BY DEF Fixed, Talk!NewProvider, Talk!Target, Talk!ModelFor

LEMMA CxCome ==
  ASSUME Syncs, CxInv, [Talk!Next]_(Talk!vars)
  PROVE  Come'
<1>. USE DEF CxInv
<1>1. CASE \E r \in Routes : Talk!Switch(r)
  BY <1>1 DEF Talk!Switch, Come
<1>2. ASSUME NEW t \in Dialogs, Talk!Chat(t) PROVE Come'
  <2>. DEFINE more == rollout[t].turns + 1
              next == [rollout[t] EXCEPT !.turns = more]
  <2>1. /\ rollout' = [rollout EXCEPT ![t] = next] /\ syncing = "idle" /\ rollout[t].here
        /\ UNCHANGED <<route, thread, index, recent, version, owner, syncing, synced, fetched>>
    BY <1>2 DEF Talk!Chat, CodexTypes
  <2>. HIDE DEF more
  <2>2. next.provider = rollout[t].provider /\ next.model = rollout[t].model
    BY DEF CodexTypes, Talk!Rollout
  <2>3. Fixed(rollout[t]) => Fixed(next)
    BY <2>2 DEF Fixed
  <2>. HIDE DEF next
  <2>4. ASSUME NEW u \in Dialogs, Done(u) PROVE Done(u)'
    <3>1. CASE u = t
      BY <2>1, <2>3, <2>4, <3>1, FixedTo DEF Done, CodexTypes
    <3>2. CASE u # t
      BY <2>1, <2>4, <3>2, FixedTo DEF Done, CodexTypes
    <3>. QED  BY <3>1, <3>2
  <2>5. synced => \A u \in Dialogs : u \notin fetched => Done(u)'
    BY <2>4 DEF Come
  <2>6. synced => \A u \in Dialogs : Fixed(thread[u])' /\ (Talk!NewProvider(index[u]) = index[u])'
    BY <2>1, FixedTo DEF Come
  <2>7. synced => (Talk!ModelFor(recent) = recent)'
    BY <2>1, FixedTo DEF Come
  <2>8. synced => version' = route'.provider /\ owner' = route'.mode
    BY <2>1 DEF Come
  <2>. QED  BY <2>1, <2>5, <2>6, <2>7, <2>8 DEF Come
<1>3. CASE Talk!SyncStep \/ Talk!Stop \/ UNCHANGED Talk!vars
  <2>1. route' = route
    BY <1>3 DEF Talk!SyncStep, Talk!Begin, Talk!RolloutsDone, Talk!Index, Talk!Recent, Talk!RewriteThreads,
                Talk!Finish, Talk!Copy, Talk!Replace, Talk!Fetch, Talk!Stop, Talk!vars
  <2>2. \A u \in Dialogs : Fixed(thread[u]) => Fixed(thread[u])'
    <3>1. CASE Talk!RewriteThreads
      BY <2>1, <3>1, Rewrites, FixedTo DEF Talk!RewriteThreads, CodexTypes
    <3>2. CASE ~Talk!RewriteThreads
      <4>1. thread' = thread
        BY <1>3, <3>2 DEF Talk!SyncStep, Talk!Begin, Talk!RolloutsDone, Talk!Index, Talk!Recent,
                          Talk!Finish, Talk!Copy, Talk!Replace, Talk!Fetch, Talk!Stop, Talk!vars
      <4>. QED  BY <2>1, <4>1, FixedTo
    <3>. QED  BY <3>1, <3>2
  <2>3. \A u \in Dialogs : Talk!NewProvider(index[u]) = index[u] => (Talk!NewProvider(index[u]) = index[u])'
    <3>1. CASE Talk!Index
      BY <2>1, <3>1, FixedTo DEF Talk!Index, CodexTypes
    <3>2. CASE ~Talk!Index
      <4>1. index' = index
        BY <1>3, <3>2 DEF Talk!SyncStep, Talk!Begin, Talk!RolloutsDone, Talk!RewriteThreads, Talk!Recent,
                          Talk!Finish, Talk!Copy, Talk!Replace, Talk!Fetch, Talk!Stop, Talk!vars
      <4>. QED  BY <2>1, <4>1, FixedTo
    <3>. QED  BY <3>1, <3>2
  <2>4. Talk!ModelFor(recent) = recent => (Talk!ModelFor(recent) = recent)'
    <3>1. CASE Talk!Recent
      BY <2>1, <3>1, FixedTo DEF Talk!Recent
    <3>2. CASE ~Talk!Recent
      <4>1. recent' = recent
        BY <1>3, <3>2 DEF Talk!SyncStep, Talk!Begin, Talk!RolloutsDone, Talk!RewriteThreads, Talk!Index,
                          Talk!Finish, Talk!Copy, Talk!Replace, Talk!Fetch, Talk!Stop, Talk!vars
      <4>. QED  BY <2>1, <4>1, FixedTo
    <3>. QED  BY <3>1, <3>2
  <2>5. \A u \in Dialogs : u \notin fetched' /\ ((u \notin fetched => Done(u)) \/ Talk!Replace(u)) => Done(u)'
    <3>1. ASSUME NEW t \in Dialogs, Talk!Replace(t), NEW u \in Dialogs, u \notin fetched',
                 (u \notin fetched => Done(u)) \/ Talk!Replace(u)
          PROVE  Done(u)'
      <4>. DEFINE next == Talk!Rewritten(rollout[t])
      <4>1. rollout' = [rollout EXCEPT ![t] = next] /\ fetched' = fetched \ {t}
        BY <3>1 DEF Talk!Replace, Beside, Syncs, Talk!ThreadAssumption
      <4>2. Fixed(next)
        BY Rewrites DEF CodexTypes
      <4>. HIDE DEF next
      <4>3. CASE u = t
        BY <2>1, <4>1, <4>2, <4>3, FixedTo DEF Done, CodexTypes
      <4>4. CASE u # t
        <5>1. ~Talk!Replace(u)
          BY <3>1, <4>4 DEF Talk!Replace
        <5>. QED  BY <2>1, <3>1, <4>1, <4>4, <5>1, FixedTo DEF Done, CodexTypes
      <4>. QED  BY <4>3, <4>4
    <3>2. ASSUME NEW t \in Dialogs, Talk!Fetch(t), NEW u \in Dialogs, u \notin fetched',
                 (u \notin fetched => Done(u)) \/ Talk!Replace(u)
          PROVE  Done(u)'
      <4>1. fetched \subseteq fetched' /\ rollout'[u] = rollout[u]
        BY <3>2 DEF Talk!Fetch, CodexTypes
      <4>2. ~Talk!Replace(u)
        BY <3>2 DEF Talk!Fetch, Talk!Replace, Beside, Syncs, Talk!ThreadAssumption
      <4>. QED  BY <2>1, <3>2, <4>1, <4>2, FixedTo DEF Done
    <3>3. CASE ~\E t \in Dialogs : Talk!Replace(t) \/ Talk!Fetch(t)
      <4>1. rollout' = rollout /\ fetched' = fetched
        BY <1>3, <3>3 DEF Talk!SyncStep, Talk!Begin, Talk!RolloutsDone, Talk!RewriteThreads, Talk!Index,
                          Talk!Recent, Talk!Finish, Talk!Copy, Talk!Stop, Talk!Unfinished, Talk!vars
      <4>. QED  BY <2>1, <3>3, <4>1, FixedTo DEF Done
    <3>. QED  BY <3>1, <3>2, <3>3
  <2>6. /\ syncing' = "index" => syncing = "index" \/ Talk!RolloutsDone
        /\ syncing' = "recent" => syncing = "recent" \/ Talk!Index
        /\ syncing' = "threads" => syncing = "threads" \/ Talk!Recent
        /\ syncing' = "fetch" => syncing = "fetch" \/ Talk!RewriteThreads
    <3>1. CASE Talk!RolloutsDone \/ Talk!Index \/ Talk!Recent \/ Talk!RewriteThreads
      BY <3>1 DEF Talk!RolloutsDone, Talk!Index, Talk!Recent, Talk!RewriteThreads
    <3>2. CASE Talk!Begin \/ Talk!Finish \/ Talk!Stop
      BY <3>2 DEF Talk!Begin, Talk!Finish, Talk!Stop
    <3>3. CASE UNCHANGED Talk!vars \/ \E t \in Dialogs : Talk!Copy(t) \/ Talk!Replace(t) \/ Talk!Fetch(t)
      BY <3>3 DEF Talk!Copy, Talk!Replace, Talk!Fetch, Talk!vars
    <3>. QED  BY <1>3, <3>1, <3>2, <3>3 DEF Talk!SyncStep
  <2>14. synced' => synced \/ syncing = "fetch"
    <3>1. CASE Talk!Finish
      BY <3>1 DEF Talk!Finish
    <3>2. ASSUME ~Talk!Finish PROVE synced' => synced
      BY <1>3, <3>2 DEF Talk!SyncStep, Talk!Begin, Talk!RolloutsDone, Talk!Index, Talk!Recent,
                        Talk!RewriteThreads, Talk!Copy, Talk!Replace, Talk!Fetch, Talk!Stop, Talk!vars
    <3>. QED  BY <3>1, <3>2
  <2>7. syncing' = "rollouts" => \A u \in Dialogs : u \notin todo' /\ u \notin fetched' => Done(u)'
    <3>1. CASE Talk!Begin
      BY <3>1 DEF Talk!Begin, Talk!Here, Done
    <3>2. ASSUME NEW t \in Dialogs, Talk!Replace(t), NEW u \in Dialogs, u \notin todo',
                 u \notin fetched' PROVE Done(u)'
      <4>1. todo' = todo \ {t} /\ fetched' = fetched \ {t} /\ syncing = "rollouts"
        BY <3>2 DEF Talk!Replace, Beside, Syncs, Talk!ThreadAssumption
      <4>2. CASE u = t
        BY <2>5, <3>2, <4>2
      <4>3. CASE u # t
        BY <2>5, <3>2, <4>1, <4>3 DEF Come
      <4>. QED  BY <4>2, <4>3
    <3>3. CASE (\E t \in Dialogs : Talk!Copy(t)) \/ UNCHANGED Talk!vars
      <4>1. UNCHANGED <<todo, fetched, syncing>>
        BY <3>3 DEF Talk!Copy, Talk!vars
      <4>. QED  BY <2>5, <4>1 DEF Come
    <3>4. CASE Talk!RolloutsDone \/ Talk!Index \/ Talk!Recent \/ Talk!RewriteThreads \/ Talk!Finish \/ Talk!Stop \/ (\E t \in Dialogs : Talk!Fetch(t))
      <4>1. syncing' # "rollouts"
        BY <3>4 DEF Talk!RolloutsDone, Talk!Index, Talk!Recent, Talk!RewriteThreads, Talk!Finish, Talk!Stop,
                    Talk!Fetch
      <4>. QED  BY <4>1
    <3>. QED  BY <1>3, <3>1, <3>2, <3>3, <3>4 DEF Talk!SyncStep
  <2>8. synced' \/ syncing' \in {"index", "recent", "threads", "fetch"} =>
          \A u \in Dialogs : u \notin fetched' => Done(u)'
    <3>1. synced' \/ syncing' \in {"index", "recent", "threads", "fetch"} =>
            \A u \in Dialogs : u \notin fetched => Done(u)
      BY <2>6, <2>14 DEF Come, Talk!RolloutsDone, Talk!Index, Talk!Recent, Talk!RewriteThreads
    <3>. QED  BY <2>5, <3>1
  <2>9. synced' \/ syncing' \in {"recent", "threads", "fetch"} =>
          \A u \in Dialogs : (Talk!NewProvider(index[u]) = index[u])'
    <3>1. CASE Talk!Index
      <4>1. ASSUME NEW u \in Dialogs PROVE (Talk!NewProvider(index[u]) = index[u])'
        <5>1. index'[u] = Talk!NewProvider(index[u]) /\ index[u] \in Talk!Providers
          BY <3>1 DEF Talk!Index, CodexTypes
        <5>. QED  BY <2>1, <5>1, ProviderFacts, FixedTo DEF CodexTypes
      <4>. QED  BY <4>1
    <3>2. CASE ~Talk!Index
      BY <2>3, <2>6, <2>14, <3>2 DEF Come, Talk!Recent, Talk!RewriteThreads
    <3>. QED  BY <3>1, <3>2
  <2>10. synced' \/ syncing' \in {"threads", "fetch"} => (Talk!ModelFor(recent) = recent)'
    <3>1. CASE Talk!Recent
      BY <2>1, <3>1, ModelFacts, FixedTo DEF Talk!Recent, CodexTypes
    <3>2. CASE ~Talk!Recent
      BY <2>4, <2>6, <2>14, <3>2 DEF Come, Talk!RewriteThreads
    <3>. QED  BY <3>1, <3>2
  <2>11. synced' \/ syncing' = "fetch" => \A u \in Dialogs : Fixed(thread[u])'
    <3>1. CASE Talk!RewriteThreads
      <4>1. ASSUME NEW u \in Dialogs PROVE Fixed(thread[u])'
        <5>1. thread'[u] = Talk!Rewritten(thread[u]) /\ Fixed(Talk!Rewritten(thread[u]))
          BY <3>1, Rewrites DEF Talk!RewriteThreads, CodexTypes
        <5>. QED  BY <2>1, <5>1, FixedTo
      <4>. QED  BY <4>1
    <3>2. CASE ~Talk!RewriteThreads
      BY <2>2, <2>6, <2>14, <3>2 DEF Come
    <3>. QED  BY <3>1, <3>2
  <2>12. synced' \/ syncing' # "idle" => version' = route'.provider
    BY <1>3, <2>1 DEF Come, Talk!SyncStep, Talk!Begin, Talk!RolloutsDone, Talk!Index, Talk!Recent,
                      Talk!RewriteThreads, Talk!Finish, Talk!Copy, Talk!Replace, Talk!Fetch,
                      Talk!Stop, Talk!vars, Beside
  <2>13. synced' => owner' = route'.mode
    BY <1>3, <2>1 DEF Come, Talk!SyncStep, Talk!Begin, Talk!RolloutsDone, Talk!Index, Talk!Recent,
                      Talk!RewriteThreads, Talk!Finish, Talk!Copy, Talk!Replace, Talk!Fetch,
                      Talk!Stop, Talk!vars
  <2>. QED  BY <2>7, <2>8, <2>9, <2>10, <2>11, <2>12, <2>13 DEF Come
<1>. QED  BY <1>1, <1>2, <1>3 DEF Talk!Next

LEMMA CxFound ==
  ASSUME Syncs, CxInv, [Talk!Next]_(Talk!vars)
  PROVE  PutBack'
<1>. USE DEF CxInv
<1>1. \A t \in Dialogs : /\ rollout[t].here => rollout'[t].here
                         /\ thread'[t].here <=> thread[t].here
  BY CxTurns
<1>2. synced' => \A t \in Dialogs : thread[t].here /\ Parked[t].here => rollout[t].here
  <2>1. CASE Talk!Finish
    BY <2>1 DEF Talk!Finish, PutBack
  <2>2. CASE ~Talk!Finish
    <3>1. synced' => synced
      BY <2>2 DEF Talk!Next, Talk!SyncStep, Talk!Begin, Talk!RolloutsDone, Talk!Index, Talk!Recent,
                  Talk!RewriteThreads, Talk!Copy, Talk!Replace, Talk!Fetch, Talk!Stop, Talk!Switch,
                  Talk!Chat, Talk!vars
    <3>. QED  BY <3>1 DEF PutBack, Talk!NoDeadRows
  <2>. QED  BY <2>1, <2>2
<1>3. Talk!NoDeadRows'
  BY <1>1, <1>2 DEF Talk!NoDeadRows
<1>4. syncing' = "fetch" => \A t \in Dialogs : t \notin todo' /\ thread'[t].here /\ Parked[t].here =>
        rollout'[t].here
  <2>1. CASE Talk!RewriteThreads
    BY <2>1 DEF Talk!RewriteThreads
  <2>2. ASSUME NEW t \in Dialogs, Talk!Fetch(t), NEW u \in Dialogs, u \notin todo', thread'[u].here,
               Parked[u].here
        PROVE  rollout'[u].here
    <3>1. CASE u # t
      <4>1. u \notin todo /\ syncing = "fetch"
        BY <2>2, <3>1 DEF Talk!Fetch
      <4>. QED  BY <1>1, <2>2, <4>1 DEF PutBack
    <3>2. CASE u = t
      <4>1. CASE rollout[t].here
        BY <1>1, <3>2, <4>1
      <4>2. CASE ~rollout[t].here
        <5>1. Talk!Wanted(t)
          BY <1>1, <2>2, <3>2, <4>2 DEF Talk!Wanted, Talk!Found
        <5>2. rollout' = [rollout EXCEPT ![t] = Parked[t]]
          BY <2>2, <5>1 DEF Talk!Fetch
        <5>. QED  BY <2>2, <3>2, <5>2 DEF CodexTypes
      <4>. QED  BY <4>1, <4>2
    <3>. QED  BY <3>1, <3>2
  <2>3. CASE UNCHANGED Talk!vars
    BY <2>3 DEF PutBack, Talk!vars
  <2>4. CASE Talk!Begin \/ Talk!RolloutsDone \/ Talk!Index \/ Talk!Recent \/ Talk!Finish \/ Talk!Stop \/ (\E r \in Routes : Talk!Switch(r))
             \/ \E t \in Dialogs : Talk!Copy(t) \/ Talk!Replace(t) \/ Talk!Chat(t)
    <3>1. syncing' # "fetch"
      BY <2>4 DEF Talk!Begin, Talk!RolloutsDone, Talk!Index, Talk!Recent, Talk!Finish, Talk!Stop,
                  Talk!Switch, Talk!Copy, Talk!Replace, Talk!Chat, Beside, Syncs,
                  Talk!ThreadAssumption
    <3>. QED  BY <3>1
  <2>. QED  BY <2>1, <2>2, <2>3, <2>4 DEF Talk!Next, Talk!SyncStep
<1>. QED  BY <1>3, <1>4 DEF PutBack

LEMMA CxStep == Syncs /\ CxInv /\ [Talk!Next]_(Talk!vars) => CxInv'
BY CxTypes, CxBeside, CxCome, CxFound DEF CxInv

LEMMA CxFollows == Syncs /\ CxInv => Talk!Follows
<1>. SUFFICES ASSUME Syncs, CxInv, synced, Talk!Target # ""
              PROVE  /\ \A t \in Dialogs : /\ rollout[t].here /\ t \notin fetched =>
                                                Talk!Serves(route, rollout[t])
                                           /\ thread[t].here => Talk!Serves(route, thread[t])
                                           /\ index[t] = Talk!RunsOn(route)
                     /\ Talk!Serves(route, [provider |-> Talk!RunsOn(route), model |-> recent])
                     /\ version = route.provider /\ owner = route.mode
  BY DEF Talk!Follows
<1>. USE DEF CxInv
<1>1. ASSUME NEW x, x \in Talk!Rollout \/ x \in Talk!Row, Fixed(x) PROVE Talk!Serves(route, x)
  <2>1. x.provider \in Talk!Providers /\ x.model \in Models
    BY <1>1 DEF Talk!Rollout, Talk!Row
  <2>2. x.provider = Talk!RunsOn(route)
    BY <1>1, <2>1, ProviderFacts DEF Fixed, CodexTypes
  <2>. QED  BY <1>1, <2>1, <2>2, ModelFacts DEF Talk!Serves, Fixed, CodexTypes
<1>2. ASSUME NEW t \in Dialogs PROVE /\ rollout[t].here /\ t \notin fetched => Talk!Serves(route, rollout[t])
                                     /\ thread[t].here => Talk!Serves(route, thread[t])
                                     /\ index[t] = Talk!RunsOn(route)
  <2>1. rollout[t].here /\ t \notin fetched => Talk!Serves(route, rollout[t])
    BY <1>1 DEF Come, Done, CodexTypes
  <2>2. Talk!Serves(route, thread[t])
    BY <1>1 DEF Come, CodexTypes
  <2>3. index[t] = Talk!RunsOn(route)
    BY ProviderFacts DEF Come, CodexTypes
  <2>. QED  BY <2>1, <2>2, <2>3
<1>3. Talk!Serves(route, [provider |-> Talk!RunsOn(route), model |-> recent])
  BY ModelFacts DEF Come, CodexTypes, Talk!Serves
<1>. QED  BY <1>2, <1>3 DEF Come

\* Once a sync has ended well every conversation can be gone on with under the
\* live configuration, and none is listed that cannot be opened
\* (sync_codex_sessions).
THEOREM SessionsFollowAlways ==
  Talk!RouteAssumption /\ Talk!ThreadAssumption => (Talk!Spec => [](Talk!Follows /\ Talk!NoDeadRows))
<1>. SUFFICES ASSUME Syncs PROVE Talk!Spec => [](Talk!Follows /\ Talk!NoDeadRows)
  BY DEF Syncs
<1>1. Talk!Init => CxInv
  BY CxInit
<1>2. CxInv /\ [Talk!Next]_(Talk!vars) => CxInv'
  BY CxStep
<1>3. CxInv => Talk!Follows /\ Talk!NoDeadRows
  BY CxFollows DEF CxInv, PutBack
<1>. QED  BY <1>1, <1>2, <1>3, PTL DEF Talk!Spec

\* No step of a sync, ended, failed or cut short, loses a conversation or a turn
\* of it, and a second sync changes nothing (_retarget_jsonl,
\* _retarget_sqlite).
THEOREM TurnsAreKept ==
  Talk!RouteAssumption /\ Talk!ThreadAssumption => (Talk!Spec => Talk!TurnsKept /\ Talk!TwiceIsOnce)
<1>. SUFFICES ASSUME Syncs PROVE Talk!Spec => Talk!TurnsKept /\ Talk!TwiceIsOnce
  BY DEF Syncs
<1>1. Talk!Init => CxInv
  BY CxInit
<1>2. CxInv /\ [Talk!Next]_(Talk!vars) => CxInv'
  BY CxStep
<1>3. CxInv /\ [Talk!Next]_(Talk!vars) =>
        [\A t \in Dialogs : rollout[t].here =>
          rollout'[t].here /\ rollout'[t].turns >= rollout[t].turns]_(Talk!vars)
  BY CxTurns
<1>. DEFINE Same == synced /\ Talk!SyncStep =>
                      /\ \A t \in Dialogs \ fetched : rollout[t].here => rollout'[t] = rollout[t]
                      /\ thread' = thread /\ index' = index /\ recent' = recent
<1>4. CxInv /\ [Talk!Next]_(Talk!vars) => [Same]_(Talk!vars)
  <2>. SUFFICES ASSUME CxInv, synced, Talk!SyncStep
                PROVE  /\ \A t \in Dialogs \ fetched : rollout[t].here => rollout'[t] = rollout[t]
                       /\ thread' = thread /\ index' = index /\ recent' = recent
    OBVIOUS
  <2>. USE DEF CxInv
  <2>1. ASSUME NEW t \in Dialogs \ fetched, rollout[t].here PROVE rollout'[t] = rollout[t]
    <3>1. Talk!Rewritten(rollout[t]) = rollout[t]
      BY <2>1, Rewrites DEF Come, Done, CodexTypes
    <3>2. ASSUME NEW u \in Dialogs, Talk!Replace(u) PROVE rollout'[t] = rollout[t]
      BY <3>1, <3>2 DEF Talk!Replace, Beside, Syncs, Talk!ThreadAssumption, CodexTypes
    <3>3. ASSUME NEW u \in Dialogs, Talk!Fetch(u) PROVE rollout'[t] = rollout[t]
      BY <2>1, <3>3 DEF Talk!Fetch, Talk!Wanted, CodexTypes
    <3>. QED  BY <3>2, <3>3 DEF Talk!SyncStep, Talk!Begin, Talk!RolloutsDone, Talk!Index, Talk!Recent,
                                Talk!RewriteThreads, Talk!Finish, Talk!Copy
  <2>2. thread' = thread
    <3>1. CASE Talk!RewriteThreads
      <4>1. \A t \in Dialogs : Talk!Rewritten(thread[t]) = thread[t]
        BY Rewrites DEF Come, CodexTypes
      <4>. QED  BY <3>1, <4>1 DEF Talk!RewriteThreads, CodexTypes
    <3>. QED  BY <3>1 DEF Talk!SyncStep, Talk!Begin, Talk!RolloutsDone, Talk!Index, Talk!Recent,
                          Talk!Finish, Talk!Copy, Talk!Replace, Talk!Fetch
  <2>3. index' = index
    <3>1. CASE Talk!Index
      BY <3>1 DEF Talk!Index, Come, CodexTypes
    <3>. QED  BY <3>1 DEF Talk!SyncStep, Talk!Begin, Talk!RolloutsDone, Talk!RewriteThreads, Talk!Recent,
                          Talk!Finish, Talk!Copy, Talk!Replace, Talk!Fetch
  <2>4. recent' = recent
    BY DEF Come, Talk!SyncStep, Talk!Begin, Talk!RolloutsDone, Talk!Index, Talk!Recent, Talk!RewriteThreads,
           Talk!Finish, Talk!Copy, Talk!Replace, Talk!Fetch
  <2>. QED  BY <2>1, <2>2, <2>3, <2>4
<1>5. Talk!Spec => Talk!TurnsKept
  BY <1>1, <1>2, <1>3, PTL DEF Talk!Spec, Talk!TurnsKept
<1>6. Talk!Spec => [][Same]_(Talk!vars)
  <2>. HIDE DEF Same
  <2>. QED  BY <1>1, <1>2, <1>4, PTL DEF Talk!Spec
<1>. QED  BY <1>5, <1>6 DEF Talk!TwiceIsOnce
=============================================================================
