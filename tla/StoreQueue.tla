----------------------------- MODULE StoreQueue -----------------------------
(***************************************************************************)
(* GatewayStore (src/app/store/gateway.py): how the transactions of all    *)
(* coroutines reach the database one after the other.  On SQLite one       *)
(* worker task takes them from a queue and carries each out without an     *)
(* await; on MySQL each runs in a thread, under a lock of the event loop.  *)
(* Callers can be cancelled at any await, and the store is stopped while   *)
(* calls are under way.  Every other module takes a transaction for one    *)
(* action: this one says when that is so.                                  *)
(***************************************************************************)
EXTENDS Naturals, Sequences, FiniteSets

CONSTANTS Ops,      \* calls of GatewayStore.call, each made once
          Stop,     \* the sentinel that stop() puts in the queue
          Engines   \* "sqlite", "mysql"

ASSUME StoreNames == Stop \notin Ops /\ Engines \subseteq {"sqlite", "mysql"}

VARIABLES
  engine,   \* GatewayStore.engine
  at,       \* where the caller of an operation is
  told,     \* what it was told; "gone" when it was cancelled
  did,      \* what became of the transaction
  queue,    \* GatewayStore._queue
  worker,   \* the writer task
  lock,     \* GatewayStore._mysql_lock: the operation that holds it, or Stop
  stopping  \* stop()

vars == <<engine, at, told, did, queue, worker, lock, stopping>>

Told == {"nothing", "result", "error", "refused", "gone"}
Did == {"nothing", "open", "committed", "undone"}

TypeOK ==
  /\ engine \in Engines
  /\ at \in [Ops -> {"new", "queued", "behind", "locking", "threaded", "over"}]
  /\ told \in [Ops -> Told]
  /\ did \in [Ops -> Did]
  /\ queue \in Seq(Ops \cup {Stop})
  /\ worker \in {"none", "running", "dead", "finished"}
  /\ lock \in Ops \cup {Stop}
  /\ lock # Stop => at[lock] = "threaded"
  /\ stopping \in {"no", "waiting", "closed"}

\* start(): the schema, then the worker.
Init ==
  /\ engine \in Engines
  /\ at = [o \in Ops |-> "new"]
  /\ told = [o \in Ops |-> "nothing"]
  /\ did = [o \in Ops |-> "nothing"]
  /\ queue = <<>>
  /\ worker = IF engine = "sqlite" THEN "running" ELSE "none"
  /\ lock = Stop
  /\ stopping = "no"

Moves(o, place) == at' = [at EXCEPT ![o] = place]
Tells(o, word) == told' = [told EXCEPT ![o] = IF @ = "nothing" THEN word ELSE @]

-----------------------------------------------------------------------------
(* SQLite: the queue and its worker.                                       *)

\* call(): a worker that is done refuses.  Behind a Stop nothing is taken out.
Put(o) ==
  /\ engine = "sqlite" /\ at[o] = "new"
  /\ IF worker = "running" /\ stopping # "closed"
     THEN /\ Moves(o, IF stopping = "no" THEN "queued" ELSE "behind")
          /\ queue' = Append(queue, o)
          /\ UNCHANGED told
     ELSE Moves(o, "over") /\ Tells(o, "refused") /\ UNCHANGED queue
  /\ UNCHANGED <<engine, did, worker, lock, stopping>>
Carries(o) == TRUE
Word(fate) == IF fate = "committed" THEN "result" ELSE "error"
Carry(o, fate) ==
  /\ worker = "running"
  /\ queue # <<>> /\ Head(queue) = o
  /\ queue' = Tail(queue)
  /\ did' = [did EXCEPT ![o] = IF Carries(o) THEN fate ELSE @]
  /\ Tells(o, Word(fate))
  /\ Moves(o, "over")
  /\ UNCHANGED <<engine, worker, lock, stopping>>

\* The rollback fails too: the worker is dead, and whoever waits, waits on.
WorkerDies ==
  /\ worker = "running"
  /\ queue # <<>> /\ Head(queue) # Stop
  /\ did' = [did EXCEPT ![Head(queue)] = "undone"]
  /\ queue' = Tail(queue)
  /\ worker' = "dead"
  /\ UNCHANGED <<engine, at, told, lock, stopping>>

\* stop() waits for the Stop it has put behind everything else, if there is a
\* worker to find it.
StopFirst == <<Stop>> \o queue
StopLast == Append(queue, Stop)
AskStop ==
  /\ stopping = "no"
  /\ IF worker = "running"
     THEN queue' = StopLast /\ stopping' = "waiting"
     ELSE stopping' = "closed" /\ UNCHANGED queue
  /\ UNCHANGED <<engine, at, told, did, worker, lock>>

WorkerStops ==
  /\ worker = "running"
  /\ queue # <<>> /\ Head(queue) = Stop
  /\ queue' = Tail(queue)
  /\ worker' = "finished"
  /\ UNCHANGED <<engine, at, told, did, lock, stopping>>

\* The worker is over, or dead with the Stop unread: then stop() waits on.
Close ==
  /\ stopping = "waiting" /\ worker = "finished"
  /\ stopping' = "closed"
  /\ UNCHANGED <<engine, at, told, did, queue, worker, lock>>

-----------------------------------------------------------------------------
(* MySQL: a lock, a thread and a connection for every operation.           *)

Ask(o) ==
  /\ engine = "mysql" /\ at[o] = "new"
  /\ Moves(o, "locking")
  /\ UNCHANGED <<engine, told, did, queue, worker, lock, stopping>>
MayEnter(o) == lock = Stop
Locked(o) ==
  /\ at[o] = "locking" /\ MayEnter(o)
  /\ lock' = o
  /\ Moves(o, "threaded")
  /\ UNCHANGED <<engine, told, did, queue, worker, stopping>>

\* The thread begins; it goes on whatever becomes of its caller.
ThreadBegins(o) ==
  /\ at[o] = "threaded" /\ did[o] = "nothing" /\ told[o] = "nothing"
  /\ did' = [did EXCEPT ![o] = "open"]
  /\ UNCHANGED <<engine, at, told, queue, worker, lock, stopping>>

ThreadEnds(o, fate) ==
  /\ did[o] = "open"
  /\ did' = [did EXCEPT ![o] = fate]
  /\ UNCHANGED <<engine, at, told, queue, worker, lock, stopping>>

\* The caller learns of it and leaves the lock.
Learns(o) ==
  /\ at[o] = "threaded" /\ did[o] \in {"committed", "undone"}
  /\ Tells(o, Word(did[o]))
  /\ Moves(o, "over")
  /\ lock' = Stop
  /\ UNCHANGED <<engine, did, queue, worker, stopping>>

-----------------------------------------------------------------------------
LeavesLock(o) == IF lock = o THEN Stop ELSE lock
Cancel(o) ==
  /\ at[o] \in {"queued", "behind", "locking", "threaded"}
  /\ Tells(o, "gone")
  /\ Moves(o, "over")
  /\ lock' = LeavesLock(o)
  /\ UNCHANGED <<engine, did, queue, worker, stopping>>

Works ==
  \/ \E o \in Ops :
       \/ \E fate \in {"committed", "undone"} : Carry(o, fate) \/ ThreadEnds(o, fate)
       \/ Locked(o) \/ ThreadBegins(o) \/ Learns(o)
  \/ WorkerStops \/ Close

Next ==
  \/ Works
  \/ \E o \in Ops : Put(o) \/ Ask(o) \/ Cancel(o)
  \/ WorkerDies \/ AskStop

Spec == Init /\ [][Next]_vars

\* The event loop runs its tasks and the threads end.  A lock is fair to the
\* coroutines that wait for it, and there are finitely many.
FairSpec == Spec /\ WF_vars(Works)

-----------------------------------------------------------------------------
(* Properties.                                                             *)

\* What a caller is told is what happened: a result is committed, an error is
\* undone, a refusal was never begun (call(), _run()).
ToldIsTrue ==
  \A o \in Ops :
    /\ told[o] = "result" => did[o] = "committed"
    /\ told[o] = "error" => did[o] = "undone"
    /\ told[o] = "refused" => did[o] = "nothing"

\* What a caller put into the queue before stop() is carried out before the
\* connection is closed.
StoppedIsDrained ==
  stopping = "closed" /\ worker = "finished" => \A o \in Ops : at[o] # "queued"

\* A task that is cancelled on SQLite has its transaction carried out all the
\* same, unless the worker is dead or it came behind the end of the store
\* (test_cancelled_database_waiter_does_not_kill_worker).
CancelledIsDone ==
  \A o \in Ops :
    engine = "sqlite" /\ told[o] = "gone" /\ did[o] = "nothing" =>
      \E i \in DOMAIN queue : queue[i] = o

\* "Serialized store": on SQLite no two transactions are open at the same
\* time, and on MySQL of two open transactions one was left behind by
\* a caller that was cancelled.
OneUnlessCancelled ==
  Cardinality({o \in Ops : did[o] = "open" /\ (engine = "mysql" => told[o] # "gone")}) <= 1

\* All of it: every other module takes a call of the store for one action that
\* has happened when the caller goes on.
CallsAreTrue == ToldIsTrue /\ StoppedIsDrained /\ CancelledIsDone /\ OneUnlessCancelled
=============================================================================
