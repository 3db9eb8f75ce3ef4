------------------------------ MODULE WorkerPool ------------------------------
(***************************************************************************)
(* worker_pool.c: num_threads threads that take work items from one FIFO   *)
(* queue under a mutex and a condition variable.  A step of the model is   *)
(* one critical section, or the call of an item's function.                *)
(***************************************************************************)
EXTENDS Naturals, Sequences, FiniteSets

CONSTANTS
    Workers,   \* the threads of the pool
    Items,     \* the work items: one per call of worker_pool_push
    Spawns,    \* [Items -> SUBSET Items]: the items an item's function may push
    None       \* no item

\* A pool of no threads accepts work and never runs it: not considered here.
ASSUME PoolAssumption ==
    /\ IsFiniteSet(Workers) /\ Workers # {}
    /\ Spawns \in [Items -> SUBSET Items]
    /\ None \notin Items

VARIABLES
    queue,     \* the items from q->head to q->tail
    stop,      \* q->stop
    worker,    \* where each thread is: about to lock the mutex or to test the
               \* condition ("pop"), in pthread_cond_wait ("asleep"), in
               \* item->func ("run"), or returned ("gone")
    hand,      \* the item a thread has popped
    owner,     \* the thread that owns the pool: "using" it, in the joins of
               \* worker_pool_destroy ("joining"), or after it ("destroyed")
    pushed,    \* specification-only: the items pushed so far
    ran        \* specification-only: the items whose function has returned

vars == <<queue, stop, worker, hand, owner, pushed, ran>>

In(state) == {w \in Workers : worker[w] = state}

Init ==
    /\ queue = << >> /\ stop = FALSE /\ owner = "using"
    /\ worker = [w \in Workers |-> "pop"]
    /\ hand = [w \in Workers |-> None]
    /\ pushed = {} /\ ran = {}

\* pthread_cond_signal wakes one of the waiting threads, if there is one.
Signal ==
    \/ /\ In("asleep") = {}
       /\ UNCHANGED worker
    \/ \E w \in In("asleep") : worker' = [worker EXCEPT ![w] = "pop"]

\* Mutant of Broadcast: a signal, for one thread only.
BroadcastToOne ==
    \/ In("asleep") = {} /\ UNCHANGED worker
    \/ \E w \in In("asleep") : worker' = [worker EXCEPT ![w] = "pop"]
\* pthread_cond_broadcast wakes them all.
Broadcast ==
    worker' = [w \in Workers |-> IF worker[w] = "asleep" THEN "pop" ELSE worker[w]]

\* Mutant of Enqueue: the signal is sent only when the queue was empty.
EnqueueSignalFirst(i) ==
    /\ i \notin pushed
    /\ queue' = Append(queue, i)
    /\ pushed' = pushed \cup {i}
    /\ IF queue = << >> THEN Signal ELSE UNCHANGED worker
    /\ UNCHANGED <<stop, hand, owner, ran>>
\* worker_pool_push, from any thread.
Enqueue(i) ==
    /\ i \notin pushed
    /\ queue' = Append(queue, i)
    /\ pushed' = pushed \cup {i}
    /\ Signal
    /\ UNCHANGED <<stop, hand, owner, ran>>

\* The application pushes while it may still use the pool.
Push(i) == owner = "using" /\ Enqueue(i)

\* The function of an item pushes another: also while the pool is being stopped.
Spawn(w, i) == worker[w] = "run" /\ i \in Spawns[hand[w]] /\ Enqueue(i)

\* work_queue_pop: nothing to do and not stopping.
Sleep(w) ==
    /\ worker[w] = "pop" /\ queue = << >> /\ ~stop
    /\ worker' = [worker EXCEPT ![w] = "asleep"]
    /\ UNCHANGED <<queue, stop, hand, owner, pushed, ran>>

\* pthread_cond_wait may return without a signal; the loop tests again.
Spurious(w) ==
    /\ worker[w] = "asleep"
    /\ worker' = [worker EXCEPT ![w] = "pop"]
    /\ UNCHANGED <<queue, stop, hand, owner, pushed, ran>>

\* work_queue_pop: an item, also when the pool is stopping.
Take(w) ==
    /\ worker[w] = "pop" /\ queue # << >>
    /\ queue' = Tail(queue)
    /\ hand' = [hand EXCEPT ![w] = Head(queue)]
    /\ worker' = [worker EXCEPT ![w] = "run"]
    /\ UNCHANGED <<stop, owner, pushed, ran>>

\* Mutant of Quit: a stopped thread leaves what is in the queue.
QuitAtOnce(w) ==
    /\ worker[w] = "pop" /\ stop
    /\ worker' = [worker EXCEPT ![w] = "gone"]
    /\ UNCHANGED <<queue, stop, hand, owner, pushed, ran>>
\* work_queue_pop returns NULL and the thread returns.
Quit(w) ==
    /\ worker[w] = "pop" /\ queue = << >> /\ stop
    /\ worker' = [worker EXCEPT ![w] = "gone"]
    /\ UNCHANGED <<queue, stop, hand, owner, pushed, ran>>

\* item->func returns and the item is freed.
Finish(w) ==
    /\ worker[w] = "run"
    /\ ran' = ran \cup {hand[w]}
    /\ hand' = [hand EXCEPT ![w] = None]
    /\ worker' = [worker EXCEPT ![w] = "pop"]
    /\ UNCHANGED <<queue, stop, owner, pushed>>

\* worker_pool_stop up to the joins.
StopPool ==
    /\ owner = "using"
    /\ stop' = TRUE /\ owner' = "joining"
    /\ Broadcast
    /\ UNCHANGED <<queue, hand, pushed, ran>>

\* The last join returns; worker_pool_destroy frees the pool.
Destroy ==
    /\ owner = "joining" /\ In("gone") = Workers
    /\ owner' = "destroyed"
    /\ UNCHANGED <<queue, stop, worker, hand, pushed, ran>>

\* After worker_pool_destroy there is nothing left to do.
Over == owner = "destroyed" /\ UNCHANGED vars

Thread(w) == Sleep(w) \/ Take(w) \/ Quit(w) \/ Finish(w)

Next ==
    \/ StopPool \/ Destroy \/ Over
    \/ \E i \in Items : Push(i)
    \/ \E w \in Workers : \/ Thread(w) \/ Spurious(w)
                          \/ \E i \in Items : Spawn(w, i)

\* Threads are scheduled, functions of items return, the joins are made.
Fairness == WF_vars(Destroy) /\ \A w \in Workers : WF_vars(Thread(w))
SafetySpec == Init /\ [][Next]_vars
Spec == SafetySpec /\ Fairness

----------------------------------------------------------------------------
(* Properties. *)

\* Every variable has its type, and a thread that runs has an item in hand.
TypeOK ==
    /\ queue \in Seq(Items) /\ stop \in BOOLEAN
    /\ worker \in [Workers -> {"pop", "asleep", "run", "gone"}]
    /\ hand \in [Workers -> Items \cup {None}]
    /\ \A w \in Workers : worker[w] = "run" => hand[w] \in Items
    /\ owner \in {"using", "joining", "destroyed"}
    /\ pushed \subseteq Items /\ ran \subseteq Items

\* While a thread sleeps there are as many threads on their way to the queue as
\* there are items in it: no signal is lost, and none is spent on a thread that
\* is not needed while another one is.
EnoughAwake ==
    In("asleep") # {} => Cardinality(In("pop")) >= Len(queue)

\* worker_pool_destroy returns: no thread sleeps through the broadcast.
DestroyReturns == owner = "joining" ~> owner = "destroyed"

\* The gate of the bag is the owner's side of the pool.
Gate == CASE owner = "using"   -> "open"
          [] owner = "joining" -> "closing"
          [] OTHER             -> "closed"

Bag == INSTANCE WorkBag WITH
           Work  <- Items,
           Limit <- Cardinality(Workers),
           line  <- queue,
           busy  <- {hand[w] : w \in In("run")},
           over  <- ran,
           gate  <- Gate

\* The pool implements a bag of work: every item pushed is run, once, begun in
\* the order of the pushes, and the pool is freed only when no item is left, also
\* when items push others while it is being stopped.
ImplementsBag == Bag!BagSpec
=============================================================================
