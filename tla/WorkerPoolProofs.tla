--------------------------- MODULE WorkerPoolProofs ---------------------------
(***************************************************************************)
(* Theorems about the worker pool, for any number of threads and items.    *)
(***************************************************************************)
EXTENDS WorkerPool, FiniteSetTheorems, TLAPS

\* The pool stops when its owner waits; then nobody sleeps.  A thread leaves only a
\* stopping pool, and the last one leaves an empty queue.
Stopping ==
    /\ stop <=> owner # "using"
    /\ stop => In("asleep") = {}
    /\ ~stop => In("gone") = {}
    /\ In("gone") = Workers => queue = << >>
    /\ owner = "destroyed" => In("gone") = Workers

\* An item is in the queue once, in one hand, or run.
Once ==
    /\ \A n \in DOMAIN queue : queue[n] \in pushed \ ran
    /\ \A m, n \in DOMAIN queue : queue[m] = queue[n] => m = n
    /\ \A w \in In("run") : hand[w] \in pushed \ ran
    /\ \A w \in In("run"), n \in DOMAIN queue : hand[w] # queue[n]
    /\ \A v, w \in In("run") : hand[v] = hand[w] => v = w
    /\ ran \subseteq pushed

IInv == TypeOK /\ Stopping /\ EnoughAwake /\ Once

----------------------------------------------------------------------------
(* Threads that change place. *)

\* The places are finite sets of threads.
LEMMA Places ==
    ASSUME NEW state
    PROVE  IsFiniteSet(In(state)) /\ Cardinality(In(state)) \in Nat
<1>1. IsFiniteSet(In(state))
  BY PoolAssumption, FS_Subset DEF In
<1> QED
  BY <1>1, FS_CardinalityType

\* A thread that moves leaves one place and is in the other; the rest stay.
LEMMA Move ==
    ASSUME TypeOK, NEW w \in Workers, NEW from, NEW to,
           from # to, worker[w] = from,
           worker' = [worker EXCEPT ![w] = to]
    PROVE  /\ In(to)' = In(to) \cup {w} /\ w \notin In(to)
           /\ In(from)' = In(from) \ {w} /\ w \in In(from)
           /\ \A s : s # to /\ s # from => In(s)' = In(s)
BY DEF In, TypeOK

\* Moving to the queue makes one more, moving from it one less.
LEMMA MoveCount ==
    ASSUME TypeOK, NEW w \in Workers, NEW from, NEW to,
           from # to, worker[w] = from,
           worker' = [worker EXCEPT ![w] = to]
    PROVE  /\ to = "pop" => Cardinality(In("pop")') = Cardinality(In("pop")) + 1
           /\ from = "pop" => Cardinality(In("pop")') = Cardinality(In("pop")) - 1
<1>1. IsFiniteSet(In("pop"))
  BY Places
<1>2. CASE to = "pop"
  <2>1. In("pop")' = In("pop") \cup {w} /\ w \notin In("pop")
    BY <1>2, Move
  <2> QED
    BY <1>1, <1>2, <2>1, FS_AddElement
<1>3. CASE from = "pop"
  <2>1. In("pop")' = In("pop") \ {w} /\ w \in In("pop")
    BY <1>3, Move
  <2> QED
    BY <1>1, <1>3, <2>1, FS_RemoveElement
<1> QED
  BY <1>2, <1>3

\* A signal wakes one thread or finds none; nobody else moves.
LEMMA SignalMoves ==
    ASSUME TypeOK, Signal
    PROVE  /\ worker' \in [Workers -> {"pop", "asleep", "run", "gone"}]
           /\ In("run")' = In("run") /\ In("gone")' = In("gone")
           /\ In("asleep")' \subseteq In("asleep")
           /\ In("asleep") # {} => Cardinality(In("pop")') = Cardinality(In("pop")) + 1
<1>1. CASE In("asleep") = {} /\ UNCHANGED worker
  BY <1>1 DEF TypeOK, In
<1>2. CASE \E w \in In("asleep") : worker' = [worker EXCEPT ![w] = "pop"]
  <2>1. PICK w \in In("asleep") : worker' = [worker EXCEPT ![w] = "pop"]
    BY <1>2
  <2>2. w \in Workers /\ worker[w] = "asleep"
    BY <2>1 DEF In
  <2>3. Cardinality(In("pop")') = Cardinality(In("pop")) + 1
    BY <2>1, <2>2, MoveCount
  <2>4. In("run")' = In("run") /\ In("gone")' = In("gone") /\ In("asleep")' \subseteq In("asleep")
    BY <2>1, <2>2 DEF In, TypeOK
  <2>5. worker' \in [Workers -> {"pop", "asleep", "run", "gone"}]
    BY <2>1 DEF TypeOK
  <2> QED
    BY <2>3, <2>4, <2>5
<1> QED
  BY <1>1, <1>2 DEF Signal

----------------------------------------------------------------------------
(* The initial states and every step. *)

\* The invariant holds at the start.
LEMMA InitHolds == Init => IInv
<1> SUFFICES ASSUME Init PROVE IInv
  OBVIOUS
<1>1. In("asleep") = {} /\ In("gone") = {} /\ In("run") = {}
  BY DEF Init, In
<1>2. Once
  BY <1>1 DEF Init, Once
<1>4. TypeOK
  <2>1. queue \in Seq(Items) /\ owner \in {"using", "joining", "destroyed"}
    BY DEF Init
  <2>4. stop \in BOOLEAN
    BY Zenon DEF Init
  <2>2. /\ worker \in [Workers -> {"pop", "asleep", "run", "gone"}]
        /\ \A w \in Workers : worker[w] # "run"
    BY DEF Init
  <2>3. hand \in [Workers -> Items \cup {None}] /\ pushed \subseteq Items /\ ran \subseteq Items
    BY DEF Init
  <2> QED
    BY <2>1, <2>2, <2>3, <2>4 DEF TypeOK
<1>3. Stopping /\ EnoughAwake
  BY <1>1, PoolAssumption DEF Init, Stopping, EnoughAwake
<1> QED
  BY <1>2, <1>3, <1>4 DEF IInv

\* A push.  Where the pool is stopping, the thread that pushes is not gone.
LEMMA EnqueueKeeps ==
    ASSUME IInv, NEW i \in Items, Enqueue(i),
           owner = "using" \/ In("gone") # Workers
    PROVE  IInv'
<1> USE DEF IInv
<1>1. TypeOK /\ Signal /\ i \notin pushed
  BY DEF Enqueue
<1>2. /\ worker' \in [Workers -> {"pop", "asleep", "run", "gone"}]
      /\ In("run")' = In("run") /\ In("gone")' = In("gone")
      /\ In("asleep")' \subseteq In("asleep")
      /\ In("asleep") # {} => Cardinality(In("pop")') = Cardinality(In("pop")) + 1
  BY <1>1, SignalMoves
<1>3. queue' = Append(queue, i) /\ queue \in Seq(Items) /\ Len(queue') = Len(queue) + 1
  BY DEF Enqueue, TypeOK
<1>4. TypeOK'
  <2>1. \A w \in Workers : worker'[w] = "run" => hand'[w] \in Items
    BY <1>2 DEF Enqueue, TypeOK, In
  <2> QED
    BY <1>2, <1>3, <2>1 DEF Enqueue, TypeOK
<1>5. EnoughAwake'
  <2> SUFFICES ASSUME In("asleep")' # {}
               PROVE  Cardinality(In("pop")') >= Len(queue')
    BY DEF EnoughAwake
  <2>1. Cardinality(In("pop")) >= Len(queue) /\ Cardinality(In("pop")) \in Nat
    BY <1>2, Places DEF EnoughAwake
  <2> QED
    BY <1>2, <1>3, <2>1
<1>6. Stopping'
  <2>1. In("gone") # Workers
    BY PoolAssumption DEF Stopping
  <2> QED
    BY <1>2, <2>1 DEF Stopping, Enqueue
<1>7. Once'
  <2>1. \A n \in DOMAIN queue' : IF n \in DOMAIN queue THEN queue'[n] = queue[n]
                                                       ELSE queue'[n] = i
    BY <1>3
  <2>2. i \notin ran
    BY <1>1 DEF Once
  <2>3. \A m, n \in DOMAIN queue' : queue'[m] = queue'[n] => m = n
    <3>1. DOMAIN queue' = 1 .. Len(queue) + 1 /\ DOMAIN queue = 1 .. Len(queue)
      BY <1>3
    <3> QED
      BY <1>1, <1>3, <2>1, <3>1 DEF Once
  <2>4. \A n \in DOMAIN queue' : queue'[n] \in pushed' \ ran'
    BY <2>1, <2>2 DEF Once, Enqueue
  <2>5. \A w \in In("run")' : hand'[w] \in pushed' \ ran'
    BY <1>2 DEF Once, Enqueue
  <2>6. \A w \in In("run")', n \in DOMAIN queue' : hand'[w] # queue'[n]
    BY <1>1, <1>2, <2>1 DEF Once, Enqueue
  <2> QED
    BY <1>2, <2>3, <2>4, <2>5, <2>6 DEF Once, Enqueue
<1> QED
  BY <1>4, <1>5, <1>6, <1>7

\* A thread that pops.
LEMMA TakeKeeps ==
    ASSUME IInv, NEW w \in Workers, Take(w)
    PROVE  IInv'
<1> USE DEF IInv
<1>1. /\ worker[w] = "pop" /\ worker' = [worker EXCEPT ![w] = "run"]
      /\ queue \in Seq(Items) /\ queue # << >> /\ queue' = Tail(queue)
      /\ hand' = [hand EXCEPT ![w] = Head(queue)] /\ TypeOK
  BY DEF Take, TypeOK
<1>2. /\ Len(queue') = Len(queue) - 1 /\ Head(queue) = queue[1] /\ Len(queue) > 0
      /\ DOMAIN queue = 1 .. Len(queue) /\ DOMAIN queue' = 1 .. Len(queue) - 1
      /\ \A n \in DOMAIN queue' : queue'[n] = queue[n + 1]
      /\ queue' \in Seq(Items) /\ Head(queue) \in Items
  BY <1>1
<1>3. /\ In("run")' = In("run") \cup {w} /\ w \notin In("run")
      /\ In("asleep")' = In("asleep") /\ In("gone")' = In("gone")
      /\ In("pop")' = In("pop") \ {w} /\ w \in In("pop")
  BY <1>1 DEF In, TypeOK
<1>4. Cardinality(In("pop")') = Cardinality(In("pop")) - 1
  BY <1>1, MoveCount
<1>5. TypeOK'
  BY <1>1, <1>2 DEF Take, TypeOK
<1>6. EnoughAwake'
  <2>1. Cardinality(In("pop")) \in Nat
    BY Places
  <2> QED
    BY <1>2, <1>3, <1>4, <2>1 DEF EnoughAwake
<1>7. Stopping'
  <2>1. In("gone") # Workers
    BY <1>1 DEF In
  <2> QED
    BY <1>3, <2>1 DEF Stopping, Take
<1>8. Once'
  <2>1. hand'[w] = queue[1] /\ \A v \in In("run") : hand'[v] = hand[v]
    BY <1>1, <1>2, <1>3 DEF TypeOK, In
  <2>2. 1 \in DOMAIN queue /\ \A n \in DOMAIN queue' : n + 1 \in DOMAIN queue /\ n + 1 # 1
    BY <1>2
  <2>3. \A m, n \in DOMAIN queue' : queue'[m] = queue'[n] => m = n
    <3> SUFFICES ASSUME NEW m \in DOMAIN queue', NEW n \in DOMAIN queue',
                        queue'[m] = queue'[n]
                 PROVE  m = n
      OBVIOUS
    <3>1. m + 1 = n + 1
      BY <1>2, <2>2 DEF Once
    <3>2. m \in Nat /\ n \in Nat
      BY <1>2
    <3> QED
      BY <3>1, <3>2
  <2>4. \A n \in DOMAIN queue' : queue'[n] \in pushed' \ ran' /\ queue'[n] # queue[1]
    BY <1>2, <2>2 DEF Once, Take
  <2>5. \A v \in In("run") : hand'[v] \in pushed' \ ran' /\ hand'[v] # queue[1]
    BY <2>1, <2>2 DEF Once, Take
  <2>6. \A v \in In("run"), n \in DOMAIN queue' : hand'[v] # queue'[n]
    BY <1>2, <2>1, <2>2 DEF Once
  <2>7. hand'[w] \in pushed' \ ran' /\ ran' \subseteq pushed'
    BY <2>1, <2>2 DEF Once, Take
  <2> QED
    BY <1>3, <2>1, <2>3, <2>4, <2>5, <2>6, <2>7 DEF Once
<1> QED
  BY <1>5, <1>6, <1>7, <1>8

\* A thread that goes to sleep, wakes without a signal, or returns.
LEMMA IdleKeeps ==
    ASSUME IInv, NEW w \in Workers, Sleep(w) \/ Spurious(w) \/ Quit(w)
    PROVE  IInv'
<1> USE DEF IInv
<1> DEFINE to == IF Sleep(w) THEN "asleep" ELSE IF Spurious(w) THEN "pop" ELSE "gone"
<1>1. /\ worker' = [worker EXCEPT ![w] = to] /\ worker[w] \in {"pop", "asleep"}
      /\ worker[w] # to /\ to \in {"pop", "asleep", "gone"}
      /\ UNCHANGED <<queue, stop, hand, owner, pushed, ran>> /\ TypeOK
  BY DEF Sleep, Spurious, Quit
<1>2. In("run")' = In("run")
  BY <1>1, Move
<1>3. TypeOK' /\ Once'
  BY <1>1, <1>2 DEF TypeOK, Once, In
<1>4. Stopping' /\ EnoughAwake'
  <2>1. CASE Sleep(w)
    <3>1. queue = << >> /\ ~stop /\ worker[w] = "pop"
          /\ worker' = [worker EXCEPT ![w] = "asleep"]
      BY <2>1 DEF Sleep
    <3>2. In("gone")' = In("gone")
      BY <1>1, <3>1 DEF In, TypeOK
    <3>3. Len(queue') = 0 /\ Cardinality(In("pop")') \in Nat
      <4>1. In("pop")' = In("pop") \ {w}
        BY <1>1, <3>1 DEF In, TypeOK
      <4>2. Cardinality(In("pop")') \in Nat
        BY <4>1, Places, FS_RemoveElement, FS_CardinalityType
      <4> QED
        BY <1>1, <3>1, <4>2
    <3> QED
      BY <1>1, <3>1, <3>2, <3>3 DEF Stopping, EnoughAwake
  <2>2. CASE Spurious(w)
    <3>1. worker[w] = "asleep" /\ worker' = [worker EXCEPT ![w] = "pop"]
      BY <2>2 DEF Spurious
    <3>2. In("gone")' = In("gone") /\ In("asleep")' \subseteq In("asleep")
          /\ In("asleep") # {}
      BY <1>1, <3>1 DEF In, TypeOK
    <3>3. Cardinality(In("pop")') = Cardinality(In("pop")) + 1
          /\ Cardinality(In("pop")) \in Nat
      BY <1>1, <3>1, MoveCount, Places
    <3>4. Len(queue) \in Nat
      BY DEF TypeOK
    <3> QED
      BY <1>1, <3>2, <3>3, <3>4 DEF Stopping, EnoughAwake
  <2>3. CASE Quit(w)
    <3>1. queue = << >> /\ stop /\ worker[w] = "pop"
          /\ worker' = [worker EXCEPT ![w] = "gone"]
      BY <2>3 DEF Quit
    <3>2. In("asleep")' = In("asleep") /\ In("gone") # Workers
      BY <1>1, <3>1, Move DEF In
    <3> QED
      BY <1>1, <3>1, <3>2 DEF Stopping, EnoughAwake
  <2> QED
    BY <2>1, <2>2, <2>3
<1> QED
  BY <1>3, <1>4

\* A function that returns.
LEMMA FinishKeeps ==
    ASSUME IInv, NEW w \in Workers, Finish(w)
    PROVE  IInv'
<1> USE DEF IInv
<1>1. /\ worker[w] = "run" /\ worker' = [worker EXCEPT ![w] = "pop"]
      /\ hand' = [hand EXCEPT ![w] = None] /\ ran' = ran \cup {hand[w]}
      /\ UNCHANGED <<queue, stop, owner, pushed>> /\ TypeOK
  BY DEF Finish
<1>2. /\ In("run")' = In("run") \ {w} /\ w \in In("run")
      /\ In("asleep")' = In("asleep") /\ In("gone")' = In("gone")
  BY <1>1 DEF In, TypeOK
<1>3. Cardinality(In("pop")') = Cardinality(In("pop")) + 1
      /\ Cardinality(In("pop")) \in Nat /\ Len(queue) \in Nat
  <2>1. Len(queue) \in Nat
    BY DEF TypeOK
  <2> QED
    BY <1>1, <2>1, MoveCount, Places
<1>4. TypeOK'
  BY <1>1 DEF TypeOK
<1>5. Stopping' /\ EnoughAwake'
  BY <1>1, <1>2, <1>3 DEF Stopping, EnoughAwake
<1>6. Once'
  <2>1. \A v \in In("run")' : hand'[v] = hand[v] /\ v \in In("run") /\ v # w
    BY <1>1, <1>2 DEF TypeOK, In
  <2>2. \A v \in In("run")' : hand'[v] \in pushed' \ ran'
    BY <1>1, <1>2, <2>1 DEF Once
  <2>3. \A n \in DOMAIN queue' : queue'[n] \in pushed' \ ran'
    BY <1>1, <1>2 DEF Once
  <2> QED
    BY <1>1, <1>2, <2>1, <2>2, <2>3 DEF Once
<1> QED
  BY <1>4, <1>5, <1>6

\* The owner's steps: nobody is asleep once the pool is told to stop.
LEMMA OwnerKeeps ==
    ASSUME IInv, StopPool \/ Destroy \/ UNCHANGED vars
    PROVE  IInv'
<1> USE DEF IInv
<1>1. CASE StopPool
  <2>1. /\ worker' = [w \in Workers |-> IF worker[w] = "asleep" THEN "pop" ELSE worker[w]]
        /\ owner = "using" /\ stop' = TRUE /\ owner' = "joining"
        /\ UNCHANGED <<queue, hand, pushed, ran>> /\ TypeOK
    BY <1>1 DEF StopPool, Broadcast
  <2>2. In("run")' = In("run") /\ In("gone")' = In("gone") /\ In("asleep")' = {}
    BY <2>1 DEF In, TypeOK
  <2>3. TypeOK'
    BY <2>1 DEF TypeOK
  <2>4. Once'
    BY <2>1, <2>2 DEF Once
  <2>5. Stopping' /\ EnoughAwake'
    BY <2>1, <2>2 DEF Stopping, EnoughAwake
  <2> QED
    BY <2>3, <2>4, <2>5
<1>2. CASE Destroy
  BY <1>2 DEF Destroy, TypeOK, Stopping, EnoughAwake, Once, In
<1>3. CASE UNCHANGED vars
  BY <1>3 DEF vars, TypeOK, Stopping, EnoughAwake, Once, In
<1> QED
  BY <1>1, <1>2, <1>3

\* A push by the application or by an item, told apart by who is still there.
LEMMA PushersRemain ==
    ASSUME IInv, NEW i \in Items,
           Push(i) \/ \E w \in Workers : Spawn(w, i)
    PROVE  Enqueue(i) /\ (owner = "using" \/ In("gone") # Workers)
BY DEF Push, Spawn, In

\* Every step keeps it.
LEMMA StepKeeps == IInv /\ [Next]_vars => IInv'
<1> SUFFICES ASSUME IInv, [Next]_vars PROVE IInv'
  OBVIOUS
<1>1. CASE StopPool \/ Destroy \/ Over \/ UNCHANGED vars
  BY <1>1, OwnerKeeps DEF Over
<1>2. ASSUME NEW i \in Items, Push(i) \/ \E w \in Workers : Spawn(w, i)
      PROVE  IInv'
  BY <1>2, PushersRemain, EnqueueKeeps
<1>3. ASSUME NEW w \in Workers, Thread(w) \/ Spurious(w)
      PROVE  IInv'
  BY <1>3, IdleKeeps, TakeKeeps, FinishKeeps DEF Thread
<1> QED
  BY <1>1, <1>2, <1>3 DEF Next

----------------------------------------------------------------------------
(* The theorems. *)

\* Whatever the number of threads and items, and whatever items push others: the
\* invariants of the pool hold in every state.
THEOREM PoolInvariant == Spec => []IInv
<1> QED
  BY InitHolds, StepKeeps, PTL DEF Spec, SafetySpec

\* No signal is lost: worker_pool_push signals every time, so while a thread sleeps
\* there is a thread on its way for every item in the queue.
THEOREM NoSignalLost == Spec => []EnoughAwake
<1>1. IInv => EnoughAwake
  BY DEF IInv
<1> QED
  BY <1>1, PoolInvariant, PTL

----------------------------------------------------------------------------
(* The pool is a bag of work. *)

AtWork == {hand[w] : w \in In("run")}

\* A thread at the queue means that fewer than all have an item in hand.
LEMMA BelowLimit ==
    ASSUME TypeOK, NEW w \in Workers, worker[w] = "pop"
    PROVE  Cardinality(AtWork) < Cardinality(Workers)
<1> DEFINE R == In("run")
           f == [v \in R |-> hand[v]]
<1>1. IsFiniteSet(R) /\ IsFiniteSet(Workers) /\ R \subseteq Workers /\ R # Workers
  BY Places, PoolAssumption DEF In
<1>2. f \in Surjection(R, AtWork)
  BY DEF Surjection, AtWork
<1>3. /\ Cardinality(AtWork) <= Cardinality(R)
      /\ IsFiniteSet(AtWork)
  BY <1>1, <1>2, FS_Surjection
<1>4. /\ Cardinality(R) <= Cardinality(Workers)
      /\ Cardinality(R) # Cardinality(Workers)
  BY <1>1, FS_Subset
<1>5. /\ Cardinality(AtWork) \in Nat /\ Cardinality(R) \in Nat
      /\ Cardinality(Workers) \in Nat
  BY <1>1, <1>3, FS_CardinalityType
<1> QED
  BY <1>3, <1>4, <1>5

\* The bag counts as the pool does.
LEMMA SameCount == \A S : Bag!Cardinality(S) = Cardinality(S)
BY Zenon DEF Bag!Cardinality, Cardinality

\* A new pool is an empty bag.
LEMMA BagStarts == Init => Bag!BagInit
BY DEF Init, Bag!BagInit, Gate, In

\* Every step of the pool is a step of the bag, or none.
LEMMA BagStep == IInv /\ [Next]_vars => [Bag!BagNext]_(Bag!bag)
<1> SUFFICES ASSUME IInv, [Next]_vars PROVE [Bag!BagNext]_(Bag!bag)
  OBVIOUS
<1> USE DEF IInv, Bag!bag, Bag!BagNext
<1>1. CASE UNCHANGED vars \/ Over
  BY <1>1 DEF vars, Over, Gate, In
<1>2. CASE StopPool
  <2>1. In("run")' = In("run") /\ hand' = hand
    BY <1>2 DEF StopPool, Broadcast, In, TypeOK
  <2>2. Bag!BeginClose
    BY <1>2, <2>1 DEF StopPool, Bag!BeginClose, Gate
  <2> QED
    BY <2>2
<1>3. CASE Destroy
  <2>1. In("run") = {} /\ In("run")' = {} /\ queue = << >>
    BY <1>3 DEF Destroy, In, Stopping
  <2>2. Bag!Close
    BY <1>3, <2>1 DEF Destroy, Bag!Close, Gate
  <2> QED
    BY <2>2
<1>4. ASSUME NEW i \in Items, Push(i) \/ \E w \in Workers : Spawn(w, i)
      PROVE  Bag!Submit(i)
  <2>1. Enqueue(i) /\ (owner = "using" \/ In("gone") # Workers)
    BY <1>4, PushersRemain
  <2>2. In("run")' = In("run") /\ hand' = hand
    BY <2>1, SignalMoves DEF Enqueue
  <2>3. i \notin Bag!Known
    BY <2>1 DEF Bag!Known, Enqueue, Once
  <2>4. Gate # "closed" /\ Gate' = Gate
    BY <2>1 DEF Gate, Enqueue, Stopping, TypeOK
  <2> QED
    BY <2>1, <2>2, <2>3, <2>4 DEF Bag!Submit, Enqueue
<1>5. ASSUME NEW w \in Workers, Take(w)
      PROVE  Bag!Begin
  <2>1. /\ worker[w] = "pop" /\ queue # << >> /\ queue' = Tail(queue)
        /\ hand' = [hand EXCEPT ![w] = Head(queue)]
        /\ worker' = [worker EXCEPT ![w] = "run"] /\ UNCHANGED <<ran, owner>>
    BY <1>5 DEF Take
  <2>2. In("run")' = In("run") \cup {w} /\ w \notin In("run")
    BY <2>1 DEF In, TypeOK
  <2>3. hand'[w] = Head(queue) /\ \A v \in In("run") : hand'[v] = hand[v]
    BY <2>1, <2>2 DEF In, TypeOK
  <2>4. AtWork' = AtWork \cup {Head(queue)}
    BY <2>2, <2>3 DEF AtWork
  <2>5. Cardinality(AtWork) < Cardinality(Workers)
    BY <2>1, BelowLimit
  <2>6. Gate' = Gate /\ ran' = ran
    BY <2>1 DEF Gate
  <2> QED
    <3>1. Cardinality({hand[v] : v \in In("run")}) < Cardinality(Workers)
      BY <2>5 DEF AtWork
    <3>2. {hand[v] : v \in In("run")}' = {hand[v] : v \in In("run")} \cup {Head(queue)}
      BY <2>4 DEF AtWork
    <3> QED
      BY <2>1, <2>6, <3>1, <3>2, SameCount DEF Bag!Begin
<1>6. ASSUME NEW w \in Workers, NEW i \in Items, i = hand[w], Finish(w)
      PROVE  Bag!Complete(i)
  <2>1. /\ worker[w] = "run" /\ worker' = [worker EXCEPT ![w] = "pop"]
        /\ hand' = [hand EXCEPT ![w] = None] /\ ran' = ran \cup {hand[w]}
        /\ UNCHANGED <<queue, owner>>
    BY <1>6 DEF Finish
  <2>2. In("run")' = In("run") \ {w} /\ w \in In("run")
    BY <2>1 DEF In, TypeOK
  <2>3. \A v \in In("run") \ {w} : hand'[v] = hand[v] /\ hand[v] # hand[w]
    BY <2>1, <2>2 DEF In, TypeOK, Once
  <2>4. AtWork' = AtWork \ {hand[w]} /\ hand[w] \in AtWork
    BY <2>2, <2>3 DEF AtWork
  <2>5. Gate' = Gate
    BY <2>1 DEF Gate
  <2> QED
    BY <1>6, <2>1, <2>4, <2>5 DEF Bag!Complete, AtWork
<1>7. ASSUME NEW w \in Workers, Sleep(w) \/ Spurious(w) \/ Quit(w)
      PROVE  UNCHANGED Bag!bag
  <2>1. In("run")' = In("run") /\ UNCHANGED <<queue, hand, owner, ran>>
    BY <1>7 DEF Sleep, Spurious, Quit, In, TypeOK
  <2> QED
    BY <2>1 DEF Gate
<1>8. CASE \E i \in Items : Push(i) \/ \E w \in Workers : Spawn(w, i)
  BY <1>4, <1>8
<1>9. CASE \E w \in Workers : Thread(w) \/ Spurious(w)
  <2>1. PICK w \in Workers : Thread(w) \/ Spurious(w)
    BY <1>9
  <2>2. CASE Take(w)
    BY <1>5, <2>2
  <2>3. CASE Finish(w)
    <3>1. PICK i \in Items : i = hand[w]
      BY <2>3 DEF Finish, TypeOK
    <3>2. Bag!Complete(i)
      BY <1>6, <2>3, <3>1
    <3> QED
      BY <3>2
  <2>4. CASE Sleep(w) \/ Spurious(w) \/ Quit(w)
    BY <1>7, <2>4
  <2> QED
    BY <2>1, <2>2, <2>3, <2>4 DEF Thread
<1> QED
  BY <1>1, <1>2, <1>3, <1>8, <1>9 DEF Next

\* The pool implements the safety of a bag of work, for any number of threads:
\* every item is begun once, in the order of the pushes, at most one per thread at
\* a time, and worker_pool_destroy frees the pool with nothing left to run.
THEOREM PoolIsABag == Spec => Bag!BagSafety
<1> QED
  BY BagStarts, BagStep, PoolInvariant, PTL DEF Spec, SafetySpec, Bag!BagSafety
=============================================================================
