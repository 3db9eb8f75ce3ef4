--------------------------- MODULE EventLoopProofs ---------------------------
(***************************************************************************)
(* Theorems about the event loop, for every instance of its constants.     *)
(***************************************************************************)
EXTENDS EventLoopProps, TLAPS

\* The loop thread holds a request where its steps handle one, and a waiter where
\* it requeues one.
Handling == {"admit", "launch", "finish"}
HandsOK ==
    /\ pc \in Handling \/ (pc \in {"publish", "requeue"} /\ pub.back \in Handling)
           => cur.req \in Requests
    /\ pc = "requeue" => pub.waiters # << >>
IInv == TypeOK /\ HandsOK

----------------------------------------------------------------------------
(* What the operators on nodes and requests return. *)

\* The fields of a node that the operations set, and the types they keep.
LEMMA NodeFields ==
    ASSUME NEW n \in NodeRec
    PROVE  /\ \A b \in BOOLEAN : [n EXCEPT !.auto = b] \in NodeRec
           /\ \A i \in Int : [n EXCEPT !.refcnt = i] \in NodeRec
           /\ \A q \in Seq(Requests) : [n EXCEPT !.blocked = q] \in NodeRec
           /\ \A i \in Int, h \in Nat :
                  [n EXCEPT !.refcnt = i, !.held = h] \in NodeRec
           /\ \A s \in NodeStates, i \in Int, h \in Nat :
                  [n EXCEPT !.st = s, !.refcnt = i, !.held = h] \in NodeRec
           /\ \A s \in NodeStates, i \in Int, h \in Nat, q \in Seq(Requests) :
                  [n EXCEPT !.st = s, !.refcnt = i, !.held = h, !.blocked = q]
                      \in NodeRec
BY DEF NodeRec

\* Every operation on a node returns a node.
LEMMA NodeOps ==
    ASSUME NEW n \in NodeRec
    PROVE  /\ GetOrCreate(n) \in NodeRec /\ DeclareNode(n) \in NodeRec
           /\ AddRefNode(n) \in NodeRec  /\ AutoNode(n) \in NodeRec
           /\ RetainNode(n) \in NodeRec  /\ ReleaseNode(n) \in NodeRec
           /\ MaybeAutorelease(n) \in NodeRec /\ DropDep(n) \in NodeRec
           /\ \A r \in Requests : BlockNode(n, r) \in NodeRec
           /\ \A ok, own \in BOOLEAN : PublishNode(n, ok, own) \in NodeRec
<1>0. NoNode \in NodeRec
  BY DEF NoNode, NodeRec, NodeStates
<1> DEFINE m == GetOrCreate(n)
<1>1. m \in NodeRec
  BY <1>0 DEF GetOrCreate, NodeRec, NodeStates, NoNode
<1>a. /\ n.refcnt \in Int /\ n.held \in Nat /\ n.auto \in BOOLEAN
      /\ m.refcnt \in Int /\ m.held \in Nat /\ m.blocked \in Seq(Requests)
  BY <1>1 DEF NodeRec
<1>b. "empty" \in NodeStates /\ "ready" \in NodeStates /\ "failed" \in NodeStates
  BY DEF NodeStates
<1> HIDE DEF m
<1>2. DeclareNode(n) \in NodeRec
  <2> DEFINE s == "empty"
             one == 1
  <2>1. s \in NodeStates /\ one \in Int /\ one \in Nat
    BY <1>b
  <2> HIDE DEF s, one
  <2>2. [NoNode EXCEPT !.st = s, !.refcnt = one, !.held = one] \in NodeRec
    BY <1>0, <2>1, NodeFields
  <2> QED
    BY <2>2 DEF DeclareNode, s, one
<1>3. AddRefNode(n) \in NodeRec
  <2>1. m.refcnt + 1 \in Int /\ m.held + 1 \in Nat
    BY <1>a
  <2>2. [m EXCEPT !.refcnt = m.refcnt + 1, !.held = m.held + 1] \in NodeRec
    BY <1>1, <2>1, NodeFields
  <2> QED
    BY <2>2 DEF AddRefNode, m
<1>4. AutoNode(n) \in NodeRec
  <2>1. [m EXCEPT !.auto = TRUE] \in NodeRec
    BY <1>1, NodeFields
  <2> QED
    BY <2>1 DEF AutoNode, m
<1>5. RetainNode(n) \in NodeRec
  <2>1. m.refcnt + 1 \in Int
    BY <1>a
  <2>2. [m EXCEPT !.refcnt = m.refcnt + 1] \in NodeRec
    BY <1>1, <2>1, NodeFields
  <2> QED
    BY <2>2 DEF RetainNode, m
<1>6. \A k \in NodeRec : ReleaseNode(k) \in NodeRec
  <2> TAKE k \in NodeRec
  <2> DEFINE i == k.refcnt - 1
             h == IF k.held > 0 THEN k.held - 1 ELSE 0
  <2>1. i \in Int /\ h \in Nat
    BY DEF NodeRec
  <2> HIDE DEF i, h
  <2>2. [k EXCEPT !.refcnt = i, !.held = h] \in NodeRec
    BY <2>1, NodeFields
  <2> QED
    BY <2>2, <1>0 DEF ReleaseNode, i, h
<1>7. \A k \in NodeRec : MaybeAutorelease(k) \in NodeRec
  BY <1>6 DEF MaybeAutorelease
<1>8. DropDep(n) \in NodeRec
  <2> DEFINE i == IF n.refcnt > 0 THEN n.refcnt - 1 ELSE 0
  <2>1. i \in Int
    BY <1>a
  <2> HIDE DEF i
  <2>2. [n EXCEPT !.refcnt = i] \in NodeRec
    BY <2>1, NodeFields
  <2> QED
    BY <2>2, <1>7 DEF DropDep, i
<1>9. ASSUME NEW r \in Requests PROVE BlockNode(n, r) \in NodeRec
  <2>1. Append(m.blocked, r) \in Seq(Requests)
    BY <1>a
  <2>2. [m EXCEPT !.blocked = Append(m.blocked, r)] \in NodeRec
    BY <1>1, <2>1, NodeFields
  <2> QED
    BY <2>2 DEF BlockNode, m
<1>10. ASSUME NEW ok \in BOOLEAN, NEW own \in BOOLEAN
       PROVE  PublishNode(n, ok, own) \in NodeRec
  <2> DEFINE s == IF ok THEN "ready" ELSE "failed"
             i == IF m.refcnt = 0 THEN 1 ELSE m.refcnt
             h == IF m.held = 0 /\ (m.refcnt = 0 \/ own) THEN 1 ELSE m.held
  <2>1. s \in NodeStates /\ i \in Int /\ h \in Nat /\ << >> \in Seq(Requests)
    BY <1>a, <1>b
  <2> HIDE DEF s, i, h
  <2>2. [m EXCEPT !.st = s, !.refcnt = i, !.held = h, !.blocked = << >>] \in NodeRec
    BY <1>1, <2>1, NodeFields
  <2> QED
    BY <2>2 DEF PublishNode, m, s, i, h
<1> QED
  BY <1>1, <1>2, <1>3, <1>4, <1>5, <1>6, <1>7, <1>8, <1>9, <1>10 DEF m

\* The fields of a request that the steps set, and the types they keep.
LEMMA RequestFields ==
    ASSUME NEW q \in RequestRec
    PROVE  /\ \A x \in Int : [q EXCEPT !.due = x] \in RequestRec
           /\ \A b \in BOOLEAN : /\ [q EXCEPT !.isPending = b] \in RequestRec
                                 /\ [q EXCEPT !.isCancelled = b] \in RequestRec
                                 /\ [q EXCEPT !.retained = b] \in RequestRec
                                 /\ [q EXCEPT !.handle = b] \in RequestRec
           /\ \A n \in Nat : [q EXCEPT !.retries = n] \in RequestRec
           /\ \A x \in Int, n \in Nat :
                  [q EXCEPT !.due = x, !.retries = n] \in RequestRec
           /\ \A x \in Int, b \in BOOLEAN :
                  [q EXCEPT !.due = x, !.onRetry = b] \in RequestRec
           /\ \A l \in {"new", "live"} \cup Ended : 
                  [q EXCEPT !.life = l] \in RequestRec
           /\ \A l \in {"new", "live"} \cup Ended, b \in BOOLEAN : 
                  [q EXCEPT !.life = l, !.isPending = b] \in RequestRec
           /\ \A l \in {"new", "live"} \cup Ended, b \in BOOLEAN :
                  [q EXCEPT !.life = l, !.handle = b, !.retained = b] \in RequestRec
BY DEF RequestRec

\* Retaining and releasing the dependencies of a request keeps a table.
LEMMA DepsTypes ==
    ASSUME NEW t \in [Resources -> NodeRec], NEW r \in Requests
    PROVE  /\ RetainDeps(t, r) \in [Resources -> NodeRec]
           /\ ReleaseDeps(t, r) \in [Resources -> NodeRec]
<1>1. \A id \in Resources : RetainNode(t[id]) \in NodeRec /\ DropDep(t[id]) \in NodeRec
  <2> SUFFICES ASSUME NEW id \in Resources
               PROVE  RetainNode(t[id]) \in NodeRec /\ DropDep(t[id]) \in NodeRec
    OBVIOUS
  <2>1. t[id] \in NodeRec
    OBVIOUS
  <2> QED
    BY <2>1, NodeOps
<1> QED
  BY <1>1 DEF RetainDeps, ReleaseDeps

\* Destroying a request.
LEMMA DestroyTypes ==
    ASSUME SchedTypes, NEW r \in Requests, NEW how \in Ended,
           NEW n \in [Counters -> Int], Destroy(r, how, n)
    PROVE  /\ req' \in [Requests -> RequestRec] /\ num' \in [Counters -> Int]
           /\ table' \in [Resources -> NodeRec] /\ msgs' \in Seq(MsgRec)
<1>1. req' \in [Requests -> RequestRec]
  <2>1. [req[r] EXCEPT !.life = how, !.handle = FALSE, !.retained = FALSE]
            \in RequestRec
    BY RequestFields DEF SchedTypes
  <2> QED
    BY <2>1 DEF SchedTypes, Destroy
<1>2. num' \in [Counters -> Int]
  BY DEF Destroy, Cleaned, Counters
<1>3. table' \in [Resources -> NodeRec]
  BY DepsTypes DEF SchedTypes, Destroy
<1> QED
  BY <1>1, <1>2, <1>3 DEF SchedTypes, Destroy

\* Starting a request.
LEMMA StartTypes ==
    ASSUME SchedTypes, NEW r \in Requests, NEW m \in [Maps -> SUBSET Requests],
           NEW n \in [Counters -> Int], Start(r, m, n)
    PROVE  /\ req' \in [Requests -> RequestRec] /\ num' \in [Counters -> Int]
           /\ map' \in [Maps -> SUBSET Requests]
           /\ table' \in [Resources -> NodeRec] /\ msgs' \in Seq(MsgRec)
<1>1. CASE StartRated(r, m, n)
  <2>1. PICK at \in {Past, Never} : req' = [req EXCEPT ![r].due = at]
    BY <1>1 DEF StartRated
  <2>2. at \in Int
    BY BoundsAssumption DEF Never
  <2>3. [req[r] EXCEPT !.due = at] \in RequestRec
    BY <2>2, RequestFields DEF SchedTypes
  <2> QED
    BY <1>1, <2>1, <2>3 DEF SchedTypes, StartRated, Put, Maps
<1>2. CASE StartUnprepared(r, m, n)
  <2>1. [req[r] EXCEPT !.life = "unprepared", !.handle = FALSE, !.retained = FALSE]
            \in RequestRec
    BY RequestFields DEF SchedTypes, Ended
  <2>2. table' \in [Resources -> NodeRec]
    BY <1>2, DepsTypes DEF SchedTypes, StartUnprepared
  <2> QED
    BY <1>2, <2>1, <2>2 DEF SchedTypes, StartUnprepared
<1>3. CASE StartTransfer(r, m, n)
  <2>1. [req[r] EXCEPT !.handle = TRUE] \in RequestRec
    BY RequestFields DEF SchedTypes
  <2> QED
    BY <1>3, <2>1 DEF SchedTypes, StartTransfer, Put, Maps, Counters
<1> QED
  BY <1>1, <1>2, <1>3 DEF Start

\* Publishing a resource.
LEMMA PublishTypes ==
    ASSUME SchedTypes, NEW id \in Resources, NEW ok \in BOOLEAN,
           NEW registers \in BOOLEAN, NEW back \in Callers,
           BeginPublish(id, ok, registers, back)
    PROVE  /\ table' \in [Resources -> NodeRec] /\ pub' \in PubRec
           /\ pc' = "publish" /\ pub'.back = back
<1>1. table[id] \in NodeRec
  BY DEF SchedTypes
<1>2. PublishNode(table[id], ok, registers) \in NodeRec
  BY <1>1, NodeOps
<1>3. table' \in [Resources -> NodeRec]
  BY <1>2 DEF BeginPublish, SchedTypes
<1>4. pub' \in PubRec /\ pub'.back = back
  BY <1>1 DEF BeginPublish, PubRec, NodeRec
<1> QED
  BY <1>3, <1>4 DEF BeginPublish, Goto

----------------------------------------------------------------------------
(* The types and the request in hand are kept by every step. *)

\* A submission.
LEMMA EnlistTypes ==
    ASSUME IInv, NEW r \in Requests, NEW q \in RequestRec, Enlist(r, q),
           todo' \subseteq todo
    PROVE  IInv'
<1>1. [q EXCEPT !.life = "live", !.isPending = TRUE] \in RequestRec
  BY RequestFields
<1>2. SchedTypes'
  BY <1>1 DEF IInv, TypeOK, SchedTypes, Enlist, Bump, Metrics
<1>3. ListTypes'
  BY DEF IInv, TypeOK, ListTypes, Enlist
<1>4. LocalTypes' /\ ControlTypes' /\ HandsOK'
  BY DEF IInv, TypeOK, LocalTypes, ControlTypes, HandsOK, Enlist, local
<1> QED
  BY <1>2, <1>3, <1>4 DEF IInv, TypeOK

\* The calls of the application.
LEMMA CallTypes ==
    ASSUME IInv, NEW c \in Calls, Call(c)
    PROVE  IInv'
<1> USE DEF IInv, TypeOK
<1>0. /\ c.op \in {"submit", "loop_submit", "cancel", "inject"} => c.on \in Requests
      /\ c.op \in ThreadSafe \cup LoopThread => c.on \in Resources
      /\ c.ok \in BOOLEAN /\ c.op \in Operations
      /\ \A op \in LoopThread : Window[op] \subseteq {"idle", "onloop", "finish"}
  BY CallsAssumption
<1>1. CASE RequestSubmit(c)
  <2> DEFINE r == c.on
             x == Floor(IF Priority[r] > 0 THEN -Priority[r] ELSE 0)
             b == req[r].onRetry \/ MaxRetries[r] # 0
             q == [req[r] EXCEPT !.due = x, !.onRetry = b]
  <2>1. r \in Requests /\ todo' \subseteq todo
    BY <1>0, <1>1 DEF RequestSubmit, Makes
  <2>2. x \in Int /\ b \in BOOLEAN
    BY <2>1, BoundsAssumption, RequestsAssumption DEF Floor, SchedTypes, RequestRec
  <2>3. req[r] \in RequestRec
    BY <2>1 DEF SchedTypes
  <2> HIDE DEF x, b
  <2>4. q \in RequestRec
    BY <2>2, <2>3, RequestFields
  <2>5. CASE Refused(r)
    BY <1>1, <2>1, <2>5 DEF RequestSubmit, ControlTypes, ListTypes, SchedTypes,
          LocalTypes, HandsOK, lists, sched, local
  <2>6. CASE ~Refused(r)
    <3>1. Enlist(r, q)
      BY <1>1, <2>6 DEF RequestSubmit, x, b
    <3> QED
      BY <2>1, <2>4, <3>1, EnlistTypes
  <2> QED
    BY <2>5, <2>6
<1>2. CASE LoopSubmit(c)
  <2> DEFINE q == [req[c.on] EXCEPT !.due = Floor(-Priority[c.on])]
  <2>1. c.on \in Requests /\ todo' \subseteq todo
    BY <1>0, <1>2 DEF LoopSubmit, Makes
  <2>2. Floor(-Priority[c.on]) \in Int
    BY <2>1, BoundsAssumption, RequestsAssumption DEF Floor
  <2>3. q \in RequestRec
    BY <2>1, <2>2, RequestFields DEF SchedTypes
  <2>4. Enlist(c.on, q)
    BY <1>2 DEF LoopSubmit
  <2> QED
    BY <2>1, <2>3, <2>4, EnlistTypes
<1>3. CASE Cancel(c)
  <2>1. c.on \in Requests
    BY <1>0, <1>3 DEF Cancel, Makes
  <2>2. [req[c.on] EXCEPT !.isCancelled = TRUE] \in RequestRec
    BY <2>1, RequestFields DEF SchedTypes
  <2>3. SchedTypes'
    BY <1>3, <2>2 DEF Cancel, SchedTypes
  <2>4. <<c.on>> \o cancelled \in Seq(Requests)
    BY <2>1 DEF ListTypes
  <2>5. cancelled' = cancelled \/ cancelled' = <<c.on>> \o cancelled
    BY <1>3 DEF Cancel
  <2>6. ListTypes'
    BY <1>3, <2>4, <2>5 DEF Cancel, ListTypes
  <2> QED
    BY <1>3, <2>3, <2>6 DEF Cancel, Makes, ControlTypes, LocalTypes, HandsOK, local
<1>4. CASE Inject(c)
  <2>1. c.on \in Requests
    BY <1>0, <1>4 DEF Inject, Makes
  <2>2. [req[c.on] EXCEPT !.life = "live"] \in RequestRec
    BY <2>1, RequestFields DEF SchedTypes
  <2>3. SchedTypes'
    BY <1>4, <2>2 DEF Inject, SchedTypes
  <2>4. ListTypes'
    BY <1>4, <2>1 DEF Inject, ListTypes
  <2> QED
    BY <1>4, <2>3, <2>4 DEF Inject, Makes, ControlTypes, LocalTypes, HandsOK, local
<1>5. CASE Stop(c)
  BY <1>5 DEF Stop, Makes, ControlTypes, ListTypes, SchedTypes, LocalTypes,
         HandsOK, lists, sched, local
<1>6. CASE Post(c)
  <2>1. c \in OpRec
    BY <1>0, <1>6, CallsAssumption DEF Post, Makes, OpRec
  <2>2. ListTypes'
    BY <1>6, <2>1 DEF Post, ListTypes
  <2> QED
    BY <1>6, <2>2 DEF Post, Makes, ControlTypes, SchedTypes, LocalTypes, HandsOK,
          sched, local
<1>7. CASE NodeCall(c)
  <2>1. c.on \in Resources /\ c.op \in {"release", "addref", "autorelease"}
    BY <1>0, <1>7 DEF NodeCall, Makes, LoopThread
  <2>2. /\ ReleaseNode(table[c.on]) \in NodeRec /\ AddRefNode(table[c.on]) \in NodeRec
        /\ AutoNode(table[c.on]) \in NodeRec
    BY <2>1, NodeOps DEF SchedTypes
  <2>3. table' \in [Resources -> NodeRec]
    BY <1>7, <2>1, <2>2 DEF NodeCall, SchedTypes
  <2>4. SchedTypes'
    BY <1>7, <2>3 DEF NodeCall, SchedTypes
  <2> QED
    BY <1>7, <2>4 DEF NodeCall, Makes, ControlTypes, ListTypes, LocalTypes, HandsOK,
          lists, local
<1>8. CASE PublishCall(c)
  <2>1. /\ c.on \in Resources /\ c.ok \in BOOLEAN /\ (c.op = "register") \in BOOLEAN
        /\ pc \in Callers /\ BeginPublish(c.on, c.ok, c.op = "register", pc)
    BY <1>0, <1>8 DEF PublishCall, Makes, LoopThread, Callers
  <2>2. /\ table' \in [Resources -> NodeRec] /\ pub' \in PubRec
        /\ pc' = "publish" /\ pub'.back = pc
    BY <2>1, PublishTypes
  <2>3. SchedTypes' /\ LocalTypes'
    BY <1>8, <2>2 DEF PublishCall, SchedTypes, LocalTypes
  <2>4. HandsOK'
    BY <1>8, <2>2 DEF PublishCall, HandsOK, Handling
  <2>5. ControlTypes' /\ ListTypes'
    BY <1>8, <2>2 DEF PublishCall, Makes, ControlTypes, ListTypes, Points, lists
  <2> QED
    BY <2>3, <2>4, <2>5
<1>9. CASE Run(c)
  BY <1>9 DEF Run, Makes, Goto, ControlTypes, ListTypes, SchedTypes, LocalTypes,
         HandsOK, Handling, Points, lists, sched, local
<1>10. CASE DestroyLoop(c)
  <2>1. CASE Crash
    BY <1>10, <2>1 DEF Crash, Goto, ControlTypes, ListTypes, SchedTypes, LocalTypes,
          HandsOK, Handling, Points, lists, sched, local
  <2>2. CASE Makes(c, {"destroy"}) /\ Teardown
    <3>0. /\ map' = [k \in Maps |-> {}] /\ table' = [id \in Resources |-> NoNode]
          /\ pending' = << >> /\ injected' = << >> /\ msgs' = << >>
          /\ pc' = "destroyed"
          /\ UNCHANGED <<keepRunning, cancelled, inbox, num, metrics, local>>
      BY <2>2, Zenon DEF Teardown, Goto
    <3> DEFINE t(r) == [req[r] EXCEPT !.life = "torn", !.handle = FALSE,
                                      !.retained = FALSE]
    <3>1. \A r \in Requests : t(r) \in RequestRec /\ req[r] \in RequestRec
      BY RequestFields DEF SchedTypes, Ended
    <3> HIDE DEF t
    <3>2. req' = [r \in Requests |-> IF r \in Reached \cup UNION {Blocked(id) : id \in Resources} 
                     THEN t(r) ELSE req[r]]
      BY <2>2 DEF Teardown, t
    <3>3. req' \in [Requests -> RequestRec]
      BY <3>1, <3>2
    <3>4. NoNode \in NodeRec
      BY DEF NoNode, NodeRec, NodeStates
    <3>5. ListTypes'
      BY <2>2, <3>0 DEF ListTypes
    <3>6. /\ map' \in [Maps -> SUBSET Requests] /\ msgs' \in Seq(MsgRec)
          /\ num' = num /\ metrics' = metrics
      BY <3>0
    <3>7. table' \in [Resources -> NodeRec]
      BY <3>0, <3>4
    <3>8. SchedTypes'
      BY <3>3, <3>6, <3>7 DEF SchedTypes
    <3> QED
      BY <2>2, <3>0, <3>5, <3>8 DEF Makes, ControlTypes, LocalTypes, HandsOK,
            Handling, Points, local
  <2> QED
    BY <1>10, <2>1, <2>2 DEF DestroyLoop
<1> QED
  BY <1>1, <1>2, <1>3, <1>4, <1>5, <1>6, <1>7, <1>8, <1>9, <1>10 DEF Call

\* process_cancelled_and_pending_requests.
LEMMA PendingTypes ==
    ASSUME IInv,
           \/ Detach \/ CancelOne \/ CancelsDone \/ TakePending \/ DropCancelled
           \/ Admit \/ Launch
    PROVE  IInv'
<1> USE DEF IInv, TypeOK
<1>1. CASE Detach
  <2>1. [work EXCEPT !.cancelled = cancelled, !.pending = pending] \in WorkRec
    BY DEF ListTypes, LocalTypes, WorkRec
  <2> QED
    BY <1>1, <2>1 DEF Detach, Goto, ControlTypes, ListTypes, SchedTypes, LocalTypes,
          HandsOK, Handling, Points, sched
<1>2. CASE CancelOne
  <2> DEFINE r == Head(work.cancelled)
             k == CancelledFrom(r)
             n == [num EXCEPT ![k] = @ - 1]
  <2>1. CASE Crash
    BY <1>2, <2>1 DEF Crash, Goto, ControlTypes, ListTypes, SchedTypes, LocalTypes,
          HandsOK, Handling, Points, lists, sched, local
  <2>2. CASE /\ Live(r) /\ r \in map[k] /\ Destroy(r, "cancelled", n)
             /\ map' = Take(map, k, r)
             /\ work' = [work EXCEPT !.cancelled = Tail(@)]
             /\ UNCHANGED <<pc, keepRunning, lists, metrics, running, cur, pub, todo>>
    <3>1. r \in Requests /\ Tail(work.cancelled) \in Seq(Requests)
      BY <1>2 DEF CancelOne, LocalTypes, WorkRec
    <3>2. n \in [Counters -> Int] /\ "cancelled" \in Ended
      BY DEF SchedTypes, Counters, CancelledFrom, Home, Ended
    <3>3. [work EXCEPT !.cancelled = Tail(work.cancelled)] \in WorkRec
      BY <3>1 DEF LocalTypes, WorkRec
    <3> HIDE DEF n
    <3>4. /\ req' \in [Requests -> RequestRec] /\ num' \in [Counters -> Int]
          /\ table' \in [Resources -> NodeRec] /\ msgs' \in Seq(MsgRec)
      BY <2>2, <3>1, <3>2, DestroyTypes
    <3>5. map' \in [Maps -> SUBSET Requests]
      BY <2>2 DEF Take, SchedTypes
    <3>6. SchedTypes'
      BY <2>2, <3>4, <3>5 DEF SchedTypes
    <3> QED
      BY <1>2, <2>2, <3>3, <3>6 DEF CancelOne, ControlTypes, ListTypes, LocalTypes,
            HandsOK, Handling, lists
  <2> QED
    BY <1>2, <2>1, <2>2 DEF CancelOne
<1>3. CASE CancelsDone
  BY <1>3 DEF CancelsDone, Goto, ControlTypes, ListTypes, SchedTypes, LocalTypes,
        HandsOK, Handling, Points, lists, sched, local
<1>4. CASE TakePending
  <2> DEFINE r == Head(work.pending)
  <2>1. r \in Requests /\ Tail(work.pending) \in Seq(Requests)
    BY <1>4 DEF TakePending, LocalTypes, WorkRec
  <2>2. [work EXCEPT !.pending = Tail(work.pending)] \in WorkRec
    BY <2>1 DEF LocalTypes, WorkRec
  <2>3. [req[r] EXCEPT !.isPending = FALSE] \in RequestRec
    BY <2>1, RequestFields DEF SchedTypes
  <2>4. SchedTypes'
    BY <1>4, <2>3 DEF TakePending, SchedTypes
  <2>5. cur' \in CurRec /\ cur'.req = r
    BY <1>4, <2>1 DEF TakePending, NoCur, CurRec, Results
  <2>6. HandsOK'
    BY <1>4, <2>1, <2>5 DEF TakePending, Goto, HandsOK
  <2> QED
    BY <1>4, <2>2, <2>4, <2>5, <2>6 DEF TakePending, Goto, ControlTypes, ListTypes,
          LocalTypes, Points, lists
<1>5. CASE DropCancelled
  <2>1. cur.req \in Requests
    BY <1>5 DEF DropCancelled, HandsOK, Handling
  <2>2. num \in [Counters -> Int] /\ "cancelled" \in Ended
    BY DEF SchedTypes, Ended
  <2>3. /\ req' \in [Requests -> RequestRec] /\ num' \in [Counters -> Int]
        /\ table' \in [Resources -> NodeRec] /\ msgs' \in Seq(MsgRec)
    BY <1>5, <2>1, <2>2, DestroyTypes DEF DropCancelled
  <2>4. SchedTypes'
    BY <1>5, <2>3 DEF DropCancelled, SchedTypes
  <2>5. cur' \in CurRec
    BY <1>5 DEF DropCancelled, NoCur, CurRec, Results
  <2> QED
    BY <1>5, <2>4, <2>5 DEF DropCancelled, Goto, ControlTypes, ListTypes, LocalTypes,
          HandsOK, Handling, Points, lists
<1>6. CASE Admit
  <2> DEFINE r == cur.req
             t == Pinned(r)
  <2>1. r \in Requests
    BY <1>6 DEF Admit, HandsOK, Handling
  <2>2. t \in [Resources -> NodeRec]
    BY <2>1, DepsTypes DEF Pinned, SchedTypes
  <2>3. (req[r].retained \/ Deps[r] # {}) \in BOOLEAN
    OBVIOUS
  <2>4. [req[r] EXCEPT !.retained = req[r].retained \/ Deps[r] # {}] \in RequestRec
    BY <2>1, <2>3, RequestFields DEF SchedTypes
  <2>5. req' \in [Requests -> RequestRec]
    BY <1>6, <2>4 DEF Admit, SchedTypes
  <2> HIDE DEF t
  <2>6. CASE Unmet(t, r) = {}
    <3>1. table' = t /\ UNCHANGED cur /\ pc' = "launch"
      BY <1>6, <2>6 DEF Admit, Goto, t
    <3>2. SchedTypes'
      BY <1>6, <2>2, <2>5, <3>1 DEF Admit, SchedTypes
    <3> QED
      BY <1>6, <2>1, <3>1, <3>2 DEF Admit, ControlTypes, ListTypes, LocalTypes,
            HandsOK, Handling, Points, lists
  <2>7. CASE Unmet(t, r) # {}
    <3>1. /\ \E id \in Unmet(t, r) : table' = [t EXCEPT ![id] = BlockNode(@, r)]
          /\ pc' = "pending" /\ cur' = NoCur
      BY <1>6, <2>7 DEF Admit, Goto, t
    <3>2. PICK id \in Unmet(t, r) : table' = [t EXCEPT ![id] = BlockNode(@, r)]
      BY <3>1
    <3>3. id \in Resources
      BY <2>1, RequestsAssumption DEF Unmet
    <3>4. BlockNode(t[id], r) \in NodeRec
      BY <2>1, <2>2, <3>3, NodeOps
    <3>5. table' \in [Resources -> NodeRec]
      BY <2>2, <3>2, <3>4
    <3>6. SchedTypes'
      BY <1>6, <2>5, <3>5 DEF Admit, SchedTypes
    <3>7. cur' \in CurRec
      BY <3>1 DEF NoCur, CurRec, Results
    <3> QED
      BY <1>6, <3>1, <3>6, <3>7 DEF Admit, ControlTypes, ListTypes, LocalTypes,
            HandsOK, Handling, Points, lists
  <2> QED
    BY <2>6, <2>7
<1>7. CASE Launch
  <2> DEFINE r == cur.req
  <2>1. r \in Requests
    BY <1>7 DEF Launch, HandsOK, Handling
  <2>2. ASSUME Start(r, map, num), UNCHANGED metrics
        PROVE  SchedTypes'
    <3>1. /\ req' \in [Requests -> RequestRec] /\ num' \in [Counters -> Int]
          /\ map' \in [Maps -> SUBSET Requests]
          /\ table' \in [Resources -> NodeRec] /\ msgs' \in Seq(MsgRec)
      BY <2>1, <2>2, StartTypes DEF SchedTypes
    <3> QED
      BY <2>2, <3>1 DEF SchedTypes
  <2>3. ASSUME map' = Put(map, Home(r), r), num' = [num EXCEPT ![Home(r)] = @ + 1],
               UNCHANGED <<req, table, msgs, metrics>>
        PROVE  SchedTypes'
    <3>1. map' \in [Maps -> SUBSET Requests] /\ num' \in [Counters -> Int]
      BY <2>1, <2>3 DEF SchedTypes, Put, Home, Maps, Counters
    <3> QED
      BY <2>3, <3>1 DEF SchedTypes
  <2>4. SchedTypes'
    BY <1>7, <2>2, <2>3 DEF Launch
  <2>5. cur' \in CurRec
    BY <1>7 DEF Launch, NoCur, CurRec, Results
  <2> QED
    BY <1>7, <2>4, <2>5 DEF Launch, Goto, ControlTypes, ListTypes, LocalTypes,
          HandsOK, Handling, Points, lists
<1> QED
  BY <1>1, <1>2, <1>3, <1>4, <1>5, <1>6, <1>7

\* move_inactive_requests_to_queue, and the transfers.
LEMMA QueueTypes ==
    ASSUME IInv,
           \/ EnterRated \/ MoveRated \/ MergeRated
           \/ MoveWaiting("refresh") \/ LeaveWaiting("refresh", "inactive")
           \/ MoveWaiting("inactive") \/ LeaveWaiting("inactive", "perform")
           \/ PerformEnd \/ \E r \in Requests : TransferDone(r)
    PROVE  IInv'
<1> USE DEF IInv, TypeOK
<1>1. CASE EnterRated
  <2>1. map' \in [Maps -> SUBSET Requests]
    BY <1>1 DEF EnterRated, SchedTypes, Maps
  <2> QED
    BY <1>1, <2>1 DEF EnterRated, Goto, ControlTypes, ListTypes, SchedTypes,
          LocalTypes, HandsOK, Handling, Points, lists, local
<1>2. ASSUME NEW k \in {"root", "refresh", "inactive"}, NEW r \in Firsts(k),
             NEW n \in [Counters -> Int], UNCHANGED <<pc, keepRunning, lists, metrics, local, todo>>,
             Limit(r, k, n) \/ Start(r, Take(map, k, r), n)
      PROVE  IInv'
  <2>0. ControlTypes' /\ ListTypes' /\ LocalTypes' /\ HandsOK'
    BY <1>2 DEF ControlTypes, ListTypes, LocalTypes, HandsOK, lists, local
  <2>1. r \in Requests /\ Take(map, k, r) \in [Maps -> SUBSET Requests]
    BY DEF Firsts, Take, SchedTypes, Maps
  <2>2. CASE Limit(r, k, n)
    <3>1. PICK wait \in {Past} \cup 1..MaxDelay :
              /\ map' = Put(Take(map, k, r), "rated", r) /\ num' = n
              /\ req' = [req EXCEPT ![r].due = wait]
              /\ UNCHANGED <<table, msgs>>
      BY <2>2 DEF Limit
    <3>5. wait \in Int
      BY BoundsAssumption
    <3>2. [req[r] EXCEPT !.due = wait] \in RequestRec
      BY <2>1, <3>5, RequestFields DEF SchedTypes
    <3>3. map' \in [Maps -> SUBSET Requests]
      BY <2>1, <3>1 DEF Put
    <3>4. SchedTypes'
      BY <1>2, <3>1, <3>2, <3>3 DEF SchedTypes
    <3> QED
      BY <3>4, <2>0
  <2>3. CASE Start(r, Take(map, k, r), n)
    <3>1. /\ req' \in [Requests -> RequestRec] /\ num' \in [Counters -> Int]
          /\ map' \in [Maps -> SUBSET Requests]
          /\ table' \in [Resources -> NodeRec] /\ msgs' \in Seq(MsgRec)
      BY <2>1, <2>3, StartTypes
    <3>2. SchedTypes'
      BY <1>2, <3>1 DEF SchedTypes
    <3> QED
      BY <3>2, <2>0
  <2> QED
    BY <1>2, <2>2, <2>3
<1>3. CASE MoveRated
  BY <1>2, <1>3 DEF MoveRated, SchedTypes
<1>4. CASE MergeRated
  <2>1. map' \in [Maps -> SUBSET Requests]
    BY <1>4 DEF MergeRated, SchedTypes, Maps
  <2> QED
    BY <1>4, <2>1 DEF MergeRated, Goto, ControlTypes, ListTypes, SchedTypes,
          LocalTypes, HandsOK, Handling, Points, lists, local
<1>5. ASSUME NEW k \in {"refresh", "inactive"}, MoveWaiting(k)
      PROVE  IInv'
  <2> DEFINE n == [num EXCEPT ![k] = @ - 1]
  <2>1. n \in [Counters -> Int]
    BY DEF SchedTypes, Counters
  <2> HIDE DEF n
  <2>2. PICK r \in Firsts(k) : Limit(r, k, n) \/ Start(r, Take(map, k, r), n)
    BY <1>5 DEF MoveWaiting, n
  <2> QED
    BY <1>2, <1>5, <2>1, <2>2 DEF MoveWaiting
<1>6. ASSUME NEW k, NEW next \in {"inactive", "perform"}, LeaveWaiting(k, next)
      PROVE  IInv'
  BY <1>6 DEF LeaveWaiting, Goto, ControlTypes, ListTypes, SchedTypes, LocalTypes,
        HandsOK, Handling, Points, lists, sched, local
<1>7. CASE PerformEnd
  <2>1. running' \in BOOLEAN
    BY <1>7 DEF PerformEnd
  <2> QED
    BY <1>7, <2>1 DEF PerformEnd, Goto, ControlTypes, ListTypes, SchedTypes, LocalTypes,
          HandsOK, Handling, Points, lists, sched
<1>8. ASSUME NEW r \in Requests, TransferDone(r)
      PROVE  IInv'
  <2>1. PICK result \in Outcomes[r] :
            msgs' = Append(msgs, [req |-> r, result |-> result])
    BY <1>8 DEF TransferDone
  <2>2. [req |-> r, result |-> result] \in MsgRec
    BY RequestsAssumption DEF MsgRec
  <2>3. msgs' \in Seq(MsgRec)
    BY <2>1, <2>2 DEF SchedTypes
  <2> QED
    BY <1>8, <2>3 DEF TransferDone, ControlTypes, ListTypes, SchedTypes, LocalTypes,
          HandsOK, lists, local
<1> QED
  BY <1>1, <1>3, <1>4, <1>5, <1>6, <1>7, <1>8

\* process_completed_requests and process_injected_requests.
LEMMA CompletionTypes ==
    ASSUME IInv, Completions
    PROVE  IInv'
<1> USE DEF IInv, TypeOK
<1>0. /\ NoCur \in CurRec /\ NoCur.req = None
      /\ {"completions", "finish", "injected", "drain", "publish"} \subseteq Points
      /\ {"finish", "injected"} \subseteq Callers
  BY DEF NoCur, CurRec, Results, Points, Callers
<1>1. CASE CompleteOne
  <2> DEFINE m == Head(msgs)
             r == m.req
  <2>1. m \in MsgRec /\ Tail(msgs) \in Seq(MsgRec)
    BY <1>1 DEF CompleteOne, SchedTypes
  <2>2. r \in Requests /\ m.result \in Results
    BY <2>1 DEF MsgRec
  <2>3. PICK ret \in Returns[r][Outcome(m.result)] :
            /\ cur' = [req |-> r, result |-> m.result, ret |-> ret]
            /\ IF Signals(r, m.result, ret)
               THEN BeginPublish(Publishes[r], m.result = "ok", FALSE, "finish")
               ELSE Goto("finish") /\ UNCHANGED <<table, pub>>
    BY <1>1 DEF CompleteOne
  <2>4. cur' \in CurRec /\ cur'.req \in Requests
    BY <2>2, <2>3, RequestsAssumption DEF CurRec, Outcome
  <2>5. /\ table' \in [Resources -> NodeRec] /\ pub' \in PubRec
        /\ pc' \in {"publish", "finish"}
    <3>1. CASE Signals(r, m.result, ret)
      <4>1. Publishes[r] \in Resources
        BY <2>2, <3>1, RequestsAssumption DEF Signals
      <4> QED
        BY <2>3, <3>1, <4>1, <1>0, PublishTypes
    <3>2. CASE ~Signals(r, m.result, ret)
      BY <2>3, <3>2 DEF Goto, SchedTypes, LocalTypes
    <3> QED
      BY <3>1, <3>2
  <2>6. map' \in [Maps -> SUBSET Requests] /\ num' \in [Counters -> Int]
    BY <1>1 DEF CompleteOne, SchedTypes, Take, Maps, Counters
  <2>7. SchedTypes'
    BY <1>1, <2>1, <2>5, <2>6 DEF CompleteOne, SchedTypes
  <2> QED
    BY <1>0, <1>1, <2>4, <2>5, <2>7 DEF CompleteOne, ControlTypes, ListTypes,
          LocalTypes, HandsOK, lists
<1>2. CASE CompletionsDone
  <2>1. [work EXCEPT !.injected = injected] \in WorkRec
    BY DEF ListTypes, LocalTypes, WorkRec
  <2> QED
    BY <1>2, <2>1 DEF CompletionsDone, Goto, ControlTypes, ListTypes, SchedTypes,
          LocalTypes, HandsOK, Handling, Points, sched
<1>3. ASSUME NEW next \in {"completions"}, Finishes(next)
      PROVE  cur.req \in Requests /\ ControlTypes' /\ ListTypes' /\ LocalTypes' /\ HandsOK'
  BY <1>0, <1>3 DEF Finishes, Goto, ControlTypes, ListTypes, LocalTypes, HandsOK,
        Handling, lists
<1>4. ASSUME NEW r \in Requests, NEW q \in RequestRec, Requeue(r, q),
             metrics' \in [Metrics -> Nat]
      PROVE  SchedTypes'
  <2>1. [q EXCEPT !.handle = FALSE] \in RequestRec
    BY RequestFields
  <2>2. req' \in [Requests -> RequestRec]
    BY <1>4, <2>1 DEF Requeue, SchedTypes
  <2>3. map' \in [Maps -> SUBSET Requests] /\ num' \in [Counters -> Int]
    BY <1>4 DEF Requeue, Requeued, Cleaned, Put, Home, SchedTypes, Maps, Counters
  <2> QED
    BY <1>4, <2>2, <2>3 DEF Requeue, SchedTypes
<1>5. CASE Finish429
  <2>1. PICK wait \in 0..MaxDelay : req' = [req EXCEPT ![cur.req].due = wait]
    BY <1>5 DEF Finish429
  <2>2. cur.req \in Requests
    BY <1>3, <1>5 DEF Finish429
  <2>5. wait \in Int
    BY BoundsAssumption
  <2>3. [req[cur.req] EXCEPT !.due = wait] \in RequestRec
    BY <2>2, <2>5, RequestFields DEF SchedTypes
  <2>4. SchedTypes'
    BY <1>5, <2>1, <2>2, <2>3 DEF Finish429, Put, SchedTypes, Maps
  <2> QED
    BY <1>3, <1>5, <2>4 DEF Finish429
<1>6. CASE FinishDelay
  <2> DEFINE x == IF cur.ret > MaxDelay THEN MaxDelay ELSE cur.ret
             q == [req[cur.req] EXCEPT !.due = x]
  <2>1. cur.req \in Requests
    BY <1>3, <1>6 DEF FinishDelay
  <2>2. x \in Int
    BY BoundsAssumption DEF LocalTypes, CurRec
  <2> HIDE DEF x
  <2>3. q \in RequestRec
    BY <2>1, <2>2, RequestFields DEF SchedTypes
  <2>4. Requeue(cur.req, q) /\ metrics' = metrics
    BY <1>6 DEF FinishDelay, x
  <2>5. SchedTypes'
    BY <1>4, <2>1, <2>3, <2>4 DEF SchedTypes
  <2> QED
    BY <1>3, <1>6, <2>5 DEF FinishDelay
<1>7. CASE FinishRetry
  <2>1. CASE Crash
    BY <2>1 DEF Crash, Goto, ControlTypes, ListTypes, SchedTypes, LocalTypes, HandsOK,
          Handling, Points, lists, sched, local
  <2>2. CASE Finishes("completions") /\ RetryLater(cur.req)
    <3> DEFINE r == cur.req
               x(wait) == IF r \in OwnRetry THEN req[r].due ELSE wait
               q(wait) == [req[r] EXCEPT !.due = x(wait), !.retries = CountRetry(r)]
    <3>1. r \in Requests
      BY <1>3, <2>2
    <3>2. req[r] \in RequestRec /\ req[r].due \in Int /\ req[r].retries \in Nat
      BY <3>1 DEF SchedTypes, RequestRec
    <3>3. CountRetry(r) \in Nat /\ \A wait \in 0..MaxDelay : x(wait) \in Int
      BY <3>2, BoundsAssumption DEF CountRetry
    <3>4. PICK wait \in 0..MaxDelay : Requeue(r, q(wait))
      BY <2>2 DEF RetryLater
    <3> HIDE DEF x
    <3>5. q(wait) \in RequestRec
      BY <3>2, <3>3, RequestFields
    <3>6. metrics' \in [Metrics -> Nat]
      BY <2>2 DEF RetryLater, Bump, Metrics, SchedTypes
    <3>7. SchedTypes'
      BY <1>4, <3>1, <3>4, <3>5, <3>6
    <3> QED
      BY <1>3, <2>2, <3>7
  <2> QED
    BY <1>7, <2>1, <2>2 DEF FinishRetry
<1>8. CASE FinishFinal
  <2> DEFINE r == cur.req
             how == IF cur.result = "ok" THEN "completed" ELSE "failed"
  <2>1. r \in Requests /\ how \in Ended /\ 0 \in Nat
    BY <1>3, <1>8 DEF FinishFinal, Ended
  <2>2. metrics' \in [Metrics -> Nat]
    BY <1>8 DEF FinishFinal, Bump, Metrics, SchedTypes
  <2>3. CASE r \in Refreshing
    <3>1. [req[r] EXCEPT !.retries = 0] \in RequestRec
      BY <2>1, RequestFields DEF SchedTypes
    <3>2. SchedTypes'
      BY <1>4, <1>8, <2>1, <2>2, <2>3, <3>1 DEF FinishFinal
    <3> QED
      BY <1>3, <1>8, <3>2 DEF FinishFinal
  <2>4. CASE r \notin Refreshing
    <3>1. Destroy(r, how, num) /\ UNCHANGED map
      BY <1>8, <2>4 DEF FinishFinal
    <3> HIDE DEF how
    <3>2. /\ req' \in [Requests -> RequestRec] /\ num' \in [Counters -> Int]
          /\ table' \in [Resources -> NodeRec] /\ msgs' \in Seq(MsgRec)
      BY <2>1, <3>1, DestroyTypes DEF SchedTypes
    <3>3. SchedTypes'
      BY <2>2, <3>1, <3>2 DEF SchedTypes
    <3> QED
      BY <1>3, <1>8, <3>3 DEF FinishFinal
  <2> QED
    BY <2>3, <2>4
<1>9. CASE InjectedOne
  <2> DEFINE r == Head(work.injected)
  <2>1. r \in Requests /\ Tail(work.injected) \in Seq(Requests)
    BY <1>9 DEF InjectedOne, LocalTypes, WorkRec
  <2>2. [req[r] EXCEPT !.life = "completed"] \in RequestRec
    BY <2>1, RequestFields DEF SchedTypes, Ended
  <2>3. [work EXCEPT !.injected = Tail(work.injected)] \in WorkRec
    BY <2>1 DEF LocalTypes, WorkRec
  <2>4. CASE Publishes[r] # None
    <3>1. Publishes[r] \in Resources /\ TRUE \in BOOLEAN /\ FALSE \in BOOLEAN
      BY <2>1, <2>4, RequestsAssumption
    <3>2. BeginPublish(Publishes[r], TRUE, FALSE, "injected")
      BY <1>9, <2>4 DEF InjectedOne
    <3>3. /\ table' \in [Resources -> NodeRec] /\ pub' \in PubRec
          /\ pc' = "publish" /\ pub'.back = "injected"
      BY <1>0, <3>1, <3>2, PublishTypes
    <3>4. SchedTypes'
      BY <1>9, <2>2, <3>3 DEF InjectedOne, SchedTypes
    <3> QED
      BY <1>0, <1>9, <2>3, <3>3, <3>4 DEF InjectedOne, ControlTypes, ListTypes,
            LocalTypes, HandsOK, Handling, lists
  <2>5. CASE Publishes[r] = None
    <3>1. UNCHANGED <<pc, table, pub>>
      BY <1>9, <2>5 DEF InjectedOne
    <3>2. SchedTypes'
      BY <1>9, <2>2, <3>1 DEF InjectedOne, SchedTypes
    <3> QED
      BY <1>9, <2>3, <3>1, <3>2 DEF InjectedOne, ControlTypes, ListTypes, LocalTypes,
            HandsOK, lists
  <2> QED
    BY <2>4, <2>5
<1>10. CASE InjectedDone
  BY <1>10 DEF InjectedDone, Goto, ControlTypes, ListTypes, SchedTypes, LocalTypes,
        HandsOK, Handling, Points, lists, sched, local
<1> QED
  BY <1>1, <1>2, <1>5, <1>6, <1>7, <1>8, <1>9, <1>10 DEF Completions

\* The inbox, publications, and the control of the loop.
LEMMA ResourceTypes ==
    ASSUME IInv, ResourceOps \/ Top \/ OnLoop \/ ExitTest \/ Wait \/ Tick
    PROVE  IInv'
<1> USE DEF IInv, TypeOK
<1>1. CASE Drain
  <2>1. Oldest(inbox) \in Seq(OpRec)
    BY DEF Oldest, ListTypes
  <2>2. [work EXCEPT !.ops = Oldest(inbox)] \in WorkRec
    BY <2>1 DEF LocalTypes, WorkRec
  <2> QED
    BY <1>1, <2>2 DEF Drain, Goto, ControlTypes, ListTypes, SchedTypes, LocalTypes,
          HandsOK, Handling, Points, sched
<1>2. CASE ApplyOp
  <2> DEFINE c == Head(work.ops)
  <2>1. c \in OpRec /\ Tail(work.ops) \in Seq(OpRec)
    BY <1>2 DEF ApplyOp, LocalTypes, WorkRec
  <2>2. c.on \in Resources /\ c.ok \in BOOLEAN /\ (c.op = "register_async") \in BOOLEAN
    BY <2>1 DEF OpRec
  <2>3. [work EXCEPT !.ops = Tail(work.ops)] \in WorkRec
    BY <2>1 DEF LocalTypes, WorkRec
  <2>4. CASE c.op = "release_async"
    <3>1. table' = [table EXCEPT ![c.on] = ReleaseNode(@)] /\ UNCHANGED <<pc, pub>>
      BY <1>2, <2>4 DEF ApplyOp
    <3>2. ReleaseNode(table[c.on]) \in NodeRec
      BY <2>2, NodeOps DEF SchedTypes
    <3>3. SchedTypes'
      BY <1>2, <2>2, <3>1, <3>2 DEF ApplyOp, SchedTypes
    <3> QED
      BY <1>2, <2>3, <3>1, <3>3 DEF ApplyOp, ControlTypes, ListTypes, LocalTypes,
            HandsOK, lists
  <2>5. CASE c.op # "release_async"
    <3>1. BeginPublish(c.on, c.ok, c.op = "register_async", "ops")
      BY <1>2, <2>5 DEF ApplyOp
    <3>2. "ops" \in Callers
      BY DEF Callers
    <3>3. /\ table' \in [Resources -> NodeRec] /\ pub' \in PubRec
          /\ pc' = "publish" /\ pub'.back = "ops"
      BY <2>2, <3>1, <3>2, PublishTypes
    <3>4. SchedTypes'
      BY <1>2, <3>3 DEF ApplyOp, SchedTypes
    <3> QED
      BY <1>2, <2>3, <3>3, <3>4 DEF ApplyOp, ControlTypes, ListTypes, LocalTypes,
            HandsOK, Handling, Points, lists
  <2> QED
    BY <2>4, <2>5
<1>3. CASE OpsDone
  BY <1>3 DEF OpsDone, Goto, ControlTypes, ListTypes, SchedTypes, LocalTypes,
        HandsOK, Handling, Points, lists, sched, local
<1>4. CASE RequeueRead
  <2>1. [pub EXCEPT !.snap = pending] \in PubRec
    BY DEF ListTypes, LocalTypes, PubRec
  <2>2. /\ [pub EXCEPT !.snap = pending].back = pub.back
        /\ [pub EXCEPT !.snap = pending].waiters = pub.waiters
    BY DEF LocalTypes, PubRec
  <2> QED
    BY <1>4, <2>1, <2>2 DEF RequeueRead, Goto, ControlTypes, ListTypes, SchedTypes,
          LocalTypes, HandsOK, Handling, Points, lists, sched
<1>5. CASE RequeueWrite
  <2>1. Waiter \in Requests /\ Tail(pub.waiters) \in Seq(Requests)
    BY <1>5 DEF RequeueWrite, HandsOK, Waiter, LocalTypes, PubRec
  <2>2. <<Waiter>> \o pub.snap \in Seq(Requests)
    BY <2>1 DEF LocalTypes, PubRec
  <2>3. \A p \in PubRec, q, e \in Seq(Requests) :
            /\ [p EXCEPT !.waiters = q, !.snap = e] \in PubRec
            /\ [p EXCEPT !.waiters = q, !.snap = e].back = p.back
    BY DEF PubRec
  <2>4. pub' = [pub EXCEPT !.waiters = Tail(pub.waiters), !.snap = << >>]
    BY <1>5 DEF RequeueWrite
  <2>5. pub \in PubRec /\ << >> \in Seq(Requests)
    BY DEF LocalTypes
  <2>6. pub' \in PubRec /\ pub'.back = pub.back
    BY <2>1, <2>3, <2>4, <2>5
  <2> QED
    BY <1>5, <2>2, <2>6 DEF RequeueWrite, Goto, ControlTypes, ListTypes, SchedTypes,
          LocalTypes, HandsOK, Handling, Points, sched
<1>6. CASE FailWaiter
  <2>1. CASE Crash
    BY <2>1 DEF Crash, Goto, ControlTypes, ListTypes, SchedTypes, LocalTypes, HandsOK,
          Handling, Points, lists, sched, local
  <2>2. CASE /\ Destroy(Waiter, "failed", num)
             /\ pub' = [pub EXCEPT !.waiters = Tail(@)]
             /\ UNCHANGED <<pc, keepRunning, lists, map, metrics, running, work, cur,
                            todo>>
    <3>1. Waiter \in Requests /\ Tail(pub.waiters) \in Seq(Requests)
      BY <1>6 DEF FailWaiter, Waiter, LocalTypes, PubRec
    <3>2. num \in [Counters -> Int] /\ "failed" \in Ended
      BY DEF SchedTypes, Ended
    <3>3. /\ req' \in [Requests -> RequestRec] /\ num' \in [Counters -> Int]
          /\ table' \in [Resources -> NodeRec] /\ msgs' \in Seq(MsgRec)
      BY <2>2, <3>1, <3>2, DestroyTypes
    <3>4. SchedTypes'
      BY <2>2, <3>3 DEF SchedTypes
    <3>5. pub' \in PubRec /\ pub'.back = pub.back
      BY <2>2, <3>1 DEF LocalTypes, PubRec
    <3> QED
      BY <1>6, <2>2, <3>4, <3>5 DEF FailWaiter, ControlTypes, ListTypes, LocalTypes,
            HandsOK, lists
  <2> QED
    BY <1>6, <2>1, <2>2 DEF FailWaiter
<1>7. CASE PublishEnd
  <2>1. pub.back \in Callers /\ NoPub \in PubRec
    BY DEF LocalTypes, PubRec, NoPub, Callers
  <2> QED
    BY <1>7, <2>1 DEF PublishEnd, Goto, ControlTypes, ListTypes, SchedTypes, LocalTypes,
          HandsOK, Handling, Callers, Points, lists, sched
<1>8. CASE Top
  <2>1. pc' \in {"onloop", "idle"} /\ (inbox' = << >> \/ inbox' = inbox)
    BY <1>8 DEF Top, Goto
  <2>2. inbox' \in Seq(OpRec)
    <3>1. << >> \in Seq(OpRec) /\ inbox \in Seq(OpRec)
      BY DEF ListTypes
    <3> QED
      BY <2>1, <3>1, Zenon
  <2>3. UNCHANGED <<pending, cancelled, injected>>
    BY <1>8 DEF Top
  <2>4. ListTypes'
    BY <2>2, <2>3 DEF ListTypes
  <2> QED
    BY <1>8, <2>1, <2>4 DEF Top, ControlTypes, SchedTypes, LocalTypes, HandsOK,
          Handling, Points, sched, local
<1>9. CASE OnLoop
  BY <1>9 DEF OnLoop, Goto, ControlTypes, ListTypes, SchedTypes, LocalTypes,
        HandsOK, Handling, Points, lists, sched, local
<1>10. CASE ExitTest
  BY <1>10 DEF ExitTest, Goto, ControlTypes, ListTypes, SchedTypes, LocalTypes,
        HandsOK, Handling, Points, lists, sched, local
<1>11. CASE Wait
  BY <1>11 DEF Wait, Goto, ControlTypes, ListTypes, SchedTypes, LocalTypes,
        HandsOK, Handling, Points, lists, sched, local
<1>12. CASE Tick
  <2>1. ASSUME NEW r \in Requests
        PROVE  req[r] \in RequestRec /\ Later(req[r]) \in RequestRec
    <3>1. req[r] \in RequestRec /\ req[r].due - 1 \in Int
      BY DEF SchedTypes, RequestRec
    <3>2. [req[r] EXCEPT !.due = req[r].due - 1] \in RequestRec
      BY <3>1, RequestFields
    <3> QED
      BY <3>1, <3>2 DEF Later
  <2>2. req' \in [Requests -> RequestRec]
    BY <1>12, <2>1 DEF Tick
  <2> QED
    BY <1>12, <2>2 DEF Tick, ControlTypes, ListTypes, SchedTypes, LocalTypes, HandsOK,
          lists, local
<1> QED
  BY <1>1, <1>2, <1>3, <1>4, <1>5, <1>6, <1>7, <1>8, <1>9, <1>10, <1>11, <1>12
  DEF ResourceOps

\* The types hold initially.
LEMMA InitTypes == Init => IInv
<1> SUFFICES ASSUME Init PROVE IInv
  OBVIOUS
<1>1. req \in [Requests -> RequestRec]
  BY DEF Init, NewRequest, RequestRec
<1>2. table \in [Resources -> NodeRec]
  <2>1. NoNode \in NodeRec
    BY DEF NoNode, NodeRec, NodeStates
  <2>2. DeclareNode(NoNode) \in NodeRec
    BY <2>1, NodeOps
  <2> QED
    BY <2>1, <2>2 DEF Init
<1>3. SchedTypes
  BY <1>1, <1>2 DEF Init, SchedTypes
<1>4. ControlTypes /\ ListTypes
  BY DEF Init, ControlTypes, ListTypes, Points
<1>5. LocalTypes
  <2>1. NoWork \in WorkRec
    BY DEF NoWork, WorkRec
  <2>2. NoCur \in CurRec
    BY DEF NoCur, CurRec, Results
  <2>3. NoPub \in PubRec
    BY DEF NoPub, PubRec, Callers
  <2> QED
    BY <2>1, <2>2, <2>3 DEF Init, LocalTypes
<1> QED
  BY <1>3, <1>4, <1>5 DEF Init, IInv, TypeOK, HandsOK, Handling

\* Every step keeps the types.
LEMMA NextTypes == IInv /\ [Next]_vars => IInv'
<1> SUFFICES ASSUME IInv, [Next]_vars PROVE IInv'
  OBVIOUS
<1>1. CASE UNCHANGED vars
  BY <1>1 DEF vars, lists, sched, local, IInv, TypeOK, ControlTypes, ListTypes,
        SchedTypes, LocalTypes, HandsOK
<1>2. CASE LoopStep
  BY <1>2, PendingTypes, QueueTypes, CompletionTypes, ResourceTypes
  DEF LoopStep, Scheduler
<1>3. CASE Tick
  BY <1>3, ResourceTypes
<1>4. CASE \E r \in Requests : TransferDone(r)
  BY <1>4, QueueTypes
<1>5. CASE \E c \in Calls : Call(c)
  BY <1>5, CallTypes
<1> QED
  BY <1>1, <1>2, <1>3, <1>4, <1>5 DEF Next, Over

\* Every variable of the event loop keeps its type, whatever the requests, the
\* resources and the calls are: in particular the loop thread never dereferences
\* a list element, a map entry or an inbox operation that is not one.
THEOREM TypeCorrect == Spec => []TypeOK
<1>1. Init => IInv
  BY InitTypes
<1>2. IInv /\ [Next]_vars => IInv'
  BY NextTypes
<1>3. IInv => TypeOK
  BY DEF IInv
<1> QED
  BY <1>1, <1>2, <1>3, PTL DEF Spec

----------------------------------------------------------------------------
(* No wake-up is missed: only unpublished resources have waiters. *)

NoStrandedWaiter(n) == n.blocked # << >> => n.st = "empty"

\* No operation on a node strands a waiter; a request may only be added to one
\* that is not published.
LEMMA NodeWaiters ==
    ASSUME NEW n \in NodeRec, NoStrandedWaiter(n)
    PROVE  /\ NoStrandedWaiter(AddRefNode(n)) /\ NoStrandedWaiter(AutoNode(n))
           /\ NoStrandedWaiter(RetainNode(n)) /\ NoStrandedWaiter(ReleaseNode(n))
           /\ NoStrandedWaiter(DropDep(n))
           /\ \A r \in Requests : ~Published(n) => NoStrandedWaiter(BlockNode(n, r))
           /\ \A ok, own \in BOOLEAN : NoStrandedWaiter(PublishNode(n, ok, own))
<1> DEFINE m == GetOrCreate(n)
<1>1. m \in NodeRec
  BY NodeOps
<1>2. NoStrandedWaiter(NoNode) /\ NoStrandedWaiter(m)
  BY DEF NoStrandedWaiter, NoNode, GetOrCreate
<1>3. ~Published(n) => m.st = "empty"
  BY DEF Published, GetOrCreate, NoNode, NodeRec, NodeStates
<1>4. \A k \in NodeRec, i, h \in Int :
          NoStrandedWaiter(k) => /\ NoStrandedWaiter([k EXCEPT !.refcnt = i])
                                 /\ NoStrandedWaiter([k EXCEPT !.refcnt = i, !.held = h])
  BY DEF NoStrandedWaiter, NodeRec
<1> HIDE DEF m
<1>5. NoStrandedWaiter(AddRefNode(n))
  <2>1. m.refcnt + 1 \in Int /\ m.held + 1 \in Int
    BY <1>1 DEF NodeRec
  <2>2. AddRefNode(n) = [m EXCEPT !.refcnt = m.refcnt + 1, !.held = m.held + 1]
    BY DEF AddRefNode, m
  <2> QED
    BY <1>1, <1>2, <1>4, <2>1, <2>2
<1>6. NoStrandedWaiter(AutoNode(n))
  <2>1. [m EXCEPT !.auto = TRUE].blocked = m.blocked
        /\ [m EXCEPT !.auto = TRUE].st = m.st
    BY <1>1 DEF NodeRec
  <2> QED
    BY <1>2, <2>1 DEF AutoNode, m, NoStrandedWaiter
<1>7. NoStrandedWaiter(RetainNode(n))
  <2>1. m.refcnt + 1 \in Int
    BY <1>1 DEF NodeRec
  <2>2. RetainNode(n) = [m EXCEPT !.refcnt = m.refcnt + 1]
    BY DEF RetainNode, m
  <2> QED
    BY <1>1, <1>2, <1>4, <2>1, <2>2
<1>8. \A k \in NodeRec : NoStrandedWaiter(k) => NoStrandedWaiter(ReleaseNode(k))
  <2> SUFFICES ASSUME NEW k \in NodeRec, NoStrandedWaiter(k)
               PROVE  NoStrandedWaiter(ReleaseNode(k))
    OBVIOUS
  <2> DEFINE i == k.refcnt - 1
             h == IF k.held > 0 THEN k.held - 1 ELSE 0
  <2>1. i \in Int /\ h \in Int
    BY DEF NodeRec
  <2>2. ReleaseNode(k) \in {k, NoNode, [k EXCEPT !.refcnt = i, !.held = h]}
    BY DEF ReleaseNode
  <2> HIDE DEF i, h
  <2> QED
    BY <1>2, <1>4, <2>1, <2>2
<1>9. NoStrandedWaiter(DropDep(n))
  <2> DEFINE i == IF n.refcnt > 0 THEN n.refcnt - 1 ELSE 0
             k == [n EXCEPT !.refcnt = i]
  <2>1. i \in Int
    BY DEF NodeRec
  <2>2. DropDep(n) \in {n, k, ReleaseNode(k)}
    BY DEF DropDep, MaybeAutorelease
  <2> HIDE DEF i
  <2>3. k \in NodeRec /\ NoStrandedWaiter(k)
    BY <1>4, <2>1, NodeFields
  <2> HIDE DEF k
  <2> QED
    BY <1>8, <2>2, <2>3
<1>10. ASSUME NEW r \in Requests, ~Published(n)
       PROVE  NoStrandedWaiter(BlockNode(n, r))
  BY <1>1, <1>3, <1>10 DEF NoStrandedWaiter, BlockNode, m, NodeRec
<1>11. ASSUME NEW ok \in BOOLEAN, NEW own \in BOOLEAN
       PROVE  NoStrandedWaiter(PublishNode(n, ok, own))
  <2>1. PublishNode(n, ok, own).blocked = << >>
    BY <1>1 DEF PublishNode, m, NodeRec
  <2> QED
    BY <2>1 DEF NoStrandedWaiter
<1> QED
  BY <1>5, <1>6, <1>7, <1>8, <1>9, <1>10, <1>11

\* Neither does retaining or releasing the dependencies of a request.
Unstranded(t) == \A id \in Resources : NoStrandedWaiter(t[id])
LEMMA DepsWaiters ==
    ASSUME NEW t \in [Resources -> NodeRec], Unstranded(t), NEW r \in Requests
    PROVE  Unstranded(RetainDeps(t, r)) /\ Unstranded(ReleaseDeps(t, r))
<1>1. ASSUME NEW id \in Resources
      PROVE  /\ NoStrandedWaiter(t[id]) /\ NoStrandedWaiter(RetainNode(t[id]))
             /\ NoStrandedWaiter(DropDep(t[id]))
  BY NodeWaiters DEF Unstranded
<1> QED
  BY <1>1 DEF Unstranded, RetainDeps, ReleaseDeps

\* Publishing a resource takes its waiters off it.
LEMMA PublishWaiters ==
    ASSUME SchedTypes, Unstranded(table), NEW id \in Resources, NEW ok \in BOOLEAN,
           NEW own \in BOOLEAN, NEW back, BeginPublish(id, ok, own, back)
    PROVE  Unstranded(table)'
<1>1. table[id] \in NodeRec /\ NoStrandedWaiter(table[id])
  BY DEF SchedTypes, Unstranded
<1>2. NoStrandedWaiter(PublishNode(table[id], ok, own))
  BY <1>1, NodeWaiters
<1>3. table' = [table EXCEPT ![id] = PublishNode(table[id], ok, own)]
  BY DEF BeginPublish
<1> QED
  BY <1>2, <1>3 DEF Unstranded, SchedTypes

\* Destroying or starting a request releases at most its dependencies.
LEMMA RequestWaiters ==
    ASSUME SchedTypes, Unstranded(table), NEW r \in Requests,
           \/ \E how, n : Destroy(r, how, n)
           \/ \E m, n : Start(r, m, n)
    PROVE  Unstranded(table)'
<1>1. table' = table \/ table' = ReleaseDeps(table, r)
  BY DEF Destroy, Start, StartRated, StartUnprepared, StartTransfer
<1> QED
  BY <1>1, DepsWaiters DEF SchedTypes

\* Every step keeps the waiters where a publication will find them.
LEMMA NextWaiters ==
    ASSUME IInv, Unstranded(table), [Next]_vars
    PROVE  Unstranded(table)'
<1>0. SchedTypes /\ LocalTypes /\ HandsOK /\ table \in [Resources -> NodeRec]
  BY DEF IInv, TypeOK, SchedTypes
<1>1. CASE UNCHANGED table
  BY <1>1 DEF Unstranded
<1>2. CASE CancelOne
  <2>1. Head(work.cancelled) \in Requests
    BY <1>0, <1>2 DEF CancelOne, LocalTypes, WorkRec
  <2>2. \/ UNCHANGED table
        \/ \E n : Destroy(Head(work.cancelled), "cancelled", n)
    BY <1>2 DEF CancelOne, Crash, sched
  <2> QED
    BY <1>0, <1>1, <2>1, <2>2, RequestWaiters
<1>3. CASE DropCancelled
  BY <1>0, <1>3, RequestWaiters DEF DropCancelled, HandsOK, Handling
<1>4. CASE Admit
  <2> DEFINE r == cur.req
             t == Pinned(r)
  <2>1. r \in Requests
    BY <1>0, <1>4 DEF Admit, HandsOK, Handling
  <2>2. t \in [Resources -> NodeRec] /\ Unstranded(t)
    BY <1>0, <2>1, DepsTypes, DepsWaiters DEF Pinned
  <2>3. \/ table' = t
        \/ \E id \in Unmet(t, r) : table' = [t EXCEPT ![id] = BlockNode(@, r)]
    BY <1>4 DEF Admit
  <2> HIDE DEF t
  <2>4. ASSUME NEW id \in Unmet(t, r), table' = [t EXCEPT ![id] = BlockNode(@, r)]
        PROVE  Unstranded(table)'
    <3>1. id \in Resources /\ ~Published(t[id])
      BY <2>1, RequestsAssumption DEF Unmet
    <3>2. NoStrandedWaiter(BlockNode(t[id], r))
      BY <2>1, <2>2, <3>1, NodeWaiters DEF Unstranded
    <3> QED
      BY <2>2, <2>4, <3>1, <3>2 DEF Unstranded
  <2> QED
    BY <2>2, <2>3, <2>4 DEF Unstranded
<1>5. CASE Launch
  <2>1. cur.req \in Requests
    BY <1>0, <1>5 DEF Launch, HandsOK, Handling
  <2>2. UNCHANGED table \/ Start(cur.req, map, num)
    BY <1>5 DEF Launch
  <2> QED
    BY <1>0, <1>1, <2>1, <2>2, RequestWaiters
<1>6. ASSUME NEW k \in Maps, NEW r \in Firsts(k), NEW n,
             Limit(r, k, n) \/ Start(r, Take(map, k, r), n)
      PROVE  Unstranded(table)'
  <2>1. r \in Requests
    BY <1>0 DEF Firsts, SchedTypes
  <2>2. UNCHANGED table \/ Start(r, Take(map, k, r), n)
    BY <1>6 DEF Limit
  <2> QED
    BY <1>0, <1>1, <2>1, <2>2, RequestWaiters
<1>7. CASE MoveRated \/ MoveWaiting("refresh") \/ MoveWaiting("inactive")
  BY <1>6, <1>7 DEF MoveRated, MoveWaiting, Maps
<1>8. CASE CompleteOne
  <2> DEFINE m == Head(msgs)
  <2>0. m \in MsgRec
    BY <1>0, <1>8 DEF CompleteOne, SchedTypes
  <2>1. m.req \in Requests
    BY <2>0 DEF MsgRec
  <2>2. \/ UNCHANGED table
        \/ /\ Publishes[m.req] # None
           /\ BeginPublish(Publishes[m.req], m.result = "ok", FALSE, "finish")
    BY <1>8 DEF CompleteOne, Signals
  <2>3. Publishes[m.req] # None => Publishes[m.req] \in Resources
    BY <2>1, RequestsAssumption
  <2> QED
    BY <1>0, <1>1, <2>2, <2>3, PublishWaiters
<1>9. CASE FinishFinal
  <2>1. cur.req \in Requests
    BY <1>0, <1>9 DEF FinishFinal, Finishes, HandsOK, Handling
  <2>2. UNCHANGED table \/ \E how, n : Destroy(cur.req, how, n)
    BY <1>9 DEF FinishFinal, Requeue
  <2> QED
    BY <1>0, <1>1, <2>1, <2>2, RequestWaiters
<1>10. CASE InjectedOne
  <2> DEFINE r == Head(work.injected)
  <2>1. r \in Requests
    BY <1>0, <1>10 DEF InjectedOne, LocalTypes, WorkRec
  <2>2. \/ UNCHANGED table
        \/ Publishes[r] # None /\ BeginPublish(Publishes[r], TRUE, FALSE, "injected")
    BY <1>10 DEF InjectedOne
  <2>3. Publishes[r] # None => Publishes[r] \in Resources
    BY <2>1, RequestsAssumption
  <2> QED
    BY <1>0, <1>1, <2>2, <2>3, PublishWaiters
<1>11. CASE ApplyOp
  <2> DEFINE c == Head(work.ops)
  <2>0. c \in OpRec
    BY <1>0, <1>11 DEF ApplyOp, LocalTypes, WorkRec
  <2>1. c.on \in Resources /\ c.ok \in BOOLEAN
    BY <2>0 DEF OpRec
  <2>2. \/ table' = [table EXCEPT ![c.on] = ReleaseNode(@)]
        \/ BeginPublish(c.on, c.ok, c.op = "register_async", "ops")
    BY <1>11 DEF ApplyOp
  <2>3. NoStrandedWaiter(ReleaseNode(table[c.on]))
    BY <1>0, <2>1, NodeWaiters DEF Unstranded
  <2>4. CASE table' = [table EXCEPT ![c.on] = ReleaseNode(@)]
    BY <1>0, <2>3, <2>4 DEF Unstranded
  <2> QED
    BY <1>0, <2>1, <2>2, <2>4, PublishWaiters
<1>12. CASE FailWaiter
  <2>1. Waiter \in Requests
    BY <1>0, <1>12 DEF FailWaiter, Waiter, LocalTypes, PubRec
  <2>2. UNCHANGED table \/ \E n : Destroy(Waiter, "failed", n)
    BY <1>12 DEF FailWaiter, Crash, sched
  <2> QED
    BY <1>0, <1>1, <2>1, <2>2, RequestWaiters
<1>13. ASSUME NEW c \in Calls, Call(c)
       PROVE  Unstranded(table)'
  <2>1. CASE NodeCall(c)
    <3>1. c.on \in Resources
      BY <2>1, CallsAssumption DEF NodeCall, Makes, LoopThread
    <3>2. /\ NoStrandedWaiter(ReleaseNode(table[c.on]))
          /\ NoStrandedWaiter(AddRefNode(table[c.on]))
          /\ NoStrandedWaiter(AutoNode(table[c.on]))
      BY <1>0, <3>1, NodeWaiters DEF Unstranded
    <3>3. c.op \in {"release", "addref", "autorelease"}
      BY <2>1 DEF NodeCall, Makes
    <3> QED
      BY <1>0, <2>1, <3>1, <3>2, <3>3 DEF NodeCall, Unstranded
  <2>2. CASE PublishCall(c)
    <3>1. c.on \in Resources /\ c.ok \in BOOLEAN
      BY <2>2, CallsAssumption DEF PublishCall, Makes, LoopThread
    <3>2. BeginPublish(c.on, c.ok, c.op = "register", pc)
      BY <2>2 DEF PublishCall
    <3> QED
      BY <1>0, <3>1, <3>2, PublishWaiters
  <2>3. CASE DestroyLoop(c)
    <3>1. UNCHANGED table \/ table' = [id \in Resources |-> NoNode]
      BY <2>3 DEF DestroyLoop, Teardown, Crash, sched
    <3> QED
      BY <1>1, <3>1 DEF Unstranded, NoStrandedWaiter, NoNode
  <2>4. CASE RequestSubmit(c) \/ LoopSubmit(c) \/ Cancel(c) \/ Inject(c) \/ Stop(c)
             \/ Post(c) \/ Run(c)
    BY <1>1, <2>4 DEF RequestSubmit, LoopSubmit, Enlist, Cancel, Inject, Stop, Post,
          Run, sched
  <2> QED
    BY <1>13, <2>1, <2>2, <2>3, <2>4 DEF Call
<1>14. CASE \/ Top \/ OnLoop \/ Detach \/ CancelsDone \/ TakePending \/ EnterRated
            \/ MergeRated \/ PerformEnd \/ ExitTest \/ Wait \/ Tick
            \/ \E r \in Requests : TransferDone(r)
            \/ LeaveWaiting("refresh", "inactive")
            \/ LeaveWaiting("inactive", "perform")
  BY <1>1, <1>14 DEF Top, OnLoop, Detach, CancelsDone, TakePending, EnterRated,
        MergeRated, PerformEnd, ExitTest, Wait, Tick, TransferDone, LeaveWaiting, sched
<1>15. CASE \/ CompletionsDone \/ Finish429 \/ FinishDelay \/ FinishRetry
            \/ InjectedDone \/ Drain \/ OpsDone \/ RequeueRead \/ RequeueWrite
            \/ PublishEnd \/ UNCHANGED vars
  BY <1>1, <1>15 DEF CompletionsDone, Finish429, FinishDelay, FinishRetry, RetryLater,
        Requeue, Crash, InjectedDone, Drain, OpsDone, RequeueRead, RequeueWrite,
        PublishEnd, sched, vars
<1> QED
  BY <1>2, <1>3, <1>4, <1>5, <1>7, <1>8, <1>9, <1>10, <1>11, <1>12, <1>13, <1>14,
     <1>15
  DEF Next, Over, LoopStep, Scheduler, Completions, ResourceOps

\* Only a resource that is not published has waiters, in every instance: between
\* the test that blocks a request and the publication that wakes it no thread can
\* slip a publication in, so no request waits for one that already happened.
THEOREM WakeupsNotMissed == Spec => []WaitersAreUnpublished
<1>1. Init => IInv /\ Unstranded(table)
  <2>1. NoStrandedWaiter(NoNode) /\ NoStrandedWaiter(DeclareNode(NoNode))
    BY DEF NoStrandedWaiter, NoNode, DeclareNode
  <2> QED
    BY <2>1, InitTypes DEF Init, Unstranded
<1>2. IInv /\ Unstranded(table) /\ [Next]_vars => IInv' /\ Unstranded(table)'
  BY NextTypes, NextWaiters
<1>3. Unstranded(table) => WaitersAreUnpublished
  BY DEF Unstranded, NoStrandedWaiter, WaitersAreUnpublished
<1> QED
  BY <1>1, <1>2, <1>3, PTL DEF Spec

----------------------------------------------------------------------------
(* The limit on transfers. *)

\* Starting a request when there is room for one leaves the limit respected.
LEMMA StartBounded ==
    ASSUME NEW r, NEW m, NEW n \in [Counters -> Int], ~AtCapacity,
           num \in [Counters -> Int], n["queued"] = num["queued"], Start(r, m, n)
    PROVE  QueuedBounded'
<1>1. num["queued"] \in Int /\ num["queued"] < MaxConcurrent /\ MaxConcurrent \in Int
  BY BoundsAssumption DEF AtCapacity, Counters
<1>2. num' = n \/ num' = [n EXCEPT !["multi"] = @ + 1, !["queued"] = @ + 1]
  BY DEF Start, StartRated, StartUnprepared, StartTransfer
<1>3. num'["queued"] \in {n["queued"], n["queued"] + 1}
  BY <1>2 DEF Counters
<1> QED
  BY <1>1, <1>3 DEF QueuedBounded

\* Nothing but a start raises the count.
LEMMA NextBounded ==
    ASSUME IInv, QueuedBounded, [Next]_vars
    PROVE  QueuedBounded'
<1>0. num \in [Counters -> Int] /\ num["queued"] \in Int /\ MaxConcurrent \in Int
  BY BoundsAssumption DEF IInv, TypeOK, SchedTypes, Counters
<1>1. ASSUME num'["queued"] = num["queued"] \/ num'["queued"] = num["queued"] - 1
      PROVE  QueuedBounded'
  BY <1>0, <1>1 DEF QueuedBounded
<1>2. ASSUME NEW n \in [Counters -> Int], NEW r,
             n["queued"] = num["queued"] \/ n["queued"] = num["queued"] - 1,
             num' = Cleaned(n, r)
      PROVE  QueuedBounded'
  <2>1. num'["queued"] = n["queued"]
    BY <1>2 DEF Cleaned, Counters
  <2> QED
    BY <1>1, <1>2, <2>1
<1>3. CASE UNCHANGED num
  BY <1>1, <1>3
<1>4. CASE CancelOne
  <2> DEFINE k == CancelledFrom(Head(work.cancelled))
             n == [num EXCEPT ![k] = @ - 1]
  <2>1. k \in {"queued", "refresh", "inactive"}
    BY DEF CancelledFrom, Home
  <2>2. n \in [Counters -> Int]
        /\ (n["queued"] = num["queued"] \/ n["queued"] = num["queued"] - 1)
    BY <1>0, <2>1 DEF Counters
  <2>3. UNCHANGED num \/ num' = Cleaned(n, Head(work.cancelled))
    BY <1>4 DEF CancelOne, Destroy, Crash, sched
  <2> HIDE DEF n
  <2> QED
    BY <1>2, <1>3, <2>2, <2>3
<1>5. CASE DropCancelled \/ FailWaiter
  <2>1. UNCHANGED num \/ \E r : num' = Cleaned(num, r)
    BY <1>5 DEF DropCancelled, FailWaiter, Destroy, Crash, sched
  <2> QED
    BY <1>0, <1>2, <1>3, <2>1
<1>6. ASSUME NEW r, NEW q, Requeue(r, q)
      PROVE  QueuedBounded'
  <2>1. num' = [Cleaned(num, r) EXCEPT ![Home(r)] = @ + 1] /\ Home(r) # "queued"
    BY <1>6 DEF Requeue, Requeued, Home
  <2>2. num'["queued"] = num["queued"]
    BY <1>0, <2>1 DEF Cleaned, Counters
  <2> QED
    BY <1>1, <2>2
<1>7. CASE FinishDelay \/ FinishRetry \/ FinishFinal
  <2>1. \/ UNCHANGED num
        \/ \E r : num' = Cleaned(num, r)
        \/ \E r, q : Requeue(r, q)
    BY <1>7 DEF FinishDelay, FinishRetry, FinishFinal, RetryLater, Destroy, Crash, sched
  <2> QED
    BY <1>0, <1>2, <1>3, <1>6, <2>1
<1>8. CASE Launch
  <2> DEFINE r == cur.req
  <2>1. \/ ~AtCapacity /\ Start(r, map, num)
        \/ num' = [num EXCEPT ![Home(r)] = @ + 1]
    BY <1>8 DEF Launch, Ready
  <2>2. CASE num' = [num EXCEPT ![Home(r)] = @ + 1]
    BY <1>0, <1>1, <2>2 DEF Home, Counters
  <2> QED
    BY <1>0, <2>1, <2>2, StartBounded
<1>9. ASSUME NEW k, NEW r, NEW n \in [Counters -> Int], n["queued"] = num["queued"],
             Limit(r, k, n) \/ (~AtCapacity /\ Start(r, Take(map, k, r), n))
      PROVE  QueuedBounded'
  <2>1. CASE Limit(r, k, n)
    BY <1>1, <1>9, <2>1 DEF Limit
  <2> QED
    BY <1>0, <1>9, <2>1, StartBounded
<1>10. CASE MoveRated
  <2>1. \E r : Limit(r, "root", num) \/ (~AtCapacity /\ Start(r, Take(map, "root", r), num))
    BY <1>10 DEF MoveRated, Ready
  <2> QED
    BY <1>0, <1>9, <2>1
<1>11. ASSUME NEW k \in {"refresh", "inactive"}, MoveWaiting(k)
       PROVE  QueuedBounded'
  <2> DEFINE n == [num EXCEPT ![k] = @ - 1]
  <2>1. n \in [Counters -> Int] /\ n["queued"] = num["queued"]
    BY <1>0 DEF Counters
  <2> HIDE DEF n
  <2>2. \E r : Limit(r, k, n) \/ (~AtCapacity /\ Start(r, Take(map, k, r), n))
    BY <1>11 DEF MoveWaiting, Ready, n
  <2> QED
    BY <1>9, <2>1, <2>2
<1>12. CASE CompleteOne
  <2>1. num'["queued"] = num["queued"] - 1
    BY <1>0, <1>12 DEF CompleteOne, Counters
  <2> QED
    BY <1>1, <2>1
<1>13. CASE \E c \in Calls : Call(c)
  BY <1>3, <1>13 DEF Call, RequestSubmit, LoopSubmit, Enlist, Cancel, Inject, Stop, Post,
        NodeCall, PublishCall, Run, DestroyLoop, Teardown, Crash, sched
<1>14. CASE \/ Top \/ OnLoop \/ Detach \/ CancelsDone \/ TakePending \/ Admit
            \/ EnterRated \/ MergeRated \/ PerformEnd \/ ExitTest \/ Wait \/ Tick
            \/ \E r \in Requests : TransferDone(r)
            \/ LeaveWaiting("refresh", "inactive")
            \/ LeaveWaiting("inactive", "perform")
  BY <1>3, <1>14 DEF Top, OnLoop, Detach, CancelsDone, TakePending, Admit, EnterRated,
        MergeRated, PerformEnd, ExitTest, Wait, Tick, TransferDone, LeaveWaiting, sched
<1>15. CASE \/ CompletionsDone \/ Finish429 \/ InjectedOne \/ InjectedDone \/ Drain
            \/ ApplyOp \/ OpsDone \/ RequeueRead \/ RequeueWrite \/ PublishEnd
            \/ UNCHANGED vars
  BY <1>3, <1>15 DEF CompletionsDone, Finish429, InjectedOne, InjectedDone, Drain,
        ApplyOp, OpsDone, RequeueRead, RequeueWrite, PublishEnd, sched, vars
<1>16. CASE Scheduler
  BY <1>4, <1>5, <1>8, <1>10, <1>11, <1>14, <1>16 DEF Scheduler
<1>17. CASE Completions \/ ResourceOps
  BY <1>5, <1>7, <1>12, <1>15, <1>17 DEF Completions, ResourceOps
<1> QED
  BY <1>13, <1>14, <1>15, <1>16, <1>17 DEF Next, Over, LoopStep

\* num_queued_requests never passes max_concurrent_requests, however requests are
\* submitted, cancelled, retried, requeued or answered with a 429.
THEOREM AdmissionBounded == Spec => []QueuedBounded
<1>1. Init => IInv /\ QueuedBounded
  <2>1. Init => QueuedBounded
    BY BoundsAssumption DEF Init, QueuedBounded, Counters
  <2> QED
    BY <2>1, InitTypes
<1>2. IInv /\ QueuedBounded /\ [Next]_vars => IInv' /\ QueuedBounded'
  BY NextTypes, NextBounded
<1> QED
  BY <1>1, <1>2, PTL DEF Spec
=============================================================================
