----------------------- MODULE EventLoopCancelProofs ------------------------
(***************************************************************************)
(* Cancellations: a cancelled request that lives is where the loop will    *)
(* look for it, so that it is not started, is ended, and nothing undefined *)
(* happens. With that, the loop implements the life cycle of RequestLife,  *)
(* step by step.                                                           *)
(***************************************************************************)
EXTENDS EventLoopLifeProofs

----------------------------------------------------------------------------
(* What a step does to the lists the loop looks at and to the marks in the *)
(* requests.                                                               *)

\* What a step leaves of pending_requests and cancelled_requests.
Looks == \/ UNCHANGED <<pending, work.pending, cancelled, work.cancelled>>
         \/ Detach \/ TakePending \/ RequeueWrite \/ (CancelOne /\ ~Crash)
         \/ \E c \in Calls : RequestSubmit(c) \/ LoopSubmit(c) \/ Cancel(c)
         \/ pc = "idle" /\ Teardown

\* Which steps these are.
LEMMA NextLooks ==
    ASSUME EInv, [Next]_vars
    PROVE  Looks
<1>0. work \in WorkRec
  BY Given DEF LocalTypes
<1>1. ASSUME UNCHANGED <<pending, cancelled>>,
             work' = work \/ (\E x : work' = [work EXCEPT !.injected = x])
                          \/ (\E x : work' = [work EXCEPT !.ops = x])
      PROVE  Looks
  <2>1. work'.pending = work.pending /\ work'.cancelled = work.cancelled
    BY <1>0, <1>1 DEF WorkRec
  <2> QED
    BY <1>1, <2>1 DEF Looks
<1>2. CASE \E c \in Calls : Call(c)
  <2> PICK c \in Calls : Call(c)
    BY <1>2
  <2>1. CASE Inject(c) \/ Stop(c) \/ Post(c) \/ NodeCall(c) \/ PublishCall(c) \/ Run(c)
    <3>1. UNCHANGED <<pending, cancelled, work>>
      BY <2>1 DEF Inject, Stop, Post, NodeCall, PublishCall, Run, lists, local
    <3> QED
      BY <1>1, <3>1
  <2>2. CASE DestroyLoop(c)
    <3>1. pc = "idle" /\ (Teardown \/ UNCHANGED <<pending, cancelled, work>>)
      BY <2>2 DEF DestroyLoop, Crash, lists, local
    <3> QED
      BY <1>1, <3>1 DEF Looks
  <2> QED
    BY <2>1, <2>2 DEF Call, Looks
<1>3. CASE Scheduler
  <2>1. CASE Detach \/ TakePending \/ (CancelOne /\ ~Crash)
    BY <2>1 DEF Looks
  <2>2. CASE ~(Detach \/ TakePending \/ (CancelOne /\ ~Crash))
    <3>1. UNCHANGED <<pending, cancelled, work>>
      BY <1>3, <2>2 DEF Scheduler, CancelOne, CancelsDone, DropCancelled, Admit, Launch,
            EnterRated, MoveRated, MergeRated, MoveWaiting, LeaveWaiting, Crash, lists, local
    <3> QED
      BY <1>1, <3>1
  <2> QED
    BY <2>1, <2>2
<1>4. CASE Completions
  <2>1. /\ UNCHANGED <<pending, cancelled>>
        /\ work' = work \/ (\E x : work' = [work EXCEPT !.injected = x])
    BY <1>4 DEF Completions, CompleteOne, CompletionsDone, Finish429, FinishDelay,
          FinishRetry, FinishFinal, InjectedOne, InjectedDone, Finishes, Crash, lists, local
  <2> QED
    BY <1>1, <2>1
<1>5. CASE ResourceOps
  <2>1. CASE RequeueWrite
    BY <2>1 DEF Looks
  <2>2. CASE ~RequeueWrite
    <3>1. /\ UNCHANGED <<pending, cancelled>>
          /\ work' = work \/ (\E x : work' = [work EXCEPT !.ops = x])
      BY <1>5, <2>2 DEF ResourceOps, Drain, ApplyOp, OpsDone, RequeueRead, FailWaiter,
            PublishEnd, Crash, lists, local
    <3> QED
      BY <1>1, <3>1
  <2> QED
    BY <2>1, <2>2
<1>6. CASE \/ UNCHANGED vars \/ Top \/ OnLoop \/ PerformEnd \/ ExitTest \/ Wait \/ Tick
           \/ \E r \in Requests : TransferDone(r)
  <2>1. UNCHANGED <<pending, cancelled, work>>
    BY <1>6 DEF vars, Top, OnLoop, PerformEnd, ExitTest, Wait, Tick, TransferDone, lists,
          local
  <2> QED
    BY <1>1, <2>1
<1> QED
  BY <1>2, <1>3, <1>4, <1>5, <1>6 DEF Next, LoopStep, Over

\* The marks of the requests stay.
SameMarks == \A s \in Requests : /\ req'[s].isPending = req[s].isPending
                                 /\ req'[s].isCancelled = req[s].isCancelled
                                 /\ req'[s].onRetry = req[s].onRetry
Marks == \/ SameMarks \/ TakePending
         \/ \E c \in Calls : RequestSubmit(c) \/ LoopSubmit(c) \/ Cancel(c)

\* The record of a request is written, but not its marks.
LEMMA OneMarked ==
    ASSUME EInv, NEW r \in Requests, NEW q, req' = [req EXCEPT ![r] = q],
           q.isPending = req[r].isPending, q.isCancelled = req[r].isCancelled,
           q.onRetry = req[r].onRetry
    PROVE  SameMarks
<1>1. \A s \in Requests : req'[s] = IF s = r THEN q ELSE req[s]
  BY Given
<1> QED
  BY <1>1 DEF SameMarks

\* No request is destroyed, started, limited or put back with other marks.
LEMMA MovesMark ==
    ASSUME EInv, NEW r \in Requests
    PROVE  /\ \A how, n : Destroy(r, how, n) => SameMarks
           /\ \A m, n : Start(r, m, n) => SameMarks
           /\ \A k, n : Limit(r, k, n) => SameMarks
           /\ \A d, n : Requeue(r, [req[r] EXCEPT !.due = d, !.retries = n]) => SameMarks
           /\ \A d : Requeue(r, [req[r] EXCEPT !.due = d]) => SameMarks
           /\ \A n : Requeue(r, [req[r] EXCEPT !.retries = n]) => SameMarks
           /\ \A d : req' = [req EXCEPT ![r].due = d] => SameMarks
           /\ \A l : req' = [req EXCEPT ![r].life = l] => SameMarks
           /\ \A b : req' = [req EXCEPT ![r].retained = b] => SameMarks
<1> DEFINE Kept(q) == /\ q.isPending = req[r].isPending
                      /\ q.isCancelled = req[r].isCancelled /\ q.onRetry = req[r].onRetry
<1>0. req[r] \in RequestRec
  BY Given
<1>1. /\ \A d : Kept([req[r] EXCEPT !.due = d])
      /\ \A l : Kept([req[r] EXCEPT !.life = l])
      /\ \A b : Kept([req[r] EXCEPT !.retained = b])
      /\ Kept([req[r] EXCEPT !.handle = TRUE])
      /\ \A l : Kept([req[r] EXCEPT !.life = l, !.handle = FALSE, !.retained = FALSE])
  BY <1>0 DEF RequestRec
<1>2. /\ \A d, n : Kept([[req[r] EXCEPT !.due = d, !.retries = n] EXCEPT !.handle = FALSE])
      /\ \A d : Kept([[req[r] EXCEPT !.due = d] EXCEPT !.handle = FALSE])
      /\ \A n : Kept([[req[r] EXCEPT !.retries = n] EXCEPT !.handle = FALSE])
  BY <1>0 DEF RequestRec
<1>3. \A q : Kept(q) /\ req' = [req EXCEPT ![r] = q] => SameMarks
  BY OneMarked
<1> HIDE DEF Kept
<1>4. \A how, n : Destroy(r, how, n) => SameMarks
  BY <1>1, <1>3 DEF Destroy
<1>5. \A m, n : Start(r, m, n) => SameMarks
  BY <1>1, <1>3 DEF Start, StartRated, StartUnprepared, StartTransfer
<1>6. \A d : req' = [req EXCEPT ![r].due = d] => SameMarks
  BY <1>1, <1>3
<1>7. \A k, n : Limit(r, k, n) => SameMarks
  BY <1>6 DEF Limit
<1>8. \A d, n : Requeue(r, [req[r] EXCEPT !.due = d, !.retries = n]) => SameMarks
  BY <1>2, <1>3 DEF Requeue
<1>9. \A d : Requeue(r, [req[r] EXCEPT !.due = d]) => SameMarks
  BY <1>2, <1>3 DEF Requeue
<1>10. \A n : Requeue(r, [req[r] EXCEPT !.retries = n]) => SameMarks
  BY <1>2, <1>3 DEF Requeue
<1>11. \A l : req' = [req EXCEPT ![r].life = l] => SameMarks
  BY <1>1, <1>3
<1>12. \A b : req' = [req EXCEPT ![r].retained = b] => SameMarks
  BY <1>1, <1>3
<1> QED
  BY <1>4, <1>5, <1>6, <1>7, <1>8, <1>9, <1>10, <1>11, <1>12

\* Which steps change a mark.
LEMMA NextMarks ==
    ASSUME EInv, [Next]_vars
    PROVE  Marks
<1>0. HandsOK /\ work \in WorkRec /\ pub \in PubRec
  BY Given DEF LocalTypes
<1>1. CASE req' = req
  BY <1>1 DEF SameMarks, Marks
<1>2. ASSUME pc \in {"admit", "launch", "finish"} PROVE cur.req \in Requests
  BY <1>0, <1>2 DEF HandsOK, Handling
<1>3. CASE \E c \in Calls : Call(c)
  <2> PICK c \in Calls : Call(c)
    BY <1>3
  <2>1. CASE Stop(c) \/ Post(c) \/ NodeCall(c) \/ PublishCall(c) \/ Run(c)
    BY <1>1, <2>1 DEF Stop, Post, NodeCall, PublishCall, Run, sched
  <2>2. CASE Inject(c)
    BY <2>2, MovesMark, CallsAssumption DEF Inject, Makes, Marks
  <2>3. CASE DestroyLoop(c) /\ Crash
    BY <1>1, <2>3 DEF Crash, sched
  <2>4. CASE DestroyLoop(c) /\ Teardown
    <3> DEFINE dead == Reached \cup UNION {Blocked(id) : id \in Resources}
    <3>1. \A s \in Requests : req'[s] = IF s \in dead
              THEN [req[s] EXCEPT !.life = "torn", !.handle = FALSE, !.retained = FALSE]
              ELSE req[s]
      BY <2>4 DEF Teardown
    <3>2. \A s \in Requests : req[s] \in RequestRec
      BY Given
    <3>3. \A q \in RequestRec :
              LET p == [q EXCEPT !.life = "torn", !.handle = FALSE, !.retained = FALSE]
              IN  p.isPending = q.isPending /\ p.isCancelled = q.isCancelled
                  /\ p.onRetry = q.onRetry
      BY DEF RequestRec
    <3> HIDE DEF dead
    <3>4. SameMarks
      BY <3>1, <3>2, <3>3 DEF SameMarks
    <3> QED
      BY <3>4 DEF Marks
  <2> QED
    BY <2>1, <2>2, <2>3, <2>4 DEF Call, DestroyLoop, Marks
<1>4. CASE Scheduler
  <2>1. CASE \/ Detach \/ CancelsDone \/ EnterRated \/ MergeRated
             \/ LeaveWaiting("refresh", "inactive") \/ LeaveWaiting("inactive", "perform")
    BY <1>1, <2>1 DEF Detach, CancelsDone, EnterRated, MergeRated, LeaveWaiting, sched
  <2>2. CASE CancelOne
    <3>1. CASE Crash
      BY <1>1, <3>1 DEF Crash, sched
    <3>2. CASE ~Crash
      <4>1. Head(work.cancelled) \in Requests
        BY <1>0, <2>2 DEF CancelOne, WorkRec
      <4>2. \E n : Destroy(Head(work.cancelled), "cancelled", n)
        BY <2>2, <3>2 DEF CancelOne
      <4> QED
        BY <4>1, <4>2, MovesMark DEF Marks
    <3> QED
      BY <3>1, <3>2
  <2>3. CASE DropCancelled
    BY <1>2, <2>3, MovesMark DEF DropCancelled, Marks
  <2>4. CASE Admit
    BY <1>2, <2>4, MovesMark DEF Admit, Marks
  <2>5. CASE Launch
    BY <1>1, <1>2, <2>5, MovesMark DEF Launch, Marks
  <2>6. CASE MoveRated \/ MoveWaiting("refresh") \/ MoveWaiting("inactive")
    <3>1. \E k \in Maps : \E r \in map[k] : \E m, n : Limit(r, k, n) \/ Start(r, m, n)
      BY <2>6 DEF MoveRated, MoveWaiting, Firsts, Maps
    <3>2. \A k \in Maps : map[k] \subseteq Requests
      BY Given
    <3> QED
      BY <3>1, <3>2, MovesMark DEF Marks
  <2> QED
    BY <1>4, <2>1, <2>2, <2>3, <2>4, <2>5, <2>6 DEF Scheduler, Marks
<1>5. CASE Completions
  <2>1. CASE CompleteOne \/ CompletionsDone \/ InjectedDone \/ Crash
    BY <1>1, <2>1 DEF CompleteOne, CompletionsDone, InjectedDone, Crash, sched
  <2>2. CASE InjectedOne
    <3>1. Head(work.injected) \in Requests
      BY <1>0, <2>2 DEF InjectedOne, WorkRec
    <3> QED
      BY <2>2, <3>1, MovesMark DEF InjectedOne, Marks
  <2>3. CASE Finish429
    BY <1>2, <2>3, MovesMark DEF Finish429, Finishes, Marks
  <2>4. CASE FinishDelay
    BY <1>2, <2>4, MovesMark DEF FinishDelay, Finishes, Marks
  <2>5. CASE FinishRetry /\ ~Crash
    <3>1. pc = "finish" /\ \E d, n : Requeue(cur.req, [req[cur.req] EXCEPT !.due = d,
                                                                           !.retries = n])
      <4>1. pc = "finish" /\ RetryLater(cur.req)
        BY <2>5 DEF FinishRetry
      <4>2. PICK wait \in 0..MaxDelay :
                Requeue(cur.req, [req[cur.req] EXCEPT
                    !.due = IF cur.req \in OwnRetry THEN @ ELSE wait,
                    !.retries = CountRetry(cur.req)])
        BY <4>1 DEF RetryLater
      <4> DEFINE d == IF cur.req \in OwnRetry THEN req[cur.req].due ELSE wait
      <4>3. Requeue(cur.req, [req[cur.req] EXCEPT !.due = d, !.retries = CountRetry(cur.req)])
        BY <4>2
      <4> QED
        BY <4>1, <4>3
    <3> QED
      BY <1>2, <3>1, MovesMark DEF Marks
  <2>6. CASE FinishFinal
    BY <1>2, <2>6, MovesMark DEF FinishFinal, Finishes, Marks
  <2> QED
    BY <1>5, <2>1, <2>2, <2>3, <2>4, <2>5, <2>6 DEF Completions
<1>6. CASE ResourceOps
  <2>1. CASE FailWaiter /\ ~Crash
    <3>1. Waiter \in Requests
      BY <1>0, <2>1 DEF FailWaiter, Waiter, PubRec
    <3> QED
      BY <2>1, <3>1, MovesMark DEF FailWaiter, Marks
  <2>2. CASE ~(FailWaiter /\ ~Crash)
    BY <1>1, <1>6, <2>2 DEF ResourceOps, Drain, ApplyOp, OpsDone, RequeueRead, RequeueWrite,
          PublishEnd, Crash, sched
  <2> QED
    BY <2>1, <2>2
<1>7. CASE \/ UNCHANGED vars \/ Top \/ OnLoop \/ PerformEnd \/ ExitTest \/ Wait
           \/ \E r \in Requests : TransferDone(r)
  BY <1>1, <1>7 DEF vars, Top, OnLoop, PerformEnd, ExitTest, Wait, TransferDone, sched
<1>8. CASE Tick
  <2>1. ASSUME NEW s \in Requests
        PROVE  /\ req'[s].isPending = req[s].isPending
               /\ req'[s].isCancelled = req[s].isCancelled
               /\ req'[s].onRetry = req[s].onRetry
    <3>1. req[s] \in RequestRec
      BY Given
    <3>2. req'[s] = req[s] \/ req'[s] = [req[s] EXCEPT !.due = @ - 1]
      BY <1>8 DEF Tick, Later
    <3> QED
      BY <3>1, <3>2 DEF RequestRec
  <2> QED
    BY <2>1 DEF SameMarks, Marks
<1> QED
  BY <1>3, <1>4, <1>5, <1>6, <1>7, <1>8 DEF Next, LoopStep, Over

----------------------------------------------------------------------------
(* The maps, the flags and the injected requests. *)

\* What HomesOK says of maps.
Homed(m) == /\ m["rated"] \cup m["root"] \subseteq RateLimited
            /\ m["refresh"] \subseteq Refreshing /\ m["inactive"] \cap Refreshing = {}

\* A move keeps it.
LEMMA HomedMove ==
    ASSUME NEW m \in MapsType, Homed(m), NEW r
    PROVE  /\ Homed(Put(m, "queued", r)) /\ Homed(Put(m, Home(r), r))
           /\ r \in RateLimited => Homed(Put(m, "rated", r))
           /\ \A k \in Maps : Homed(Take(m, k, r)) /\ Take(m, k, r) \in MapsType
<1>1. \A x, k \in Maps : /\ Put(m, k, r)[x] = IF x = k THEN m[k] \cup {r} ELSE m[x]
                         /\ Take(m, k, r)[x] = IF x = k THEN m[k] \ {r} ELSE m[x]
  BY DEF Put, Take, MapsType
<1>2. {"rated", "root", "refresh", "inactive", "queued"} = Maps
  BY DEF Maps
<1>3. \A k \in Maps : Homed(Take(m, k, r)) /\ Take(m, k, r) \in MapsType
  <2> TAKE k \in Maps
  <2>1. Take(m, k, r) \in MapsType
    BY DEF Take, MapsType
  <2> QED
    BY <1>1, <1>2, <2>1 DEF Homed
<1>4. Homed(Put(m, "queued", r))
  BY <1>1, <1>2 DEF Homed
<1>5. Homed(Put(m, Home(r), r))
  <2>1. CASE r \in Refreshing
    BY <1>1, <1>2, <2>1 DEF Homed, Home
  <2>2. CASE r \notin Refreshing
    BY <1>1, <1>2, <2>2 DEF Homed, Home
  <2> QED
    BY <2>1, <2>2
<1>6. r \in RateLimited => Homed(Put(m, "rated", r))
  BY <1>1, <1>2 DEF Homed
<1> QED
  BY <1>3, <1>4, <1>5, <1>6

\* Starting a request keeps it.
LEMMA HomedStart ==
    ASSUME NEW m \in MapsType, Homed(m), NEW r, NEW n, Start(r, m, n)
    PROVE  Homed(map')
BY HomedMove DEF Start, StartRated, StartUnprepared, StartTransfer

\* Every request in a map belongs there.
LEMMA NextHomes ==
    ASSUME EInv, HomesOK, [Next]_vars
    PROVE  HomesOK'
<1>0. map \in MapsType /\ Homed(map) /\ {"rated", "root", "refresh", "inactive", "queued"} = Maps
  BY Given DEF MapsType, SchedTypes, HomesOK, Homed, Maps
<1> SUFFICES Homed(map')
  BY DEF HomesOK, Homed
<1>1. CASE map' = map
  BY <1>0, <1>1
<1>2. ASSUME NEW j \in Maps, NEW r, NEW n, Limit(r, j, n) \/ Start(r, Take(map, j, r), n)
      PROVE  Homed(map')
  <2> DEFINE m == Take(map, j, r)
  <2>1. m \in MapsType /\ Homed(m)
    BY <1>0, HomedMove
  <2>2. (r \in RateLimited /\ map' = Put(m, "rated", r)) \/ Start(r, m, n)
    BY <1>2 DEF Limit
  <2> HIDE DEF m
  <2> QED
    BY <2>1, <2>2, HomedMove, HomedStart
<1>3. CASE CancelOne \/ CompleteOne
  <2>1. map' = map \/ \E j \in Maps : \E s : map' = Take(map, j, s)
    BY <1>0, <1>3 DEF CancelOne, CompleteOne, CancelledFrom, Home, Crash, sched
  <2> QED
    BY <1>0, <1>1, <2>1, HomedMove
<1>4. CASE Launch
  <2>1. Start(cur.req, map, num) \/ map' = Put(map, Home(cur.req), cur.req)
    BY <1>4 DEF Launch
  <2> QED
    BY <1>0, <2>1, HomedMove, HomedStart
<1>5. CASE EnterRated \/ MergeRated
  <2>1. \/ map' = [map EXCEPT !["root"] = map["rated"], !["rated"] = {}]
        \/ map' = [map EXCEPT !["rated"] = @ \cup map["root"], !["root"] = {}]
    BY <1>5 DEF EnterRated, MergeRated
  <2> QED
    BY <1>0, <2>1 DEF Homed, MapsType
<1>6. CASE MoveRated
  <2>1. \E r, n : Limit(r, "root", n) \/ Start(r, Take(map, "root", r), n)
    BY <1>6 DEF MoveRated
  <2> QED
    BY <1>0, <1>2, <2>1
<1>7. ASSUME NEW j \in {"refresh", "inactive"}, MoveWaiting(j) PROVE Homed(map')
  <2>1. \E r, n : Limit(r, j, n) \/ Start(r, Take(map, j, r), n)
    BY <1>7 DEF MoveWaiting
  <2> QED
    BY <1>0, <1>2, <2>1
<1>8. CASE Finish429 \/ FinishDelay \/ FinishRetry \/ FinishFinal
  <2>1. \/ map' = map
        \/ cur.req \in RateLimited /\ map' = Put(map, "rated", cur.req)
        \/ \E q : Requeue(cur.req, q)
    BY <1>8 DEF Finish429, Is429, FinishDelay, FinishRetry, RetryLater, FinishFinal, Crash,
          sched
  <2> QED
    BY <1>0, <1>1, <2>1, HomedMove DEF Requeue
<1>9. CASE \E c \in Calls : Call(c)
  <2> PICK c \in Calls : Call(c)
    BY <1>9
  <2>1. CASE Teardown
    <3>1. map' = [x \in Maps |-> {}]
      BY <2>1, Zenon DEF Teardown
    <3> QED
      BY <1>0, <3>1 DEF Homed
  <2>2. CASE ~Teardown
    <3>1. map' = map
      BY <2>2 DEF Call, RequestSubmit, LoopSubmit, Enlist, Cancel, Inject, Stop, Post,
            NodeCall, PublishCall, Run, DestroyLoop, Crash, sched
    <3> QED
      BY <1>1, <3>1
  <2> QED
    BY <2>1, <2>2
<1>10. CASE \/ Detach \/ CancelsDone \/ TakePending \/ DropCancelled \/ Admit
            \/ LeaveWaiting("refresh", "inactive") \/ LeaveWaiting("inactive", "perform")
            \/ CompletionsDone \/ InjectedOne \/ InjectedDone \/ ResourceOps
            \/ UNCHANGED vars \/ Top \/ OnLoop \/ PerformEnd \/ ExitTest \/ Wait \/ Tick
            \/ \E s \in Requests : TransferDone(s)
  <2>1. map' = map
    BY <1>10 DEF Detach, CancelsDone, TakePending, DropCancelled, Admit, LeaveWaiting,
          CompletionsDone, InjectedOne, InjectedDone, ResourceOps, Drain, ApplyOp, OpsDone,
          RequeueRead, RequeueWrite, FailWaiter, PublishEnd, Crash, vars, Top, OnLoop,
          PerformEnd, ExitTest, Wait, Tick, TransferDone, sched
  <2> QED
    BY <1>1, <2>1
<1> QED
  BY <1>3, <1>4, <1>5, <1>6, <1>7, <1>8, <1>9, <1>10
  DEF Next, LoopStep, Scheduler, Completions, Over

\* Who has ended stays ended, and who was not new is not new again.
LEMMA EndedStays ==
    ASSUME EInv, Faces, NEW s \in Requests
    PROVE  /\ req[s].life \in Ended => req'[s].life = req[s].life
           /\ req'[s].life \in {"new", "live"} => req[s].life \in {"new", "live"}
           /\ req'[s].life = "new" => req[s].life = "new"
<1>0. req[s] \in RequestRec /\ "new" \notin Ended /\ "live" \notin Ended
  BY Given DEF Ended
<1>1. CASE Calm \/ \E r \in Requests : r # s /\ OthersSame(r)
  BY <1>0, <1>1 DEF Calm, OthersSame, SameFace, RequestRec
<1>2. CASE Crash
  BY <1>0, <1>2 DEF Crash, sched, RequestRec
<1>3. CASE pc = "idle" /\ Teardown
  <2>1. CASE req[s].life = "live"
    <3>1. ~Live(s)' /\ req'[s].life # "new"
      <4>1. ~Live(s)'
        BY <1>3, TeardownLeavesNone DEF TeardownComplete, Teardown, Goto
      <4>2. req'[s] = req[s] \/ req'[s] = [req[s] EXCEPT !.life = "torn", !.handle = FALSE,
                                                         !.retained = FALSE]
        BY <1>3 DEF Teardown
      <4> QED
        BY <1>0, <2>1, <4>1, <4>2 DEF RequestRec
    <3> QED
      BY <1>0, <2>1, <3>1 DEF Live
  <2>2. CASE req[s].life # "live"
    <3>1. s \notin LiveOnes
      BY <2>2 DEF LiveOnes, Live
    <3>2. /\ \A k \in Maps : s \notin map[k]
          /\ s \notin Elements(pending) /\ s \notin Elements(injected)
          /\ \A id \in Resources : s \notin Elements(table[id].blocked)
      BY <3>1, Given, PlacesLive
    <3>3. s \notin Reached \cup UNION {Blocked(id) : id \in Resources}
      BY <3>2 DEF Reached, Blocked, Elements
    <3>4. req'[s] = req[s]
      BY <1>3, <3>3 DEF Teardown
    <3> QED
      BY <1>0, <2>2, <3>4 DEF RequestRec
  <2> QED
    BY <2>1, <2>2
<1>4. CASE Accepted(s) \/ Begun(s) \/ Replied(s) \/ Parted(s) \/ Kept429(s)
  BY <1>0, <1>4 DEF Accepted, Begun, Replied, Parted, Kept429, RequestRec
<1> QED
  BY <1>1, <1>2, <1>3, <1>4 DEF Faces, Accepted, Begun, Replied, Parted, Kept429

\* The requests the loop has still to look at.
LookSet == Elements(pending) \cup Elements(work.pending)
Enlists(c) == (RequestSubmit(c) /\ ~Refused(c.on)) \/ LoopSubmit(c)

\* Taking a request off the list.
LEMMA TakenLook ==
    ASSUME EInv, TakePending
    PROVE  LookSet' = LookSet \ {Head(work.pending)} /\ Head(work.pending) \in LookSet
<1> DEFINE r == Head(work.pending)
<1>0. work \in WorkRec /\ work.pending \in Seq(Requests) /\ work.pending # << >> /\ ListsOK
  BY Given DEF LocalTypes, WorkRec, TakePending
<1>1. pending' = pending /\ work' = [work EXCEPT !.pending = Tail(@)]
  BY DEF TakePending, lists
<1>2. work'.pending = Tail(work.pending)
  BY <1>0, <1>1 DEF WorkRec
<1>3. Elements(Tail(work.pending)) = Elements(work.pending) \ {r}
  BY <1>0, DistinctOf DEF ListsOK
<1>4. r \in Elements(work.pending)
  BY <1>0, ElementsOf
<1>5. Elements(pending) \cap Elements(work.pending) = {}
  <2>1. \A x, y \in Lists : x # y => Listed[x] \cap Listed[y] = {}
    BY Given, Apart
  <2> QED
    BY <2>1, ListedAt DEF Lists
<1> QED
  BY <1>1, <1>2, <1>3, <1>4, <1>5 DEF LookSet

\* What submitting and cancelling do to it.
LEMMA CallLook ==
    ASSUME EInv, NEW c \in Calls, RequestSubmit(c) \/ LoopSubmit(c) \/ Cancel(c)
    PROVE  \/ Enlists(c) /\ LookSet' = LookSet \cup {c.on}
           \/ /\ LookSet' = LookSet
              /\ \A s \in Requests : /\ req'[s].isPending = req[s].isPending
                                     /\ req'[s].life = req[s].life
<1>0. pending \in Seq(Requests) /\ req \in [Requests -> RequestRec]
  BY Given DEF ListTypes
<1>1. CASE Enlists(c)
  <2>1. pending' = <<c.on>> \o pending /\ work' = work
    BY <1>1 DEF Enlists, RequestSubmit, LoopSubmit, Enlist, local
  <2>2. c.on \in Requests
    BY <1>1, CallsAssumption DEF Enlists, RequestSubmit, LoopSubmit, Makes
  <2>3. Elements(pending') = {c.on} \cup Elements(pending)
    BY <1>0, <2>1, <2>2, ElementsOf
  <2> QED
    BY <1>1, <2>1, <2>3 DEF LookSet
<1>2. CASE ~Enlists(c)
  <2>1. /\ pending' = pending /\ work' = work
        /\ req' = req \/ req' = [req EXCEPT ![c.on].isCancelled = TRUE]
    BY <1>2 DEF Enlists, RequestSubmit, LoopSubmit, Cancel, local, lists, sched
  <2>2. \A s \in Requests : /\ req'[s].isPending = req[s].isPending
                            /\ req'[s].life = req[s].life
    <3> TAKE s \in Requests
    <3>1. req'[s] = req[s] \/ req'[s] = [req[s] EXCEPT !.isCancelled = TRUE]
      BY <1>0, <2>1
    <3> QED
      BY <1>0, <3>1 DEF RequestRec
  <2> QED
    BY <2>1, <2>2 DEF LookSet
<1> QED
  BY <1>1, <1>2

\* How that set changes.
LEMMA NextLookSet ==
    ASSUME EInv, [Next]_vars
    PROVE  \/ LookSet' = LookSet
           \/ TakePending /\ LookSet' = LookSet \ {Head(work.pending)}
           \/ RequeueWrite /\ LookSet' = LookSet \cup {Waiter}
           \/ \E c \in Calls : Enlists(c) /\ LookSet' = LookSet \cup {c.on}
           \/ pc = "idle" /\ Teardown /\ LookSet' = {}
<1>0. /\ work \in WorkRec /\ pending \in Seq(Requests) /\ work.pending \in Seq(Requests)
      /\ HoldsOK /\ ListsOK
  BY Given DEF LocalTypes, ListTypes, WorkRec
<1>e. Elements(<< >>) = {}
  BY DEF Elements
<1>1. CASE UNCHANGED <<pending, work.pending, cancelled, work.cancelled>>
  BY <1>1 DEF LookSet
<1>2. CASE Detach
  <2>1. pending' = << >> /\ work' = [work EXCEPT !.cancelled = cancelled, !.pending = pending]
        /\ pc = "detach"
    BY <1>2 DEF Detach
  <2>2. work'.pending = pending /\ work.pending = << >>
    BY <1>0, <2>1 DEF WorkRec, HoldsOK
  <2> QED
    BY <1>e, <2>1, <2>2 DEF LookSet
<1>3. CASE TakePending
  BY <1>3, TakenLook
<1>4. CASE RequeueWrite
  <2>1. pending' = <<Waiter>> \o pub.snap /\ pc = "requeue" /\ work' = work
    BY <1>4 DEF RequeueWrite
  <2>2. pub.snap = pending
    BY <1>0, <2>1 DEF HoldsOK
  <2>3. Waiter \in Requests
    <3>1. pub.waiters \in Seq(Requests) /\ pub.waiters # << >>
      BY <2>1, Given DEF LocalTypes, PubRec, HandsOK
    <3> QED
      BY <3>1 DEF Waiter
  <2>4. Elements(pending') = {Waiter} \cup Elements(pending)
    BY <1>0, <2>1, <2>2, <2>3, ElementsOf
  <2> QED
    BY <1>4, <2>1, <2>4 DEF LookSet
<1>5. CASE CancelOne /\ ~Crash
  <2>1. pending' = pending /\ work' = [work EXCEPT !.cancelled = Tail(@)]
    BY <1>5 DEF CancelOne, lists
  <2>2. work'.pending = work.pending
    BY <1>0, <2>1 DEF WorkRec
  <2> QED
    BY <2>1, <2>2 DEF LookSet
<1>6. ASSUME NEW c \in Calls, RequestSubmit(c) \/ LoopSubmit(c) \/ Cancel(c)
      PROVE  LookSet' = LookSet \/ (Enlists(c) /\ LookSet' = LookSet \cup {c.on})
  BY <1>6, CallLook
<1>7. CASE pc = "idle" /\ Teardown
  <2>1. pending' = << >> /\ work' = work
    BY <1>7 DEF Teardown, local
  <2>2. work.pending = << >>
    BY <1>0, <1>7 DEF HoldsOK
  <2> QED
    BY <1>7, <1>e, <2>1, <2>2 DEF LookSet
<1> QED
  BY <1>1, <1>2, <1>3, <1>4, <1>5, <1>6, <1>7, NextLooks DEF Looks

\* What submitting a request does to it.
LEMMA EnlistsMarks ==
    ASSUME EInv, NEW c \in Calls, Enlists(c)
    PROVE  /\ c.on \in Requests /\ req[c.on].life = "new"
           /\ req'[c.on].isPending /\ req'[c.on].life = "live"
           /\ req'[c.on].isCancelled = req[c.on].isCancelled
           /\ req'[c.on].onRetry
                  = (req[c.on].onRetry \/ (c.op = "submit" /\ MaxRetries[c.on] # 0))
           /\ \A s \in Requests : s # c.on => req'[s] = req[s]
           /\ c \in todo /\ c.op \in {"submit", "loop_submit"}
           /\ UNCHANGED <<pc, cancelled, injected, work, cur, map, pub>>
<1>0. req \in [Requests -> RequestRec] /\ FreshOK
  BY Given
<1> PICK r \in Requests : r = c.on
  BY CallsAssumption DEF Enlists, RequestSubmit, LoopSubmit, Makes
<1>1. req[r].life = "new" /\ req[r] \in RequestRec
  BY <1>0 DEF FreshOK, Submits, Enlists, RequestSubmit, LoopSubmit, Makes
<1>2. PICK d \in Int, b \in BOOLEAN :
          /\ req' = [req EXCEPT ![r] =
                 [[req[r] EXCEPT !.due = d, !.onRetry = b]
                     EXCEPT !.life = "live", !.isPending = TRUE]]
          /\ b = (req[r].onRetry \/ (c.op = "submit" /\ MaxRetries[r] # 0))
  <2>1. CASE RequestSubmit(c) /\ ~Refused(c.on)
    <3> DEFINE d == Floor(IF Priority[r] > 0 THEN -Priority[r] ELSE 0)
               b == req[r].onRetry \/ MaxRetries[r] # 0
    <3>1. Enlist(r, [req[r] EXCEPT !.due = d, !.onRetry = b]) /\ c.op = "submit"
      BY <2>1 DEF RequestSubmit, Makes
    <3>2. d \in Int /\ b \in BOOLEAN
      BY <1>1, RequestsAssumption, BoundsAssumption DEF Floor
    <3> HIDE DEF d
    <3> QED
      BY <3>1, <3>2 DEF Enlist
  <2>2. CASE LoopSubmit(c)
    <3> DEFINE d == Floor(-Priority[r])
               p == [req[r] EXCEPT !.due = d]
               b == req[r].onRetry
    <3>1. Enlist(r, p) /\ c.op = "loop_submit"
      BY <2>2 DEF LoopSubmit, Makes
    <3>2. d \in Int /\ b \in BOOLEAN
      BY <1>1, RequestsAssumption, BoundsAssumption DEF Floor, RequestRec
    <3> HIDE DEF d
    <3>3. p = [req[r] EXCEPT !.due = d, !.onRetry = b]
      BY <1>1 DEF RequestRec
    <3> HIDE DEF p
    <3>4. req' = [req EXCEPT ![r] = [p EXCEPT !.life = "live", !.isPending = TRUE]]
      BY <3>1 DEF Enlist
    <3>5. b = (req[r].onRetry \/ (c.op = "submit" /\ MaxRetries[r] # 0))
      BY <1>1, <3>1 DEF RequestRec
    <3> HIDE DEF b
    <3> QED
      BY <3>2, <3>3, <3>4, <3>5
  <2> QED
    BY <2>1, <2>2 DEF Enlists
<1> DEFINE p == [[req[r] EXCEPT !.due = d, !.onRetry = b]
                     EXCEPT !.life = "live", !.isPending = TRUE]
<1>3. p.isPending /\ p.life = "live" /\ p.isCancelled = req[r].isCancelled /\ p.onRetry = b
  BY <1>1 DEF RequestRec
<1>4. req' = [req EXCEPT ![r] = p]
  BY <1>2
<1> HIDE DEF p
<1>5. req'[r] = p /\ \A s \in Requests : s # r => req'[s] = req[s]
  BY <1>0, <1>4
<1>6. /\ c \in todo /\ c.op \in {"submit", "loop_submit"}
      /\ UNCHANGED <<pc, cancelled, injected, work, cur, map, pub>>
  BY DEF Enlists, RequestSubmit, LoopSubmit, Enlist, Makes, local
<1> QED
  BY <1>1, <1>2, <1>3, <1>5, <1>6

\* is_pending, told of that set.
PendingLook(q, look) ==
    /\ \A r \in Requests : q[r].isPending /\ q[r].life \notin Ended => r \in look
    /\ \A r \in look : Deps[r] = {} => q[r].isPending
LEMMA LooksPending == /\ PendingOK <=> PendingLook(req, LookSet)
                      /\ PendingOK' <=> PendingLook(req', LookSet')
BY DEF PendingOK, PendingLook, LookSet

\* is_pending tells which requests wait to be looked at.
LEMMA NextPending ==
    ASSUME EInv, PendingOK, Faces, [Next]_vars
    PROVE  PendingOK'
<1>0. /\ work \in WorkRec /\ pub \in PubRec /\ LookSet \subseteq LiveOnes
      /\ LookSet \subseteq Requests /\ req \in [Requests -> RequestRec]
      /\ PendingLook(req, LookSet)
  BY Given, PlacesLive, LooksPending DEF LocalTypes, LookSet, LiveOnes
<1> SUFFICES PendingLook(req', LookSet')
  BY LooksPending
<1>1. \A r \in Requests : req'[r].life \notin Ended => req[r].life \notin Ended
  BY EndedStays
<1>2. ASSUME \A s \in Requests : req'[s].isPending = req[s].isPending, LookSet' = LookSet
      PROVE  PendingLook(req', LookSet')
  BY <1>0, <1>1, <1>2 DEF PendingLook
<1>3. CASE TakePending
  <2> PICK r \in Requests : r = Head(work.pending)
    BY <1>0, <1>3 DEF TakePending, WorkRec
  <2> DEFINE q == [req[r] EXCEPT !.isPending = FALSE]
  <2>1. req' = [req EXCEPT ![r] = q] /\ ~q.isPending
    BY <1>0, <1>3 DEF TakePending, RequestRec
  <2> HIDE DEF q
  <2>2. ~req'[r].isPending /\ \A s \in Requests : s # r => req'[s] = req[s]
    BY <1>0, <2>1
  <2>3. LookSet' = LookSet \ {r}
    BY <1>3, TakenLook
  <2> QED
    BY <1>0, <1>1, <2>2, <2>3 DEF PendingLook
<1>4. CASE \E c \in Calls : RequestSubmit(c) \/ LoopSubmit(c) \/ Cancel(c)
  <2> PICK c \in Calls : RequestSubmit(c) \/ LoopSubmit(c) \/ Cancel(c)
    BY <1>4
  <2>1. CASE Enlists(c) /\ LookSet' = LookSet \cup {c.on}
    <3>1. /\ c.on \in Requests /\ req'[c.on].isPending
          /\ \A s \in Requests : s # c.on => req'[s] = req[s]
      BY <2>1, EnlistsMarks
    <3> QED
      BY <1>0, <2>1, <3>1 DEF PendingLook
  <2> QED
    BY <1>2, <2>1, CallLook
<1>5. CASE SameMarks /\ ~(\E c \in Calls : RequestSubmit(c) \/ LoopSubmit(c))
  <2>0. \A s \in Requests : req'[s].isPending = req[s].isPending
    BY <1>5 DEF SameMarks
  <2>1. CASE RequeueWrite /\ LookSet' = LookSet \cup {Waiter}
    <3>1. pub.waiters \in Seq(Requests) /\ pub.waiters # << >> /\ WaitersPin
      BY <1>0, <2>1, Given DEF PubRec, RequeueWrite, HandsOK, EInv, RefsInv
    <3>2. Waiter \in Elements(pub.waiters)
      BY <3>1, ElementsOf DEF Waiter
    <3>3. Deps[Waiter] # {}
      BY <3>1, <3>2 DEF WaitersPin
    <3> QED
      BY <1>0, <1>1, <2>0, <2>1, <3>3 DEF PendingLook
  <2>2. CASE pc = "idle" /\ Teardown /\ LookSet' = {}
    <3>1. ASSUME NEW r \in Requests, req'[r].isPending, req'[r].life \notin Ended
          PROVE  FALSE
      <4>1. r \in LiveOnes
        BY <1>0, <1>1, <2>0, <3>1 DEF PendingLook
      <4>2. req'[r].life # "live"
        BY <2>2, TeardownLeavesNone DEF TeardownComplete, Teardown, Goto, Live
      <4>3. req'[r].life # "new"
        BY <4>1, EndedStays DEF LiveOnes, Live
      <4>4. req'[r] = req[r] \/ req'[r].life = "torn"
        BY <1>0, <2>2 DEF Teardown, RequestRec
      <4> QED
        BY <3>1, <4>1, <4>2, <4>3, <4>4 DEF LiveOnes, Live, Ended
    <3> QED
      BY <2>2, <3>1 DEF PendingLook
  <2> QED
    BY <1>2, <1>3, <1>5, <2>0, <2>1, <2>2, NextLookSet DEF Enlists
<1> QED
  BY <1>3, <1>4, <1>5, NextMarks DEF Marks

\* What was injected was not submitted.
LEMMA NextInjected ==
    ASSUME EInv, InjectedOK, [Next]_vars
    PROVE  InjectedOK'
<1>1. \A c \in Calls : Inject(c) => c.op = "inject" /\ c \notin todo'
  BY DEF Inject, Makes
<1> QED
  BY <1>1, InjectedFrom, TodoShrinks DEF InjectedOK

\* A request that was injected stays so while it lives.
LEMMA InjectedKept ==
    ASSUME EInv, [Next]_vars, NEW r \in InjectedSet, r \in LiveOnes'
    PROVE  r \in InjectedSet'
<1>0. r \in Requests /\ req \in [Requests -> RequestRec] /\ work \in WorkRec
  BY Given DEF LiveOnes, LocalTypes
<1>1. CASE InjectedOne
  <2>1. Head(work.injected) \in Requests
    BY <1>0, <1>1 DEF InjectedOne, WorkRec
  <2>2. r # Head(work.injected)
    <3> SUFFICES ASSUME r = Head(work.injected) PROVE FALSE
      OBVIOUS
    <3>1. req' = [req EXCEPT ![r].life = "completed"]
      BY <1>1 DEF InjectedOne
    <3>2. req'[r].life = "completed"
      BY <1>0, <3>1 DEF RequestRec
    <3> QED
      BY <3>2 DEF LiveOnes, Live
  <2>3. CASE InjectedSet \ {Head(work.injected)} \subseteq InjectedSet'
    BY <2>2, <2>3
  <2>4. CASE \/ InjectedSet' = InjectedSet \/ pc = "idle"
             \/ \E c \in Calls : InjectedSet' = InjectedSet \cup {c.on}
    BY <1>1, <2>4 DEF InjectedOne
  <2> QED
    BY <2>3, <2>4, InjectedMoves
<1>2. CASE pc = "idle" /\ Teardown
  <2>1. ~Live(r)'
    BY <1>0, <1>2, TeardownLeavesNone DEF TeardownComplete, Teardown, Goto
  <2> QED
    BY <2>1 DEF LiveOnes
<1> QED
  BY <1>1, <1>2, InjectedMoves

\* A call that is not due any more was made.
LEMMA TodoStep ==
    ASSUME [Next]_vars, NEW c \in todo, c \notin todo'
    PROVE  Call(c)
<1>1. ASSUME NEW d \in Calls, Call(d) PROVE todo' \in {todo, todo \ {d}}
  BY <1>1 DEF Call, RequestSubmit, LoopSubmit, Cancel, Inject, Stop, Post, NodeCall,
        PublishCall, Run, DestroyLoop, Makes, Crash
<1>2. Scheduler => todo' = todo
  BY DEF Scheduler, Detach, CancelOne, CancelsDone, TakePending, DropCancelled, Admit,
        Launch, EnterRated, MoveRated, MergeRated, MoveWaiting, LeaveWaiting, Crash
<1>3. Completions \/ ResourceOps => todo' = todo
  BY DEF Completions, CompleteOne, CompletionsDone, Finish429, FinishDelay, FinishRetry,
        FinishFinal, InjectedOne, InjectedDone, Finishes, ResourceOps, Drain, ApplyOp,
        OpsDone, RequeueRead, RequeueWrite, FailWaiter, PublishEnd, Crash
<1>4. \/ UNCHANGED vars \/ Top \/ OnLoop \/ PerformEnd \/ ExitTest \/ Wait \/ Tick
      \/ (\E r \in Requests : TransferDone(r))
      => todo' = todo
  BY DEF vars, Top, OnLoop, PerformEnd, ExitTest, Wait, Tick, TransferDone
<1> QED
  BY <1>1, <1>2, <1>3, <1>4 DEF Next, LoopStep, Over

\* on_retry is never taken away.
LEMMA RetryKept ==
    ASSUME EInv, [Next]_vars, NEW r \in Requests, req[r].onRetry
    PROVE  req'[r].onRetry
<1>0. req \in [Requests -> RequestRec] /\ work \in WorkRec
  BY Given DEF LocalTypes
<1>1. CASE SameMarks
  BY <1>1 DEF SameMarks
<1>2. CASE TakePending \/ \E c \in Calls : Cancel(c)
  <2>1. \/ req'[r] = req[r] \/ req'[r] = [req[r] EXCEPT !.isPending = FALSE]
        \/ req'[r] = [req[r] EXCEPT !.isCancelled = TRUE]
    BY <1>0, <1>2 DEF TakePending, Cancel, WorkRec
  <2> QED
    BY <1>0, <2>1 DEF RequestRec
<1>3. ASSUME NEW c \in Calls, RequestSubmit(c) \/ LoopSubmit(c) PROVE req'[r].onRetry
  <2>1. CASE Enlists(c)
    BY <2>1, EnlistsMarks
  <2>2. CASE ~Enlists(c)
    BY <1>3, <2>2 DEF Enlists, RequestSubmit, sched
  <2> QED
    BY <2>1, <2>2
<1> QED
  BY <1>1, <1>2, <1>3, NextMarks DEF Marks

\* A request whose callback may ask for a retry has on_retry.
LEMMA NextArmed ==
    ASSUME EInv, Faces, Disciplined, RetriesArmed, ArmedOK, [Next]_vars
    PROVE  ArmedOK'
<1>0. /\ req \in [Requests -> RequestRec] /\ Effect /\ OwnRetry \subseteq Requests
      /\ todo \subseteq Calls
  BY Given, NextEffect, SetsAssumption DEF IInv, TypeOK, ControlTypes
<1>1. \A r \in OwnRetry : req'[r].onRetry
  BY <1>0, RetryKept DEF ArmedOK
<1>2. ASSUME NEW r \in LiveOnes', AsksRetry(r)
      PROVE  req'[r].onRetry \/ r \in InjectedSet'
  <2>0. r \in Requests /\ req'[r].life = "live"
    BY DEF LiveOnes, Live
  <2>1. CASE r \in LiveOnes
    BY <1>2, <2>0, <2>1, RetryKept, InjectedKept DEF ArmedOK, InjectedSet
  <2>2. CASE r \notin LiveOnes
    <3>1. Submitted(r)
      <4>1. req[r].life # "live"
        BY <2>0, <2>2 DEF LiveOnes, Live
      <4>2. \A s \in Requests : ~Admits(s)
        <5> SUFFICES ASSUME NEW s \in Requests, Admits(s) PROVE FALSE
          OBVIOUS
        <5>1. /\ req[s].life = "live"
              /\ req' = [req EXCEPT ![s].retained = @ \/ Deps[s] # {}]
          BY DEF Admits
        <5>2. req'[r].life = req[r].life
          BY <1>0, <2>0, <5>1 DEF RequestRec
        <5> QED
          BY <2>0, <4>1, <5>2
      <4>3. \A s \in Requests : ~Dies(s)
        BY <2>0, <4>1 DEF Dies, Ended
      <4>4. ~Gone
        BY <2>0, <4>1 DEF Gone, Ended
      <4>5. Quiet
        BY <1>0, <4>2, <4>3, <4>4 DEF Effect
      <4>6. req[r].life = "new"
        <5>1. req[r] \in RequestRec
          BY <1>0, <2>0
        <5>2. req[r].life \notin Ended
          BY <2>0, EndedStays DEF Ended
        <5> QED
          BY <4>1, <5>1, <5>2 DEF RequestRec
      <4> QED
        BY <2>0, <4>5, <4>6 DEF Quiet
    <3>2. PICK c \in todo : c \notin todo' /\ c.op \in Submits /\ c.on = r
      BY <3>1 DEF Submitted
    <3>3. Call(c) /\ c \in Calls
      BY <1>0, <3>2, TodoStep
    <3>4. CASE c.op = "inject"
      <4>1. Inject(c)
        BY <3>3, <3>4 DEF Call, RequestSubmit, LoopSubmit, Cancel, Inject, Stop, Post, NodeCall,
              PublishCall, Run, DestroyLoop, Makes, ThreadSafe
      <4>2. injected' = <<r>> \o injected /\ injected \in Seq(Requests)
        BY <3>2, <4>1, Given DEF Inject, ListTypes
      <4> QED
        BY <2>0, <4>2, ElementsOf DEF InjectedSet
    <3>5. CASE c.op # "inject"
      <4>1. RequestSubmit(c) \/ LoopSubmit(c)
        BY <3>2, <3>3, <3>5 DEF Call, RequestSubmit, LoopSubmit, Cancel, Inject, Stop, Post,
              NodeCall, PublishCall, Run, DestroyLoop, Makes, ThreadSafe, Submits
      <4>2. Enlists(c)
        <5> SUFFICES ASSUME ~Enlists(c) PROVE FALSE
          OBVIOUS
        <5>1. req' = req
          BY <4>1 DEF Enlists, RequestSubmit, sched
        <5> QED
          BY <2>0, <2>2, <5>1 DEF LiveOnes, Live
      <4>3. /\ c.op \in {"submit", "loop_submit"}
            /\ req'[r].onRetry = (req[r].onRetry \/ (c.op = "submit" /\ MaxRetries[r] # 0))
        BY <3>2, <3>3, <4>2, EnlistsMarks
      <4>4. r \in OwnRetry \/ (c.op = "submit" /\ MaxRetries[r] # 0)
        BY <1>2, <3>2, <3>3, <4>3 DEF RetriesArmed
      <4> QED
        BY <1>1, <4>3, <4>4
    <3> QED
      BY <3>4, <3>5
  <2> QED
    BY <2>1, <2>2
<1> QED
  BY <1>1, <1>2 DEF ArmedOK, InjectedSet

----------------------------------------------------------------------------
(* Nothing undefined happens. *)

\* The steps that may have no defined outcome.
LEMMA CrashesFrom ==
    ASSUME EInv, pc # "crashed", [Next]_vars, pc' = "crashed"
    PROVE  \/ \E c \in Calls : c \in todo /\ c.op = "destroy" /\ pc = "idle" /\ DestroyedTwice
           \/ /\ pc = "cancelled" /\ work.cancelled # << >>
              /\ ~(/\ Live(Head(work.cancelled))
                   /\ Head(work.cancelled) \in map[CancelledFrom(Head(work.cancelled))])
           \/ pc = "finish" /\ ~req[cur.req].onRetry /\ cur.ret < 0
           \/ pc = "publish" /\ pub.waiters # << >> /\ table[pub.id].st = "none"
<1>1. CASE \E c \in Calls : Call(c)
  <2> PICK c \in Calls : Call(c)
    BY <1>1
  <2>1. CASE PublishCall(c)
    <3>1. \E ok, own : BeginPublish(c.on, ok, own, pc)
      BY <2>1 DEF PublishCall
    <3> QED
      BY <3>1, PublishGoes
  <2>2. CASE DestroyLoop(c)
    BY <2>2 DEF DestroyLoop, Teardown, Goto
  <2>3. CASE ~PublishCall(c) /\ ~DestroyLoop(c)
    BY <2>3 DEF Call, RequestSubmit, LoopSubmit, Enlist, Cancel, Inject, Stop, Post, NodeCall,
          Run, Goto
  <2> QED
    BY <2>1, <2>2, <2>3
<1>2. CASE Scheduler
  BY <1>2 DEF Scheduler, Detach, CancelOne, CancelsDone, TakePending, DropCancelled, Admit,
        Launch, EnterRated, MoveRated, MergeRated, MoveWaiting, LeaveWaiting, Goto
<1>3. CASE Completions
  <2>1. CASE CompleteOne
    <3>1. \/ \E id, ok, own : BeginPublish(id, ok, own, "finish")
          \/ pc' = "finish"
      BY <2>1 DEF CompleteOne, Goto
    <3> QED
      BY <3>1, PublishGoes
  <2>2. CASE InjectedOne
    <3>1. \/ \E id, ok, own : BeginPublish(id, ok, own, "injected")
          \/ pc' = pc
      BY <2>2 DEF InjectedOne
    <3> QED
      BY <3>1, PublishGoes
  <2>3. CASE ~CompleteOne /\ ~InjectedOne
    BY <1>3, <2>3 DEF Completions, CompletionsDone, Finish429, FinishDelay, FinishRetry,
          FinishFinal, InjectedDone, Finishes, Goto
  <2> QED
    BY <2>1, <2>2, <2>3
<1>4. CASE ResourceOps
  <2>1. CASE ApplyOp
    <3>1. \/ \E id, ok, own : BeginPublish(id, ok, own, "ops")
          \/ pc' = pc
      BY <2>1 DEF ApplyOp
    <3> QED
      BY <3>1, PublishGoes
  <2>2. CASE PublishEnd
    <3>1. pub.back \in Callers
      BY Given DEF LocalTypes, PubRec
    <3> QED
      BY <2>2, <3>1 DEF PublishEnd, Goto, Callers
  <2>3. CASE ~ApplyOp /\ ~PublishEnd
    BY <1>4, <2>3 DEF ResourceOps, Drain, OpsDone, RequeueRead, RequeueWrite, FailWaiter, Goto
  <2> QED
    BY <2>1, <2>2, <2>3
<1>5. CASE \/ UNCHANGED vars \/ Top \/ OnLoop \/ PerformEnd \/ ExitTest \/ Wait \/ Tick
           \/ \E r \in Requests : TransferDone(r)
  BY <1>5 DEF vars, Top, OnLoop, PerformEnd, ExitTest, Wait, Tick, TransferDone, Goto
<1> QED
  BY <1>1, <1>2, <1>3, <1>4, <1>5 DEF Next, LoopStep, Over

\* A loop whose requests are not cancelled, and whose resources the application
\* releases, is destroyed once.
LEMMA DestroyedOnce ==
    ASSUME EInv, CancelsOK, DestroysPlainly, NEW c \in Calls, c.op = "destroy"
    PROVE  ~DestroyedTwice
<1>1. cancelled = << >>
  BY DEF CancelsOK, DestroysPlainly
<1>2. ASSUME NEW id \in Resources, table[id].auto PROVE FALSE
  <2>1. \E d \in Calls : d.op = "autorelease"
    BY <1>2 DEF EInv, RefsInv, AutoOK
  <2> QED
    BY <2>1 DEF DestroysPlainly
<1> QED
  BY <1>1, <1>2 DEF DestroyedTwice, FreedUnderTeardown

\* A request that is cancelled is found where the loop looks for it.
LEMMA CancelledFound ==
    ASSUME EInv, HandlesInv, CancelsOK, pc = "cancelled", work.cancelled # << >>
    PROVE  LET r == Head(work.cancelled) IN
           r \in Requests /\ Live(r) /\ r \in map[CancelledFrom(r)]
<1> PICK r \in Requests : r = Head(work.cancelled)
  BY Given DEF LocalTypes, WorkRec
<1>1. r \in Elements(work.cancelled)
  <2>1. work.cancelled \in Seq(Requests)
    BY Given DEF LocalTypes, WorkRec
  <2> QED
    BY <2>1, ElementsOf
<1>2. Live(r) /\ r \notin RateLimited /\ r \in map["queued"] \cup map[Home(r)]
  BY <1>1 DEF CancelsOK, Listed4Cancel, LiveOnes
<1>3. req[r].handle <=> r \in map["queued"]
  <2>1. r \in Requests \ Throttled
    BY <1>2 DEF Throttled
  <2> QED
    BY <2>1, NobodyAnswered DEF HandlesInv, HandledOK
<1> QED
  BY <1>2, <1>3 DEF CancelledFrom

\* A request whose callback asks for a retry has on_retry.
LEMMA RetryFound ==
    ASSUME EInv, HandlesInv, ArmedOK, pc = "finish", cur.ret < 0
    PROVE  req[cur.req].onRetry
<1> PICK r \in Requests : r = cur.req
  BY FinishedOne
<1>1. AsksRetry(r)
  BY DEF HandlesInv, ResultsOK, Answering, AsksRetry
<1>2. r \in LiveOnes
  BY FinishedOne
<1>3. r \notin Elements(injected) \cup Elements(work.injected)
  <2>1. r \in Listed["hand"]
    BY ListedAt, SetsAssumption
  <2>2. \A x, y \in Lists : x # y => Listed[x] \cap Listed[y] = {}
    BY Given, Apart
  <2> QED
    BY <2>1, <2>2, ListedAt DEF Lists
<1> QED
  BY <1>1, <1>2, <1>3 DEF ArmedOK

\* A waiter that fails holds the node of the resource it waited for.
LEMMA WaiterHolds ==
    ASSUME EInv, pub.waiters # << >>
    PROVE  table[pub.id].st # "none"
<1> DEFINE r == Waiter
<1>1. r \in Elements(pub.waiters)
  <2>1. pub.waiters \in Seq(Requests)
    BY Given DEF LocalTypes, PubRec
  <2> QED
    BY <2>1, ElementsOf DEF Waiter
<1>2. r \in LiveOnes /\ req[r].retained /\ pub.id \in Deps[r]
  BY <1>1, Given, PlacesLive DEF EInv, RefsInv, WaitersPin
<1>3. r \in Users(pub.id) /\ pub.id \in Resources
  BY <1>2, RequestsAssumption DEF Users, LiveOnes
<1> QED
  BY <1>3 DEF EInv, RefsInv, PinsOK

\* No step of the loop is without a defined outcome.
LEMMA NextDefined ==
    ASSUME EInv, HandlesInv, CancelsOK, ArmedOK, NoUndefined, DestroysPlainly, [Next]_vars
    PROVE  NoUndefined'
BY CrashesFrom, DestroyedOnce, CancelledFound, RetryFound, WaiterHolds DEF NoUndefined

----------------------------------------------------------------------------
(* The lists of cancelled requests. *)

\* How they change.
CancelLists == \/ UNCHANGED <<cancelled, work.cancelled>>
               \/ Detach /\ cancelled' = << >> /\ work'.cancelled = cancelled
               \/ /\ CancelOne /\ ~Crash /\ cancelled' = cancelled
                  /\ work'.cancelled = Tail(work.cancelled)
               \/ \E c \in Calls : /\ Cancel(c) /\ cancelled' = <<c.on>> \o cancelled
                                   /\ work' = work /\ ~req[c.on].isPending
LEMMA NextCancelLists ==
    ASSUME EInv, [Next]_vars
    PROVE  CancelLists
<1>0. work \in WorkRec
  BY Given DEF LocalTypes
<1>1. CASE UNCHANGED <<pending, work.pending, cancelled, work.cancelled>>
  BY <1>1 DEF CancelLists
<1>2. CASE Detach
  <2>1. cancelled' = << >> /\ work' = [work EXCEPT !.cancelled = cancelled, !.pending = pending]
    BY <1>2 DEF Detach
  <2>2. work'.cancelled = cancelled
    BY <1>0, <2>1 DEF WorkRec
  <2> QED
    BY <1>2, <2>1, <2>2 DEF CancelLists
<1>3. CASE TakePending
  <2>1. cancelled' = cancelled /\ work' = [work EXCEPT !.pending = Tail(@)]
    BY <1>3 DEF TakePending, lists
  <2>2. work'.cancelled = work.cancelled
    BY <1>0, <2>1 DEF WorkRec
  <2> QED
    BY <2>1, <2>2 DEF CancelLists
<1>4. CASE CancelOne /\ ~Crash
  <2>1. cancelled' = cancelled /\ work' = [work EXCEPT !.cancelled = Tail(@)]
    BY <1>4 DEF CancelOne, lists
  <2>2. work'.cancelled = Tail(work.cancelled)
    BY <1>0, <2>1 DEF WorkRec
  <2> QED
    BY <1>4, <2>1, <2>2 DEF CancelLists
<1>5. CASE RequeueWrite \/ Teardown \/ \E c \in Calls : RequestSubmit(c) \/ LoopSubmit(c)
  <2>1. UNCHANGED <<cancelled, work>>
    BY <1>5 DEF RequeueWrite, Teardown, RequestSubmit, LoopSubmit, Enlist, lists, local
  <2> QED
    BY <2>1 DEF CancelLists
<1>6. ASSUME NEW c \in Calls, Cancel(c) PROVE CancelLists
  <2>1. /\ work' = work
        /\ cancelled' = cancelled
           \/ (cancelled' = <<c.on>> \o cancelled /\ ~req[c.on].isPending)
    BY <1>6 DEF Cancel, local
  <2> QED
    BY <1>6, <2>1 DEF CancelLists
<1> QED
  BY <1>1, <1>2, <1>3, <1>4, <1>5, <1>6, NextLooks DEF Looks

\* Between two iterations the maps stay, and the loop leaves only with the lists
\* in its hands, unless it is destroyed.
LEMMA BetweenLeads ==
    ASSUME EInv, Between, [Next]_vars
    PROVE  \/ Detach \/ Crash \/ (pc = "idle" /\ \E c \in Calls : DestroyLoop(c))
           \/ Between' /\ map' = map
<1>1. CASE \E c \in Calls : Call(c)
  <2> PICK c \in Calls : Call(c)
    BY <1>1
  <2>1. CASE PublishCall(c)
    <3>1. /\ pc \in {"idle", "onloop", "finish"} /\ map' = map
          /\ \E ok, own : BeginPublish(c.on, ok, own, pc)
      BY <2>1, CallsAssumption DEF PublishCall, Makes, LoopThread
    <3>2. pc' = "publish" /\ pub'.back = pc
      BY <3>1, PublishGoes
    <3>3. pc \in {"idle", "onloop"}
      BY <3>1 DEF Between, Settled, Publishing
    <3> QED
      BY <3>1, <3>2, <3>3 DEF Between, Publishing
  <2>2. CASE DestroyLoop(c)
    BY <2>2 DEF DestroyLoop
  <2>3. CASE Run(c)
    BY <2>3 DEF Run, Goto, sched, Between, Settled
  <2>4. CASE ~PublishCall(c) /\ ~DestroyLoop(c) /\ ~Run(c)
    <3>1. UNCHANGED <<pc, pub, map>>
      BY <2>4 DEF Call, RequestSubmit, LoopSubmit, Enlist, Cancel, Inject, Stop, Post, NodeCall,
            sched, local
    <3> QED
      BY <3>1 DEF Between, Publishing
  <2> QED
    BY <2>1, <2>2, <2>3, <2>4
<1>2. CASE Scheduler
  BY <1>2 DEF Scheduler, CancelOne, CancelsDone, TakePending, DropCancelled, Admit, Launch,
        EnterRated, MoveRated, MergeRated, MoveWaiting, LeaveWaiting, Between, Settled,
        Publishing
<1>3. ~Completions
  BY DEF Completions, CompleteOne, CompletionsDone, Finish429, FinishDelay, FinishRetry,
        FinishFinal, InjectedOne, InjectedDone, Finishes, Between, Settled, Publishing
<1>4. CASE ResourceOps
  <2>1. ~Drain /\ ~ApplyOp /\ ~OpsDone
    BY DEF Drain, ApplyOp, OpsDone, Between, Settled, Publishing
  <2>2. pub.back \in {"idle", "onloop"}
    BY <1>4, <2>1 DEF ResourceOps, RequeueRead, RequeueWrite, FailWaiter, PublishEnd,
          Between, Settled, Publishing
  <2>3. pub \in PubRec
    BY Given DEF LocalTypes
  <2>4. CASE RequeueRead \/ RequeueWrite \/ (FailWaiter /\ ~Crash)
    <3>1. pc' \in {"publish", "requeue"} /\ map' = map
      BY <2>4 DEF RequeueRead, RequeueWrite, FailWaiter, Goto, sched
    <3>2. \/ pub' = [pub EXCEPT !.snap = pending]
          \/ pub' = [pub EXCEPT !.waiters = Tail(@), !.snap = << >>]
          \/ pub' = [pub EXCEPT !.waiters = Tail(@)]
      BY <2>4 DEF RequeueRead, RequeueWrite, FailWaiter
    <3>3. pub'.back = pub.back
      BY <2>3, <3>2 DEF PubRec
    <3> QED
      BY <2>2, <3>1, <3>3 DEF Between, Publishing
  <2>5. CASE PublishEnd
    <3>1. pc' = pub.back /\ map' = map
      BY <2>5 DEF PublishEnd, Goto, sched
    <3> QED
      BY <2>2, <3>1 DEF Between, Settled
  <2> QED
    BY <1>4, <2>1, <2>4, <2>5 DEF ResourceOps
<1>5. CASE UNCHANGED vars \/ Top \/ OnLoop \/ ExitTest \/ Wait \/ Tick
  <2>1. map' = map
    BY <1>5 DEF vars, Top, OnLoop, ExitTest, Wait, Tick, sched
  <2>2. UNCHANGED <<pc, pub>> \/ pc' \in Settled
    BY <1>5 DEF vars, Top, OnLoop, ExitTest, Wait, Tick, Goto, local, Settled
  <2> QED
    BY <2>1, <2>2 DEF Between, Publishing
<1>6. ~PerformEnd /\ ~\E r \in Requests : TransferDone(r)
  BY DEF PerformEnd, TransferDone, Between, Settled, Publishing
<1> QED
  BY <1>1, <1>2, <1>3, <1>4, <1>5, <1>6 DEF Next, LoopStep, Over

\* While the loop walks its copy of the list, only that moves a request.
LEMMA CancelledLeads ==
    ASSUME pc = "cancelled", work.cancelled # << >>, [Next]_vars
    PROVE  CancelOne \/ UNCHANGED <<pc, map>>
<1>1. CASE \E c \in Calls : Call(c)
  <2> PICK c \in Calls : Call(c)
    BY <1>1
  <2>1. ~(PublishCall(c) \/ Run(c) \/ DestroyLoop(c))
    BY CallsAssumption DEF PublishCall, Run, DestroyLoop, Makes, LoopThread
  <2> QED
    BY <2>1 DEF Call, RequestSubmit, LoopSubmit, Enlist, Cancel, Inject, Stop, Post, NodeCall,
          sched
<1>2. CASE Scheduler
  BY <1>2 DEF Scheduler, Detach, CancelsDone, TakePending, DropCancelled, Admit, Launch,
        EnterRated, MoveRated, MergeRated, MoveWaiting, LeaveWaiting
<1>3. ~Completions
  BY DEF Completions, CompleteOne, CompletionsDone, Finish429, FinishDelay, FinishRetry,
        FinishFinal, InjectedOne, InjectedDone, Finishes
<1>4. ~ResourceOps
  BY DEF ResourceOps, Drain, ApplyOp, OpsDone, RequeueRead, RequeueWrite, FailWaiter,
        PublishEnd
<1>5. CASE \/ UNCHANGED vars \/ Top \/ OnLoop \/ PerformEnd \/ ExitTest \/ Wait \/ Tick
           \/ \E r \in Requests : TransferDone(r)
  BY <1>5 DEF vars, Top, OnLoop, PerformEnd, ExitTest, Wait, Tick, TransferDone, sched
<1> QED
  BY <1>1, <1>2, <1>3, <1>4, <1>5 DEF Next, LoopStep, Over

\* What cancelling a request that is not pending finds: one of the maps it looks
\* for it in.
LEMMA CancelFinds ==
    ASSUME EInv, HomesOK, PendingOK, InjectedOK, CancelsSettled, NEW c \in Calls, Cancel(c),
           ~req[c.on].isPending
    PROVE  /\ c.on \in LiveOnes /\ c.on \notin RateLimited /\ pc \in Settled
           /\ c.on \in map["queued"] \cup map[Home(c.on)]
<1>1. c.op = "cancel" /\ pc \in Window["cancel"]
  BY DEF Cancel, Makes
<1> PICK r \in Requests : r = c.on
  BY <1>1, CallsAssumption
<1>2. /\ r \in LiveOnes /\ r \notin RateLimited /\ pc \in Settled /\ Deps[r] = {}
      /\ \A d \in Calls : d.on = r => d.op # "inject"
  BY <1>1 DEF Cancel, CancelsSettled, LiveOnes
<1>3. r \notin LookSet
  BY <1>2 DEF PendingOK, LookSet
<1>4. r \notin InjectedSet
  BY <1>2 DEF InjectedOK, InjectedSet
<1>5. r \notin Elements(pub.waiters) /\ \A id \in Resources : r \notin Elements(table[id].blocked)
  BY <1>2 DEF EInv, RefsInv, WaitersPin
<1>6. cur.req = None
  BY <1>2, Given DEF HoldsOK, Settled, Publishing
<1>7. \A x \in Lists : r \notin Listed[x]
  <2>1. r \notin {cur.req} \ {None}
    BY <1>6
  <2> QED
    BY <1>3, <1>4, <1>5, <2>1, ListedAt DEF Lists, LookSet, InjectedSet
<1>8. \E k \in Maps : r \in map[k]
  BY <1>2, <1>5, <1>7, Given, Apart
<1> QED
  BY <1>2, <1>8 DEF HomesOK, Maps, Home

\* Who is marked: nobody is unmarked, and only cancelling marks.
LEMMA MarkedFrom ==
    ASSUME EInv, [Next]_vars, NEW r \in Requests
    PROVE  \/ req'[r].isCancelled = req[r].isCancelled
           \/ req'[r].isCancelled /\ \E c \in Calls : Cancel(c) /\ c.on = r
<1>0. req \in [Requests -> RequestRec] /\ work \in WorkRec /\ req[r] \in RequestRec
  BY Given DEF LocalTypes
<1>1. CASE SameMarks
  BY <1>1 DEF SameMarks
<1>2. CASE TakePending
  <2>1. req'[r] = req[r] \/ req'[r] = [req[r] EXCEPT !.isPending = FALSE]
    BY <1>0, <1>2 DEF TakePending, WorkRec
  <2> QED
    BY <1>0, <2>1 DEF RequestRec
<1>3. ASSUME NEW c \in Calls, Cancel(c)
      PROVE  req'[r] = req[r] \/ (c.on = r /\ req'[r].isCancelled)
  <2>1. req' = req \/ req' = [req EXCEPT ![c.on].isCancelled = TRUE]
    BY <1>3 DEF Cancel
  <2> QED
    BY <1>0, <2>1 DEF RequestRec
<1>4. ASSUME NEW c \in Calls, RequestSubmit(c) \/ LoopSubmit(c)
      PROVE  req'[r].isCancelled = req[r].isCancelled
  <2>1. CASE Enlists(c)
    BY <2>1, EnlistsMarks
  <2>2. CASE ~Enlists(c)
    BY <1>4, <2>2 DEF Enlists, RequestSubmit, sched
  <2> QED
    BY <2>1, <2>2
<1> QED
  BY <1>1, <1>2, <1>3, <1>4, NextMarks DEF Marks

\* The lists of cancelled requests hold what the loop will find in a map.
LEMMA NextCancelled ==
    ASSUME EInv, HandlesInv, HomesOK, PendingOK, InjectedOK, CancelsOK, MarkedOK,
           CancelsSettled, DestroysPlainly, Disciplined, NoUndefined', [Next]_vars
    PROVE  CancelsOK'
<1>0. /\ work \in WorkRec /\ work.cancelled \in Seq(Requests) /\ cancelled \in Seq(Requests)
      /\ PlacesOK' /\ map \in MapsType /\ "queued" \in Maps
      /\ \A r : Home(r) \in Maps
      /\ Elements(<< >>) = {} /\ Distinct(<< >>)
  BY Given, NextPlaces DEF LocalTypes, ListTypes, WorkRec, MapsType, Maps, Home, Elements,
      Distinct
<1>n. ~Crash
  BY DEF NoUndefined, Crash, Goto
<1>1. CASE cancelled = << >> /\ work.cancelled = << >> /\ UNCHANGED <<cancelled, work.cancelled>>
  <2>1. Listed4Cancel' = {}
    BY <1>0, <1>1 DEF Listed4Cancel
  <2> QED
    BY <1>0, <1>1, <2>1 DEF CancelsOK
<1>2. ASSUME NEW r \in Listed4Cancel, r \in map'["queued"] \cup map'[Home(r)]
      PROVE  /\ r \in LiveOnes' /\ req'[r].isCancelled /\ r \notin RateLimited
  <2>1. r \in Requests /\ req[r].isCancelled /\ r \notin RateLimited
    BY <1>2 DEF CancelsOK, LiveOnes
  <2> QED
    BY <1>0, <1>2, <2>1, MarkedFrom, PlacesLiveNext
<1>3. ASSUME UNCHANGED <<cancelled, work.cancelled>>, map' = map,
             cancelled # << >> => Between', work.cancelled # << >> => pc' = "cancelled"
      PROVE  CancelsOK'
  <2>1. Listed4Cancel' = Listed4Cancel
    BY <1>3 DEF Listed4Cancel
  <2>2. \A r \in Listed4Cancel : r \in map'["queued"] \cup map'[Home(r)]
    BY <1>3 DEF CancelsOK
  <2>3. \A r \in Listed4Cancel' : /\ r \in LiveOnes' /\ req'[r].isCancelled
                                  /\ r \notin RateLimited
                                  /\ r \in map'["queued"] \cup map'[Home(r)]
    BY <1>2, <2>1, <2>2
  <2>4. /\ Distinct(cancelled') /\ Distinct(work'.cancelled)
        /\ cancelled' # << >> => work'.cancelled = << >> /\ Between'
        /\ work'.cancelled # << >> => pc' = "cancelled"
        /\ cancelled' # << >> \/ work'.cancelled # << >> =>
               \E c \in Calls : c.op = "cancel"
    BY <1>3 DEF CancelsOK
  <2> QED
    BY <2>3, <2>4 DEF CancelsOK
<1>4. CASE UNCHANGED <<cancelled, work.cancelled>> /\ cancelled # << >>
  <2>1. Between /\ work.cancelled = << >> /\ \E c \in Calls : c.op = "cancel"
    BY <1>4 DEF CancelsOK
  <2>2. ~Detach
    BY <1>4 DEF Detach
  <2>3. \A c \in Calls : ~DestroyLoop(c)
    BY <2>1 DEF DestroyLoop, DestroysPlainly, Makes
  <2>4. Between' /\ map' = map
    BY <1>n, <2>1, <2>2, <2>3, BetweenLeads
  <2> QED
    BY <1>3, <1>4, <2>1, <2>4
<1>5. CASE UNCHANGED <<cancelled, work.cancelled>> /\ work.cancelled # << >>
  <2>1. cancelled = << >> /\ pc = "cancelled"
    BY <1>5 DEF CancelsOK
  <2>2. ~CancelOne
    <3>1. CancelOne => work' = [work EXCEPT !.cancelled = Tail(@)]
      BY <1>n DEF CancelOne
    <3>2. CancelOne => work'.cancelled = Tail(work.cancelled)
      BY <1>0, <3>1 DEF WorkRec
    <3>3. Tail(work.cancelled) # work.cancelled
      <4>1. Len(Tail(work.cancelled)) # Len(work.cancelled)
        BY <1>0, <1>5
      <4> QED
        BY <4>1
    <3> QED
      BY <1>5, <3>2, <3>3
  <2> QED
    BY <1>3, <1>5, <2>1, <2>2, CancelledLeads
<1>6. CASE Detach /\ cancelled' = << >> /\ work'.cancelled = cancelled
  <2>1. pc = "detach" /\ pc' = "cancelled" /\ map' = map
    BY <1>6 DEF Detach, Goto, sched
  <2>2. work.cancelled = << >>
    BY <2>1 DEF CancelsOK
  <2>3. Listed4Cancel' = Listed4Cancel
    BY <1>0, <1>6, <2>2 DEF Listed4Cancel
  <2>4. \A r \in Listed4Cancel : r \in map'["queued"] \cup map'[Home(r)]
    BY <2>1 DEF CancelsOK
  <2>5. \A r \in Listed4Cancel' : /\ r \in LiveOnes' /\ req'[r].isCancelled
                                  /\ r \notin RateLimited
                                  /\ r \in map'["queued"] \cup map'[Home(r)]
    BY <1>2, <2>3, <2>4
  <2>6. /\ Distinct(cancelled') /\ Distinct(work'.cancelled)
        /\ cancelled' # << >> => work'.cancelled = << >> /\ Between'
        /\ work'.cancelled # << >> => pc' = "cancelled"
        /\ cancelled' # << >> \/ work'.cancelled # << >> =>
               \E c \in Calls : c.op = "cancel"
    BY <1>0, <1>6, <2>1 DEF CancelsOK
  <2> QED
    BY <2>5, <2>6 DEF CancelsOK
<1>7. CASE /\ CancelOne /\ ~Crash /\ cancelled' = cancelled
           /\ work'.cancelled = Tail(work.cancelled)
  <2>1. pc = "cancelled" /\ work.cancelled # << >> /\ pc' = pc
    BY <1>7 DEF CancelOne
  <2>2. cancelled = << >>
    BY <2>1 DEF CancelsOK
  <2> PICK h \in Requests : h = Head(work.cancelled)
    BY <1>0, <2>1
  <2>3. PICK k \in Maps : map' = Take(map, k, h)
    <3>1. CancelledFrom(h) \in Maps
      BY <1>0 DEF CancelledFrom
    <3> QED
      BY <1>7, <3>1 DEF CancelOne
  <2>4. Elements(Tail(work.cancelled)) = Elements(work.cancelled) \ {h}
        /\ Distinct(Tail(work.cancelled))
    BY <1>0, <2>1, DistinctOf DEF CancelsOK
  <2>5. Listed4Cancel' = Listed4Cancel \ {h}
    BY <1>0, <1>7, <2>2, <2>4 DEF Listed4Cancel
  <2>6. \A r \in Listed4Cancel' : r \in map'["queued"] \cup map'[Home(r)]
    <3>1. \A x \in Maps : map[x] \ {h} \subseteq map'[x]
      BY <1>0, <2>3 DEF Take, MapsType
    <3> QED
      BY <1>0, <2>5, <3>1 DEF CancelsOK
  <2>7. \A r \in Listed4Cancel' : /\ r \in LiveOnes' /\ req'[r].isCancelled
                                  /\ r \notin RateLimited
    BY <1>2, <2>5, <2>6
  <2>8. /\ Distinct(cancelled') /\ Distinct(work'.cancelled)
        /\ cancelled' = << >> /\ pc' = "cancelled"
        /\ \E c \in Calls : c.op = "cancel"
    BY <1>7, <2>1, <2>2, <2>4 DEF CancelsOK
  <2> QED
    BY <2>6, <2>7, <2>8 DEF CancelsOK
<1>8. ASSUME NEW c \in Calls, Cancel(c), cancelled' = <<c.on>> \o cancelled, work' = work,
             ~req[c.on].isPending
      PROVE  CancelsOK'
  <2>1. c.op = "cancel" /\ c \in todo /\ UNCHANGED <<pc, map>>
    BY <1>8 DEF Cancel, Makes
  <2> PICK s \in Requests : s = c.on
    BY <2>1, CallsAssumption
  <2>2. /\ s \in LiveOnes /\ s \notin RateLimited /\ pc \in Settled
        /\ s \in map["queued"] \cup map[Home(s)]
    BY <1>8, CancelFinds
  <2>3. ~req[s].isCancelled
    BY <2>1 DEF MarkedOK
  <2>4. s \notin Elements(cancelled)
    BY <2>3 DEF CancelsOK, Listed4Cancel
  <2>5. /\ Distinct(<<s>> \o cancelled)
        /\ Elements(<<s>> \o cancelled) = {s} \cup Elements(cancelled)
    BY <1>0, <2>4, DistinctOf, ElementsOf DEF CancelsOK
  <2>6. work.cancelled = << >> /\ Between'
    BY <2>1, <2>2 DEF CancelsOK, Settled, Between
  <2>7. Listed4Cancel' = Listed4Cancel \cup {s}
    BY <1>8, <2>5 DEF Listed4Cancel
  <2>8. \A r \in Listed4Cancel' : r \in map'["queued"] \cup map'[Home(r)]
    BY <2>1, <2>2, <2>7 DEF CancelsOK
  <2>9. s \in LiveOnes' /\ req'[s].isCancelled /\ s \notin RateLimited
    <3>1. s \in LiveOnes'
      BY <1>0, <2>7, <2>8, PlacesLiveNext
    <3>2. req'[s].isCancelled
      <4>1. req' # req => req' = [req EXCEPT ![s].isCancelled = TRUE]
        BY <1>8 DEF Cancel
      <4>2. cancelled' # cancelled
        <5>1. Len(cancelled') # Len(cancelled)
          BY <1>0, <1>8
        <5> QED
          BY <5>1
      <4>3. req' = [req EXCEPT ![s].isCancelled = TRUE]
        BY <1>8, <4>2 DEF Cancel
      <4> QED
        BY <4>3, Given DEF RequestRec
    <3> QED
      BY <2>2, <3>1, <3>2
  <2>10. \A r \in Listed4Cancel' : /\ r \in LiveOnes' /\ req'[r].isCancelled
                                   /\ r \notin RateLimited
    BY <1>2, <2>7, <2>8, <2>9
  <2>11. /\ Distinct(cancelled') /\ Distinct(work'.cancelled)
         /\ work'.cancelled = << >> /\ Between' /\ \E d \in Calls : d.op = "cancel"
    BY <1>0, <1>8, <2>1, <2>5, <2>6
  <2> QED
    BY <2>8, <2>10, <2>11 DEF CancelsOK
<1> QED
  BY <1>1, <1>4, <1>5, <1>6, <1>7, <1>8, NextCancelLists DEF CancelLists

\* While the loop has a request in its hand to admit it, nothing else is done to it.
LEMMA AdmitLeads ==
    ASSUME pc = "admit", [Next]_vars
    PROVE  DropCancelled \/ Admit \/ UNCHANGED <<pc, cur>>
<1>1. CASE \E c \in Calls : Call(c)
  <2> PICK c \in Calls : Call(c)
    BY <1>1
  <2>1. ~(PublishCall(c) \/ Run(c) \/ DestroyLoop(c))
    BY CallsAssumption DEF PublishCall, Run, DestroyLoop, Makes, LoopThread
  <2> QED
    BY <2>1 DEF Call, RequestSubmit, LoopSubmit, Enlist, Cancel, Inject, Stop, Post, NodeCall,
          local
<1>2. CASE Scheduler
  BY <1>2 DEF Scheduler, Detach, CancelOne, CancelsDone, TakePending, Launch, EnterRated,
        MoveRated, MergeRated, MoveWaiting, LeaveWaiting
<1>3. ~Completions
  BY DEF Completions, CompleteOne, CompletionsDone, Finish429, FinishDelay, FinishRetry,
        FinishFinal, InjectedOne, InjectedDone, Finishes
<1>4. ~ResourceOps
  BY DEF ResourceOps, Drain, ApplyOp, OpsDone, RequeueRead, RequeueWrite, FailWaiter,
        PublishEnd
<1>5. CASE \/ UNCHANGED vars \/ Top \/ OnLoop \/ PerformEnd \/ ExitTest \/ Wait \/ Tick
           \/ \E r \in Requests : TransferDone(r)
  BY <1>5 DEF vars, Top, OnLoop, PerformEnd, ExitTest, Wait, Tick, TransferDone, local
<1> QED
  BY <1>1, <1>2, <1>3, <1>4, <1>5 DEF Next, LoopStep, Over

\* A destroyed request has ended.
LEMMA DestroyEnds ==
    ASSUME EInv, NEW r \in Requests, NEW how \in Ended, NEW n, Destroy(r, how, n)
    PROVE  req'[r].life \in Ended
<1> DEFINE q == [req[r] EXCEPT !.life = how, !.handle = FALSE, !.retained = FALSE]
<1>1. req' = [req EXCEPT ![r] = q]
  BY DEF Destroy
<1>2. q.life = how
  BY Given DEF RequestRec
<1> HIDE DEF q
<1> QED
  BY <1>1, <1>2, Given

\* So has a live request of a loop that is torn down.
LEMMA TeardownEnds ==
    ASSUME EInv, Faces, pc = "idle", Teardown, NEW r \in LiveOnes
    PROVE  req'[r].life = "torn"
<1>1. r \in Requests /\ req[r].life = "live" /\ req[r] \in RequestRec
  BY Given DEF LiveOnes, Live
<1>2. ~Live(r)'
  BY <1>1, TeardownLeavesNone DEF TeardownComplete, Teardown, Goto
<1>3. req'[r] = req[r] \/ req'[r] = [req[r] EXCEPT !.life = "torn", !.handle = FALSE,
                                                 !.retained = FALSE]
  BY <1>1 DEF Teardown
<1> QED
  BY <1>1, <1>2, <1>3 DEF RequestRec, Live

\* A cancelled request that lives is in the lists of cancelled requests, or is
\* still to be looked at.
LEMMA NextMarked ==
    ASSUME EInv, Faces, PendingOK, CancelsOK, MarkedOK, CancelsSettled, NoUndefined',
           [Next]_vars
    PROVE  MarkedOK'
<1>0. /\ work \in WorkRec /\ work.cancelled \in Seq(Requests) /\ cancelled \in Seq(Requests)
      /\ LookSet \subseteq LiveOnes /\ todo \subseteq Calls /\ todo' \subseteq todo
      /\ Elements(<< >>) = {} /\ req \in [Requests -> RequestRec]
  BY Given, PlacesLive, TodoShrinks
  DEF LocalTypes, ListTypes, WorkRec, Elements, LookSet, IInv, TypeOK, ControlTypes
<1>n. ~Crash
  BY DEF NoUndefined, Crash, Goto
<1>1. \A c \in Calls : Cancel(c) => /\ c.op = "cancel" /\ c \notin todo' /\ c.on \in Requests
                                    /\ Live(c.on)
  BY CallsAssumption DEF Cancel, Makes
<1>2. \A r \in Requests : req'[r].isCancelled => Deps[r] = {}
  BY <1>1, MarkedFrom DEF MarkedOK, CancelsSettled
<1>3. \A c \in todo' : c.op = "cancel" => ~req'[c.on].isCancelled
  <2> SUFFICES ASSUME NEW c \in todo', c.op = "cancel", req'[c.on].isCancelled PROVE FALSE
    OBVIOUS
  <2>1. c \in todo /\ c \in Calls /\ c.on \in Requests
    BY <1>0, CallsAssumption
  <2>2. PICK d \in Calls : Cancel(d) /\ d.on = c.on
    BY <2>1, MarkedFrom DEF MarkedOK
  <2> QED
    BY <1>1, <2>1, <2>2 DEF CancelsSettled
<1>4. ASSUME NEW r \in Listed4Cancel, req'[r].life \notin Ended
      PROVE  r \in Listed4Cancel'
  <2>1. CASE UNCHANGED <<cancelled, work.cancelled>>
    BY <2>1 DEF Listed4Cancel
  <2>2. CASE Detach /\ cancelled' = << >> /\ work'.cancelled = cancelled
    <3>1. work.cancelled = << >>
      BY <2>2 DEF Detach, CancelsOK
    <3> QED
      BY <1>0, <2>2, <3>1 DEF Listed4Cancel
  <2>3. CASE /\ CancelOne /\ ~Crash /\ cancelled' = cancelled
             /\ work'.cancelled = Tail(work.cancelled)
    <3>1. work.cancelled # << >>
      BY <2>3 DEF CancelOne
    <3> PICK h \in Requests : h = Head(work.cancelled)
      BY <1>0, <3>1
    <3>2. \E n : Destroy(h, "cancelled", n)
      BY <2>3 DEF CancelOne
    <3>3. r # h
      BY <1>4, <3>2, DestroyEnds DEF Ended
    <3>4. Elements(Tail(work.cancelled)) = Elements(work.cancelled) \ {h}
      BY <1>0, <3>1, DistinctOf DEF CancelsOK
    <3> QED
      BY <2>3, <3>3, <3>4 DEF Listed4Cancel
  <2>4. ASSUME NEW c \in Calls, cancelled' = <<c.on>> \o cancelled, work' = work, Cancel(c)
        PROVE  r \in Listed4Cancel'
    <3>1. Elements(cancelled') = {c.on} \cup Elements(cancelled)
      BY <1>0, <1>1, <2>4, ElementsOf
    <3> QED
      BY <2>4, <3>1 DEF Listed4Cancel
  <2> QED
    BY <2>1, <2>2, <2>3, <2>4, NextCancelLists DEF CancelLists
<1>5. ASSUME NEW r \in LookSet, req'[r].life \notin Ended
      PROVE  r \in LookSet' \/ (pc' = "admit" /\ cur'.req = r)
  <2>1. CASE TakePending
    <3>1. LookSet' = LookSet \ {Head(work.pending)}
      BY <2>1, TakenLook
    <3>2. pc' = "admit" /\ cur'.req = Head(work.pending)
      BY <2>1 DEF TakePending, Goto, NoCur
    <3> QED
      BY <3>1, <3>2
  <2>2. CASE pc = "idle" /\ Teardown
    BY <1>0, <1>5, <2>2, TeardownEnds DEF Ended
  <2> QED
    BY <2>1, <2>2, NextLookSet
<1>6. ASSUME NEW r \in Requests, req[r].isCancelled, pc = "admit", cur.req = r,
             req'[r].life \notin Ended
      PROVE  pc' = "admit" /\ cur'.req = r
  <2>1. ~Admit
    BY <1>6 DEF Admit, Marked
  <2>2. ~DropCancelled
    BY <1>6, DestroyEnds DEF DropCancelled, Ended
  <2> QED
    BY <1>6, <2>1, <2>2, AdmitLeads
<1>7. ASSUME NEW r \in Requests, req'[r].isCancelled, req'[r].life \notin Ended
      PROVE  \/ r \in Listed4Cancel' \cup LookSet'
             \/ pc' = "admit" /\ cur'.req = r
  <2>0. req[r].life \notin Ended
    BY <1>7, EndedStays
  <2>1. CASE req[r].isCancelled
    BY <1>4, <1>5, <1>6, <1>7, <2>0, <2>1 DEF MarkedOK, LookSet
  <2>2. CASE ~req[r].isCancelled
    <3>1. PICK c \in Calls : Cancel(c) /\ c.on = r
      BY <1>7, <2>2, MarkedFrom
    <3>2. req' # req
      BY <1>7, <2>2
    <3>3. cancelled' = IF req[r].isPending THEN cancelled ELSE <<r>> \o cancelled
      BY <3>1, <3>2 DEF Cancel
    <3>4. CASE req[r].isPending
      <4>1. r \in LookSet
        BY <2>0, <3>4 DEF PendingOK, LookSet
      <4> QED
        BY <1>5, <1>7, <4>1
    <3>5. CASE ~req[r].isPending
      <4>1. Elements(cancelled') = {r} \cup Elements(cancelled)
        BY <1>0, <3>3, <3>5, ElementsOf
      <4> QED
        BY <4>1 DEF Listed4Cancel
    <3> QED
      BY <3>4, <3>5
  <2> QED
    BY <2>1, <2>2
<1> QED
  BY <1>2, <1>3, <1>7 DEF MarkedOK, LookSet

\* A cancelled request is not where requests are started or answered.
LEMMA CancelledNotElsewhere ==
    ASSUME CancelsOK, MarkedOK, NEW r \in Requests, req[r].isCancelled, req[r].life = "live"
    PROVE  ~Elsewhere(r)
<1> SUFFICES ASSUME Elsewhere(r) PROVE FALSE
  OBVIOUS
<1>1. r \in Listed4Cancel
  BY DEF MarkedOK, Elsewhere, Ended
<1>2. cancelled # << >> \/ work.cancelled # << >>
  BY <1>1 DEF Listed4Cancel, Elements
<1> QED
  BY <1>2 DEF CancelsOK, Elsewhere, Between, Settled, Publishing

\* It ends cancelled.
LEMMA NextHonoured ==
    ASSUME EInv, Faces, CancelsOK, MarkedOK, CancelHonoured, [Next]_vars
    PROVE  CancelHonoured'
<1> SUFFICES ASSUME NEW r \in Requests, req'[r].isCancelled
             PROVE  req'[r].life \in {"live", "cancelled", "torn"}
  BY DEF CancelHonoured
<1>0. req \in [Requests -> RequestRec] /\ req[r] \in RequestRec
  BY Given
<1>1. CASE ~req[r].isCancelled
  <2>1. PICK c \in Calls : Cancel(c) /\ c.on = r
    BY <1>1, MarkedFrom
  <2>2. req' = [req EXCEPT ![r].isCancelled = TRUE] /\ req[r].life = "live"
    BY <1>1, <2>1 DEF Cancel, Live
  <2> QED
    BY <1>0, <2>2 DEF RequestRec
<1>2. CASE req[r].isCancelled
  <2>1. req[r].life \in {"live", "cancelled", "torn"}
    BY <1>2 DEF CancelHonoured
  <2>2. CASE Calm \/ \E s \in Requests : s # r /\ OthersSame(s)
    BY <2>1, <2>2 DEF Calm, OthersSame, SameFace
  <2>3. CASE Crash
    BY <2>1, <2>3 DEF Crash, sched
  <2>4. CASE pc = "idle" /\ Teardown
    <3>1. req'[r] = req[r] \/ req'[r] = [req[r] EXCEPT !.life = "torn", !.handle = FALSE,
                                                     !.retained = FALSE]
      BY <2>4 DEF Teardown
    <3> QED
      BY <1>0, <2>1, <3>1 DEF RequestRec
  <2>5. CASE Accepted(r) \/ Begun(r) \/ Replied(r) \/ Kept429(r)
    BY <2>5 DEF Accepted, Begun, Replied, Kept429
  <2>6. CASE Parted(r)
    <3>1. req[r].life = "live" /\ (Elsewhere(r) \/ req'[r].life = "cancelled" \/ Deps[r] # {})
      BY <2>6 DEF Parted
    <3>2. Deps[r] = {} /\ ~Elsewhere(r)
      BY <1>2, <3>1, CancelledNotElsewhere DEF MarkedOK
    <3> QED
      BY <3>1, <3>2
  <2> QED
    BY <2>2, <2>3, <2>4, <2>5, <2>6
    DEF Faces, Accepted, Begun, Replied, Parted, Kept429
<1> QED
  BY <1>1, <1>2

\* What cancelling rests on.
CInv == EInv /\ HandlesInv /\ CancelsInv

\* No step of the loop breaks what cancelling rests on.
LEMMA NextCInv ==
    ASSUME CancelsPlainly, CInv, [Next]_vars
    PROVE  CInv'
<1>0. /\ EInv /\ HandlesInv /\ HomesOK /\ PendingOK /\ InjectedOK /\ ArmedOK /\ CancelsOK
      /\ MarkedOK /\ CancelHonoured /\ NoUndefined
      /\ Disciplined /\ CancelsSettled /\ DestroysPlainly /\ RetriesArmed
  BY DEF CInv, CancelsInv, CancelsPlainly
<1>1. Faces
  BY <1>0, NextFaces
<1>2. EInv' /\ ResultsOK' /\ HandledOK'
  BY <1>0, NextEInv, NextResults, NextHandled DEF HandlesInv
<1>3. HomesOK' /\ PendingOK' /\ InjectedOK' /\ ArmedOK'
  BY <1>0, <1>1, NextHomes, NextPending, NextInjected, NextArmed
<1>4. NoUndefined'
  BY <1>0, NextDefined
<1>5. CancelsOK' /\ MarkedOK' /\ CancelHonoured'
  BY <1>0, <1>1, <1>4, NextCancelled, NextMarked, NextHonoured
<1> QED
  BY <1>2, <1>3, <1>4, <1>5 DEF CInv, CancelsInv, HandlesInv

\* It holds when the application starts.
LEMMA InitCInv ==
    ASSUME Disciplined, Init
    PROVE  CInv
<1>1. EInv /\ HandlesInv
  BY InitEInv, InitHandles
<1>2. /\ pc = "idle" /\ todo = Calls
      /\ \A k \in Maps : map[k] = {}
      /\ pending = << >> /\ cancelled = << >> /\ injected = << >>
      /\ work.cancelled = << >> /\ work.pending = << >> /\ work.injected = << >>
  BY DEF Init, NoWork
<1>3. \A r \in Requests : /\ req[r].life = "new" /\ ~req[r].isPending /\ ~req[r].isCancelled
                          /\ r \in OwnRetry => req[r].onRetry
  BY DEF Init, NewRequest
<1>4. Elements(<< >>) = {} /\ Distinct(<< >>)
  BY DEF Elements, Distinct
<1>5. HomesOK /\ PendingOK /\ InjectedOK
  BY <1>2, <1>3, <1>4 DEF HomesOK, PendingOK, InjectedOK, Maps
<1>6. ArmedOK
  BY <1>3, SetsAssumption DEF ArmedOK, LiveOnes, Live
<1>7. CancelsOK /\ Listed4Cancel = {}
  BY <1>2, <1>4 DEF CancelsOK, Listed4Cancel
<1>8. MarkedOK
  BY <1>2, <1>3, CallsAssumption DEF MarkedOK
<1>9. CancelHonoured /\ NoUndefined
  BY <1>2, <1>3 DEF CancelHonoured, NoUndefined
<1> QED
  BY <1>1, <1>5, <1>6, <1>7, <1>8, <1>9 DEF CInv, CancelsInv

\* In every instance whose application cancels, retries and destroys as it may, a
\* cancelled request that lives is in a list the loop will look at, and in the map
\* that it will take it from.
THEOREM CancelsHeld ==
    ASSUME CancelsPlainly
    PROVE  Spec => []CancelsInv
<1>1. Init => CInv
  BY InitCInv DEF CancelsPlainly
<1>2. CInv /\ [Next]_vars => CInv'
  BY NextCInv
<1>3. CInv => CancelsInv
  BY DEF CInv
<1> QED
  BY <1>1, <1>2, <1>3, PTL DEF Spec

\* In every instance whose application cancels, retries and destroys as it may,
\* the loop never touches a destroyed request, a freed node, a map the request is
\* not in, or a NULL callback.
THEOREM AlwaysDefined ==
    ASSUME CancelsPlainly
    PROVE  Spec => []NoUndefined
<1>1. Init => CInv
  BY InitCInv DEF CancelsPlainly
<1>2. CInv /\ [Next]_vars => CInv'
  BY NextCInv
<1>3. CInv => NoUndefined
  BY DEF CInv, CancelsInv
<1> QED
  BY <1>1, <1>2, <1>3, PTL DEF Spec

\* There, a request that is cancelled between two iterations ends cancelled, from
\* whatever list or map it was in.
THEOREM CancelsEnd ==
    ASSUME CancelsPlainly
    PROVE  Spec => []CancelHonoured
<1>1. Init => CInv
  BY InitCInv DEF CancelsPlainly
<1>2. CInv /\ [Next]_vars => CInv'
  BY NextCInv
<1>3. CInv => CancelHonoured
  BY DEF CInv, CancelsInv
<1> QED
  BY <1>1, <1>2, <1>3, PTL DEF Spec

\* And it is not started any more.
THEOREM CancelsStopStarts ==
    ASSUME CancelsPlainly
    PROVE  Spec => CancelledNeverStarts
<1>1. Init => CInv
  BY InitCInv DEF CancelsPlainly
<1>2. CInv /\ [Next]_vars => CInv'
  BY NextCInv
<1>3. CInv /\ [Next]_vars =>
          [\A r \in Requests : req[r].isCancelled /\ r \notin map["queued"] =>
                                   r \notin map'["queued"]]_vars
  <2> SUFFICES ASSUME CInv, [Next]_vars, NEW r \in Requests, req[r].isCancelled,
                      r \notin map["queued"], r \in map'["queued"]
               PROVE  FALSE
    OBVIOUS
  <2>1. EInv /\ CancelsOK /\ MarkedOK /\ Faces
    BY NextFaces DEF CInv, CancelsInv, CancelsPlainly
  <2>2. ~Calm /\ ~Crash /\ ~Teardown /\ \A s \in Requests : s # r => ~OthersSame(s)
    BY DEF Calm, OthersSame, SameFace, Crash, sched, Teardown, Maps
  <2>3. Begun(r)
    BY <2>1, <2>2 DEF Faces, Accepted, Begun, Replied, Parted, Kept429
  <2> QED
    BY <2>1, <2>3, CancelledNotElsewhere DEF Begun
<1> QED
  BY <1>1, <1>2, <1>3, PTL DEF Spec, CancelledNeverStarts

----------------------------------------------------------------------------
(* The loop implements the life cycle of a request. *)

\* What the life of a request, its place and its answer make of its phase.
PhaseFits == \A r \in Requests :
    /\ req[r].life = "new" => Phase(r) = "new"
    /\ req[r].life \in Ended => Phase(r) = "ended"
    /\ req[r].life = "live" =>
           /\ r \in map["queued"] => Phase(r) = "running" /\ ~Answered(r)
           /\ r \notin map["queued"] /\ Answered(r) => Phase(r) = "answered"
           /\ r \notin map["queued"] /\ ~Answered(r) => Phase(r) = "waiting"
    /\ r \in map["queued"] => req[r].life = "live"
    /\ Phase(r) = "running" => r \in map["queued"]
LEMMA PhaseIs == EInv => PhaseFits
<1> SUFFICES ASSUME EInv, NEW r \in Requests
             PROVE  /\ req[r].life = "new" => Phase(r) = "new"
                    /\ req[r].life \in Ended => Phase(r) = "ended"
                    /\ req[r].life = "live" =>
                           /\ r \in map["queued"] => Phase(r) = "running" /\ ~Answered(r)
                           /\ r \notin map["queued"] /\ Answered(r) => Phase(r) = "answered"
                           /\ r \notin map["queued"] /\ ~Answered(r) => Phase(r) = "waiting"
                    /\ r \in map["queued"] => req[r].life = "live"
                    /\ Phase(r) = "running" => r \in map["queued"]
  BY DEF PhaseFits
<1>0. req[r].life \in {"new", "live"} \cup Ended /\ "new" \notin Ended /\ "live" \notin Ended
  <2>1. req[r] \in RequestRec
    BY Given
  <2> QED
    BY <2>1 DEF RequestRec, Ended
<1>1. r \in map["queued"] => req[r].life = "live" /\ ~Answered(r)
  <2> SUFFICES ASSUME r \in map["queued"] PROVE req[r].life = "live" /\ ~Answered(r)
    OBVIOUS
  <2>1. r \in LiveOnes
    BY Given, PlacesLive DEF Maps
  <2>2. cur.req # r
    BY HandUnmapped DEF Maps
  <2> QED
    BY <2>1, <2>2 DEF LiveOnes, Live, Answered
<1>2. Answered(r) => req[r].life = "live"
  BY Given, PlacesLive DEF Answered, LiveOnes, Live
<1> QED
  BY <1>0, <1>1, <1>2 DEF Phase

\* The same after a step.
LEMMA PhaseIsNext == EInv' => PhaseFits'
BY PhaseIs, PTL

\* A step that is not about a request leaves its phase.
LEMMA SamePhase ==
    ASSUME NEW r \in Requests, SameFace(r)
    PROVE  Phase(r)' = Phase(r)
BY DEF SameFace, Phase

phaseOf == [r \in Requests |-> Phase(r)]

\* A step about one request moves that one.
LEMMA MovesOne ==
    ASSUME NEW r \in Requests, OthersSame(r), NEW a, NEW b, Phase(r) = a, Phase(r)' = b
    PROVE  Life!Moves(r, a, b)
<1>1. \A s \in Requests : s # r => Phase(s)' = Phase(s)
  BY SamePhase DEF OthersSame
<1>2. phaseOf' = [phaseOf EXCEPT ![r] = b]
  BY <1>1 DEF phaseOf
<1> QED
  BY <1>2 DEF Life!Moves, phaseOf

\* The loop starts as the life cycle does.
LEMMA LifeStarts ==
    ASSUME Disciplined, Init
    PROVE  Life!Init
<1>1. \A r \in Requests : req[r].life = "new" /\ ~req[r].isCancelled
  BY DEF Init, NewRequest
<1>2. \A r \in Requests : Phase(r) = "new"
  BY <1>1, InitEInv, PhaseIs DEF PhaseFits
<1>3. \A id \in Resources : ~Published(table[id])
  BY DEF Init, DeclareNode, NoNode, Published
<1> QED
  BY <1>1, <1>2, <1>3 DEF Life!Init

\* A step that begins a request begins it there: there is room, and nobody has
\* cancelled it.
LEMMA LifeBegins ==
    ASSUME CInv, CountsOK, EInv', NEW r \in Requests, Begun(r)
    PROVE  Life!Begin(r)
<1>0. EInv /\ CancelsOK /\ MarkedOK
  BY DEF CInv, CancelsInv
<1>1. Life!Moves(r, "waiting", "running")
  <2>1. Phase(r) = "waiting"
    BY <1>0, PhaseIs DEF Begun, PhaseFits
  <2>2. Phase(r)' = "running"
    BY <1>0, PhaseIsNext DEF Begun, PhaseFits
  <2> QED
    BY <2>1, <2>2, MovesOne DEF Begun
<1>2. Life!Running = map["queued"]
  <2>1. map["queued"] \subseteq Requests
    BY <1>0, Given DEF Maps
  <2>2. \A s \in Requests : Phase(s) = "running" <=> s \in map["queued"]
    BY <1>0, PhaseIs DEF PhaseFits
  <2> QED
    BY <2>1, <2>2 DEF Life!Running
<1>3. Cardinality(map["queued"]) < MaxConcurrent
  <2>1. num["queued"] = Cardinality(map["queued"])
    BY DEF Begun, CountsOK, Sized, Counted
  <2>2. num["queued"] \in Int /\ MaxConcurrent \in Nat
    BY <1>0, Given, BoundsAssumption DEF SchedTypes, Counters
  <2> QED
    BY <2>1, <2>2 DEF Begun, AtCapacity
<1>4. ~req[r].isCancelled
  BY <1>0, CancelledNotElsewhere DEF Begun
<1>5. Life!Cardinality(Life!Running) < MaxConcurrent
  <2>1. Life!Cardinality(map["queued"]) = Cardinality(map["queued"])
    BY DEF Cardinality, Life!Cardinality
  <2> QED
    BY <1>2, <1>3, <2>1
<1>6. r \notin {q \in Requests : req[q].isCancelled}
  BY <1>4
<1> QED
  BY <1>1, <1>5, <1>6 DEF Life!Begin

\* A step after which a request is not in the loop's hands any more repeats or
\* ends it.
LEMMA LifeParts ==
    ASSUME CInv, EInv', NEW r \in Requests, Parted(r) \/ Kept429(r)
    PROVE  Life!Repeat(r) \/ Life!End(r)
<1>0. EInv /\ CancelsOK
  BY DEF CInv, CancelsInv
<1>1. /\ OthersSame(r) /\ req[r].life = "live" /\ r \notin map'["queued"] /\ ~Answered(r)'
      /\ \/ req'[r].life = "live" /\ Answered(r) /\ r \in Again
         \/ req'[r].life \in Ended
      /\ r \in map["queued"] => r \in Elements(work.cancelled)
  BY DEF Parted, Kept429, Again, Throttled
<1>2. CASE req'[r].life = "live" /\ Answered(r) /\ r \in Again
  <2>1. Phase(r) = "answered"
    BY <1>0, <1>1, <1>2, PhaseIs DEF PhaseFits
  <2>2. Phase(r)' = "waiting"
    BY <1>1, <1>2, PhaseIsNext DEF PhaseFits
  <2> QED
    BY <1>1, <1>2, <2>1, <2>2, MovesOne DEF Life!Repeat, Again
<1>3. CASE req'[r].life \in Ended
  <2>1. Phase(r)' = "ended"
    BY <1>3, PhaseIsNext DEF PhaseFits
  <2>2. Life!Moves(r, Phase(r), "ended")
    BY <1>1, <2>1, MovesOne
  <2>3. CASE r \in map["queued"]
    <3>1. Phase(r) = "running"
      BY <1>0, <1>1, <2>3, PhaseIs DEF PhaseFits
    <3>2. req[r].isCancelled
      BY <1>0, <1>1, <2>3 DEF CancelsOK, Listed4Cancel
    <3> QED
      BY <2>2, <3>1, <3>2 DEF Life!End
  <2>4. CASE r \notin map["queued"]
    <3>1. Phase(r) \in {"answered", "waiting"}
      BY <1>0, <1>1, <2>4, PhaseIs DEF PhaseFits
    <3> QED
      BY <2>2, <3>1 DEF Life!End
  <2> QED
    BY <2>3, <2>4
<1> QED
  BY <1>1, <1>2, <1>3

\* Destroying the loop ends every request it was given.
LEMMA LifeEndsAll ==
    ASSUME CInv, EInv', Faces, pc = "idle", Teardown
    PROVE  Life!EndAll
<1>0. EInv
  BY DEF CInv
<1>1. ASSUME NEW r \in Requests
      PROVE  Phase(r)' = IF Phase(r) = "new" THEN "new" ELSE "ended"
  <2>0. /\ req[r].life \in {"new", "live"} \cup Ended /\ "live" \notin Ended
        /\ "new" \notin Ended /\ "torn" \in Ended /\ req[r] \in RequestRec
    <3>1. req[r] \in RequestRec
      BY <1>0, Given
    <3> QED
      BY <3>1 DEF RequestRec, Ended
  <2>1. CASE req[r].life = "new"
    <3>1. r \notin LiveOnes
      BY <2>1 DEF LiveOnes, Live
    <3>2. /\ \A k \in Maps : r \notin map[k]
          /\ r \notin Elements(pending) /\ r \notin Elements(injected)
          /\ \A id \in Resources : r \notin Elements(table[id].blocked)
      BY <1>0, <3>1, Given, PlacesLive
    <3>3. r \notin Reached \cup UNION {Blocked(id) : id \in Resources}
      BY <3>2 DEF Reached, Blocked, Elements
    <3>4. req'[r] = req[r]
      BY <3>3 DEF Teardown
    <3> QED
      BY <1>0, <2>1, <3>4, PhaseIs, PhaseIsNext DEF PhaseFits
  <2>2. CASE req[r].life = "live"
    <3>1. req'[r].life = "torn"
      BY <1>0, <2>2, TeardownEnds DEF LiveOnes, Live
    <3>2. Phase(r)' = "ended"
      BY <2>0, <3>1, PhaseIsNext DEF PhaseFits
    <3>3. Phase(r) # "new"
      BY <1>0, <2>2, PhaseIs DEF PhaseFits
    <3> QED
      BY <3>2, <3>3
  <2>3. CASE req[r].life \in Ended
    <3>1. req'[r].life = req[r].life
      BY <1>0, <2>3, EndedStays
    <3>2. Phase(r)' = "ended"
      BY <2>3, <3>1, PhaseIsNext DEF PhaseFits
    <3>3. Phase(r) = "ended"
      BY <1>0, <2>3, PhaseIs DEF PhaseFits
    <3> QED
      BY <3>2, <3>3
  <2> QED
    BY <2>0, <2>1, <2>2, <2>3
<1> QED
  BY <1>1 DEF Life!EndAll

\* Every step of the loop is a step of the life cycle of one request, of all of
\* them, or of none.
LEMMA LifeStep ==
    ASSUME CancelsPlainly, CInv, CountsOK, [Next]_vars
    PROVE  [Life!Next]_(Life!life)
<1>0. EInv /\ HandlesInv /\ Disciplined /\ MarkedOK
  BY DEF CInv, CancelsInv, CancelsPlainly
<1>1. EInv' /\ NoUndefined' /\ Faces /\ DepsHoldInFlight'
  BY <1>0, NextCInv, NextFaces DEF CInv, CancelsInv, EInv, RefsInv
<1>2. \A r \in Requests : req[r].isCancelled => req'[r].isCancelled
  BY <1>0, MarkedFrom
<1>3. \A r \in Requests : Phase(r)' = "running" =>
          Deps[r] \subseteq {id \in Resources : Published(table[id])}'
  <2> TAKE r \in Requests
  <2> HAVE Phase(r)' = "running"
  <2>1. r \in map'["queued"]
    BY <1>1, PhaseIsNext DEF PhaseFits
  <2>2. \A id \in Deps[r] : Published(table[id])'
    BY <1>1, <2>1 DEF DepsHoldInFlight
  <2>3. Deps[r] \subseteq Resources
    BY RequestsAssumption
  <2> QED
    BY <2>2, <2>3
<1>4. \/ \E r \in Requests : Life!Accept(r) \/ Life!Begin(r) \/ Life!Answer(r)
                             \/ Life!Repeat(r) \/ Life!End(r)
      \/ Life!EndAll
      \/ phaseOf' = phaseOf
  <2>1. CASE Calm
    <3>1. \A s \in Requests : Phase(s)' = Phase(s)
      BY <2>1, SamePhase DEF Calm
    <3> QED
      BY <3>1 DEF phaseOf
  <2>2. ~Crash
    BY <1>1 DEF NoUndefined, Crash, Goto
  <2>3. CASE pc = "idle" /\ Teardown
    BY <1>1, <2>3, LifeEndsAll
  <2>4. ASSUME NEW r \in Requests, Accepted(r) PROVE Life!Accept(r)
    <3>1. Phase(r) = "new"
      BY <1>0, <2>4, PhaseIs DEF Accepted, PhaseFits
    <3>2. Phase(r)' = "waiting"
      BY <1>1, <2>4, PhaseIsNext DEF Accepted, PhaseFits
    <3> QED
      BY <2>4, <3>1, <3>2, MovesOne DEF Life!Accept, Accepted
  <2>5. ASSUME NEW r \in Requests, Replied(r) PROVE Life!Answer(r)
    <3>1. Phase(r) = "running"
      BY <1>0, <2>5, PhaseIs DEF Replied, PhaseFits
    <3>2. Phase(r)' = "answered"
      BY <1>1, <2>5, PhaseIsNext DEF Replied, PhaseFits
    <3> QED
      BY <2>5, <3>1, <3>2, MovesOne DEF Life!Answer, Replied
  <2> QED
    BY <1>1, <2>1, <2>2, <2>3, <2>4, <2>5, LifeBegins, LifeParts DEF Faces
<1> QED
  BY <1>2, <1>3, <1>4 DEF Life!Next, phaseOf

\* In every instance whose application cancels, retries and destroys as it may, the
\* loop implements the life cycle: a request starts only from waiting, with room,
\* its dependencies and no cancellation, is answered once for each time it ran
\* unless it is cancelled meanwhile, runs again only if its settings allow it, and
\* stays ended.
THEOREM RequestsLive ==
    ASSUME CancelsPlainly
    PROVE  Spec => ImplementsRequestLife
<1>1. Init => CInv /\ CountsOK /\ Life!Init
  BY InitCInv, InitCounts, LifeStarts DEF CancelsPlainly
<1>2. CInv /\ CountsOK /\ [Next]_vars => CInv' /\ CountsOK' /\ [Life!Next]_(Life!life)
  BY NextCInv, NextCounts, LifeStep DEF CInv
<1> QED
  BY <1>1, <1>2, PTL DEF Spec, ImplementsRequestLife, Life!Spec
=============================================================================
