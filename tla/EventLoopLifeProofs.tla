------------------------ MODULE EventLoopLifeProofs -------------------------
(***************************************************************************)
(* What each step does to the life of a request: which steps accept it,    *)
(* begin its transfer, answer it, put it back and end it. From that, a     *)
(* request has a handle in the multi while it is in flight or was just     *)
(* answered, and the counter of handles is right.                          *)
(***************************************************************************)
EXTENDS EventLoopRefsProofs

----------------------------------------------------------------------------
(* What a step does to the life of a request. *)

\* What the life cycle sees of a request, which a step leaves alone.
SameFace(s) ==
    /\ req'[s].life = req[s].life /\ req'[s].handle = req[s].handle
    /\ s \in map'["queued"] <=> s \in map["queued"]
    /\ Answered(s)' <=> Answered(s)
OthersSame(r) == \A s \in Requests : s # r => SameFace(s)
MultiStays    == num'["multi"] = num["multi"]

Calm == (\A s \in Requests : SameFace(s)) /\ MultiStays
\* A new request is accepted.
Accepted(r) ==
    /\ OthersSame(r) /\ MultiStays /\ req'[r].handle = req[r].handle
    /\ req[r].life = "new" /\ req'[r].life = "live"
    /\ r \notin map["queued"] /\ r \notin map'["queued"] /\ ~Answered(r)'
\* The loop thread came to it, and not in its lists of what to look at.
Elsewhere(r) ==
    /\ pc \in {"launch", "rated", "refresh", "inactive", "injected", "finish"}
    /\ r \notin Elements(pending) \cup Elements(work.pending)
\* Its transfer begins.
Begun(r) ==
    /\ OthersSame(r) /\ req[r].life = "live" /\ req'[r].life = "live"
    /\ r \notin map["queued"] /\ ~Answered(r) /\ r \in map'["queued"]
    /\ req'[r].handle /\ num'["multi"] = num["multi"] + 1
    /\ ~AtCapacity /\ Elsewhere(r) /\ pc \in {"launch", "rated", "refresh", "inactive"}
\* Its transfer is done and the callback has been called.
Replied(r) ==
    /\ OthersSame(r) /\ MultiStays /\ req'[r].handle = req[r].handle
    /\ req[r].life = "live" /\ req'[r].life = "live"
    /\ r \in map["queued"] /\ r \notin map'["queued"] /\ Answered(r)'
\* The requests that may run more than once.
Again == Refreshing \cup RateLimited
         \cup {r \in Requests : \E o \in {"ok", "fail"} : Returns[r][o] # {0}}
\* It goes round again, or ends.
Parted(r) ==
    /\ OthersSame(r) /\ req[r].life = "live"
    /\ \/ req'[r].life = "live" /\ Answered(r) /\ r \in Again
       \/ req'[r].life \in Ended
    /\ r \in map["queued"] => r \in Elements(work.cancelled)
    /\ r \notin map'["queued"] /\ ~Answered(r)'
    /\ Elsewhere(r) \/ req'[r].life = "cancelled" \/ Deps[r] # {}
    /\ r \notin Throttled =>
           /\ ~req'[r].handle
           /\ num'["multi"] = IF req[r].handle THEN num["multi"] - 1 ELSE num["multi"]
\* It met a 429, and keeps its handle.
Kept429(r) ==
    /\ OthersSame(r) /\ r \in Throttled
    /\ req[r].life = "live" /\ req'[r].life = "live" /\ req'[r].handle = req[r].handle
    /\ Answered(r) /\ r \notin map["queued"]
    /\ r \notin map'["queued"] /\ ~Answered(r)'
Faces == \/ Calm \/ Crash \/ (pc = "idle" /\ Teardown)
         \/ \E r \in Requests : Accepted(r) \/ Begun(r) \/ Replied(r) \/ Parted(r)
                                \/ Kept429(r)

\* Nothing changes of a request whose record keeps its life and its handle.
LEMMA FieldsKept ==
    ASSUME NEW r \in Requests, NEW q, req' = [req EXCEPT ![r] = q],
           req \in [Requests -> RequestRec],
           q.life = req[r].life, q.handle = req[r].handle
    PROVE  \A s \in Requests : req'[s].life = req[s].life /\ req'[s].handle = req[s].handle
<1>1. \A s \in Requests : req'[s] = IF s = r THEN q ELSE req[s]
  OBVIOUS
<1> QED
  BY <1>1

\* Where the loop thread is not in a completion nobody is answered.
LEMMA NobodyAnswered ==
    /\ pc \notin {"finish", "publish", "requeue"} => \A s : ~Answered(s)
    /\ pc' \notin {"finish", "publish", "requeue"} => \A s : ~Answered(s)'
BY DEF Answered

\* A publication that is not made by a callback answers nobody.
LEMMA PublicationAnswers ==
    ASSUME NEW id, NEW ok, NEW own, NEW back, BeginPublish(id, ok, own, back),
           back # "finish"
    PROVE  \A s : ~Answered(s)'
<1>1. pc' = "publish" /\ pub'.back = back
  BY PublishGoes
<1> QED
  BY <1>1 DEF Answered

\* Whoever is new is in no map and not answered.
LEMMA NewIsNowhere ==
    ASSUME EInv, NEW r \in Requests, req[r].life # "live"
    PROVE  r \notin map["queued"] /\ ~Answered(r) /\ cur.req # r
<1>1. r \notin LiveOnes
  BY DEF LiveOnes, Live
<1>2. PlacesOK /\ "queued" \in Maps
  BY Given DEF Maps
<1> QED
  BY <1>1, <1>2, PlacesLive DEF Answered

\* A request enters the loop.
LEMMA EntersFaces ==
    ASSUME EInv, NEW r \in Requests, req[r].life = "new", NEW q,
           req' = [req EXCEPT ![r] = q], q.life = "live", q.handle = req[r].handle,
           UNCHANGED <<pc, map, num, cur, pub>>
    PROVE  Accepted(r)
<1>1. \A s \in Requests : req'[s] = IF s = r THEN q ELSE req[s]
  BY Given
<1>2. \A s : Answered(s)' <=> Answered(s)
  BY DEF Answered
<1>3. r \notin map["queued"] /\ ~Answered(r)
  BY NewIsNowhere
<1> QED
  BY <1>1, <1>2, <1>3 DEF Accepted, OthersSame, SameFace, MultiStays

\* The calls of the application.
LEMMA CallFaces ==
    ASSUME EInv, Disciplined, NEW c \in Calls, Call(c)
    PROVE  Faces
<1>0. /\ req \in [Requests -> RequestRec] /\ FreshOK
      /\ c.op \in Submits => c.on \in Requests
  BY Given, CallsAssumption DEF Submits
<1>1. ASSUME req' = req, map' = map, num' = num, \A s : Answered(s)' <=> Answered(s)
      PROVE  Calm
  BY <1>1 DEF Calm, SameFace, MultiStays
<1>2. CASE RequestSubmit(c)
  <2> DEFINE r == c.on
  <2>1. r \in Requests /\ req[r].life = "new" /\ req[r] \in RequestRec
    BY <1>0, <1>2 DEF RequestSubmit, Makes, FreshOK, Submits
  <2>2. CASE Refused(r)
    <3>1. UNCHANGED <<req, map, num, pc, cur, pub>>
      BY <1>2, <2>2 DEF RequestSubmit, sched, local
    <3> QED
      BY <1>1, <3>1 DEF Answered, Faces
  <2>3. CASE ~Refused(r)
    <3> DEFINE d == Floor(IF Priority[r] > 0 THEN -Priority[r] ELSE 0)
               b == req[r].onRetry \/ MaxRetries[r] # 0
               q == [req[r] EXCEPT !.due = d, !.onRetry = b]
               p == [q EXCEPT !.life = "live", !.isPending = TRUE]
    <3>1. /\ req' = [req EXCEPT ![r] = p]
          /\ UNCHANGED <<pc, map, num, cur, pub>>
      BY <1>2, <2>3 DEF RequestSubmit, Enlist, local
    <3>2. p.life = "live" /\ p.handle = req[r].handle
      <4> HIDE DEF d, b
      <4> QED
        BY <2>1 DEF RequestRec
    <3> HIDE DEF p
    <3>3. Accepted(r)
      BY <2>1, <3>1, <3>2, EntersFaces
    <3> QED
      BY <2>1, <3>3 DEF Faces
  <2> QED
    BY <2>2, <2>3 DEF Faces
<1>3. CASE LoopSubmit(c)
  <2> DEFINE r == c.on
             d == Floor(-Priority[r])
             q == [req[r] EXCEPT !.due = d]
             p == [q EXCEPT !.life = "live", !.isPending = TRUE]
  <2>1. r \in Requests /\ req[r].life = "new" /\ req[r] \in RequestRec
    BY <1>0, <1>3 DEF LoopSubmit, Makes, FreshOK, Submits
  <2>2. /\ req' = [req EXCEPT ![r] = p]
        /\ UNCHANGED <<pc, map, num, cur, pub>>
    BY <1>3 DEF LoopSubmit, Enlist, local
  <2>3. p.life = "live" /\ p.handle = req[r].handle
    <3> HIDE DEF d
    <3> QED
      BY <2>1 DEF RequestRec
  <2> HIDE DEF p
  <2> QED
    BY <2>1, <2>2, <2>3, EntersFaces DEF Faces
<1>4. CASE Inject(c)
  <2> DEFINE r == c.on
             p == [req[r] EXCEPT !.life = "live"]
  <2>1. r \in Requests /\ req[r].life = "new" /\ req[r] \in RequestRec
    BY <1>0, <1>4 DEF Inject, Makes, Submits
  <2>2. req' = [req EXCEPT ![r] = p] /\ UNCHANGED <<pc, map, num, cur, pub>>
    BY <1>4 DEF Inject, local
  <2>3. p.life = "live" /\ p.handle = req[r].handle
    BY <2>1 DEF RequestRec
  <2> HIDE DEF p
  <2> QED
    BY <2>1, <2>2, <2>3, EntersFaces DEF Faces
<1>5. CASE Cancel(c)
  <2> DEFINE r == c.on
             p == [req[r] EXCEPT !.isCancelled = TRUE]
  <2>1. r \in Requests /\ req[r] \in RequestRec
    BY <1>0, <1>5, CallsAssumption DEF Cancel, Makes
  <2>2. /\ req' = req \/ req' = [req EXCEPT ![r] = p]
        /\ UNCHANGED <<pc, map, num, cur, pub>>
    BY <1>5 DEF Cancel, local
  <2>3. p.life = req[r].life /\ p.handle = req[r].handle
    BY <2>1 DEF RequestRec
  <2> HIDE DEF p
  <2>4. \A s \in Requests : req'[s].life = req[s].life /\ req'[s].handle = req[s].handle
    BY <1>0, <2>1, <2>2, <2>3, FieldsKept
  <2> QED
    BY <2>2, <2>4 DEF Faces, Calm, SameFace, MultiStays, Answered
<1>6. CASE Stop(c) \/ Post(c) \/ NodeCall(c)
  <2>1. UNCHANGED <<req, map, num, pc, cur, pub>>
    BY <1>6 DEF Stop, Post, NodeCall, sched, local
  <2> QED
    BY <1>1, <2>1 DEF Faces, Answered
<1>7. CASE PublishCall(c)
  <2>1. /\ \E id, ok, own : BeginPublish(id, ok, own, pc)
        /\ cur' = cur /\ req' = req /\ map' = map /\ num' = num
        /\ pc \in {"idle", "onloop", "finish"}
    BY <1>7, CallsAssumption DEF PublishCall, Makes, LoopThread
  <2>2. pc' = "publish" /\ pub'.back = pc
    BY <2>1, PublishGoes
  <2>3. \A s : Answered(s)' <=> Answered(s)
    BY <2>1, <2>2 DEF Answered
  <2> QED
    BY <1>1, <2>1, <2>3 DEF Faces
<1>8. CASE Run(c)
  <2>1. UNCHANGED <<req, map, num>> /\ pc = "idle" /\ pc' = "top"
    BY <1>8 DEF Run, sched, Goto
  <2> QED
    BY <1>1, <2>1, NobodyAnswered DEF Faces
<1>9. CASE DestroyLoop(c)
  BY <1>9 DEF DestroyLoop, Teardown, Goto, Faces
<1> QED
  BY <1>2, <1>3, <1>4, <1>5, <1>6, <1>7, <1>8, <1>9 DEF Call

\* A step that writes the record of one request.
LEMMA OneFace ==
    ASSUME EInv, NEW r \in Requests, NEW q, req' = [req EXCEPT ![r] = q],
           \A s \in Requests : s # r => /\ s \in map'["queued"] <=> s \in map["queued"]
                                        /\ Answered(s)' <=> Answered(s)
    PROVE  OthersSame(r) /\ req'[r] = q
<1>1. \A s \in Requests : req'[s] = IF s = r THEN q ELSE req[s]
  BY Given
<1> QED
  BY <1>1 DEF OthersSame, SameFace

\* A step that writes the record of a request but leaves its face as it was.
LEMMA CalmFace ==
    ASSUME EInv, NEW r \in Requests, NEW q, req' = [req EXCEPT ![r] = q],
           q.life = req[r].life, q.handle = req[r].handle,
           \A s \in Requests : /\ s \in map'["queued"] <=> s \in map["queued"]
                               /\ Answered(s)' <=> Answered(s),
           MultiStays
    PROVE  Calm
<1>1. \A s \in Requests : req'[s] = IF s = r THEN q ELSE req[s]
  BY Given
<1> QED
  BY <1>1 DEF Calm, SameFace

\* Who moves on in the scheduler has no handle unless a 429 kept it.
LEMMA IdleHandle ==
    ASSUME HandledOK, NEW r \in Requests, r \notin map["queued"], ~Answered(r),
           pc \notin {"crashed", "destroyed"}
    PROVE  r \notin Throttled => ~req[r].handle
BY DEF HandledOK

\* Whoever is in another place is not in those lists.
LEMMA NotListed ==
    ASSUME EInv, NEW r, \/ r \in Requests /\ cur.req = r
                        \/ \E k \in Maps : r \in map[k]
                        \/ r \in Elements(work.injected)
                        \/ r \in Elements(injected)
                        \/ r \in Elements(pub.waiters)
                        \/ \E id \in Resources : r \in Elements(table[id].blocked)
    PROVE  r \notin Elements(pending) \cup Elements(work.pending)
<1>1. /\ \A k \in Maps, x \in Lists : map[k] \cap Listed[x] = {}
      /\ \A x, y \in Lists : x # y => Listed[x] \cap Listed[y] = {}
      /\ \A id \in Resources, x \in Lists : Elements(table[id].blocked) \cap Listed[x] = {}
  BY Given, Apart
<1>2. {"pending", "taken", "injected", "detached", "woken", "hand"} = Lists
  BY DEF Lists
<1>3. r \in Requests /\ cur.req = r => r \in Listed["hand"]
  BY SetsAssumption, ListedAt
<1> QED
  BY <1>1, <1>2, <1>3, ListedAt

\* A request that was taken from its place is started.
LEMMA StartFaces ==
    ASSUME EInv, HandledOK, NEW r \in LiveOnes, NEW m, NEW n, Start(r, m, n),
           m \in MapsType, m["queued"] = map["queued"],
           n \in NumsType, n["multi"] = num["multi"],
           r \notin map["queued"], ~AtCapacity,
           pc \in {"launch", "rated", "refresh", "inactive"},
           pc' \notin {"finish", "publish", "requeue"}, Elsewhere(r)
    PROVE  Faces
<1>0. /\ r \in Requests /\ req[r] \in RequestRec /\ req[r].life = "live"
      /\ \A s : ~Answered(s) /\ ~Answered(s)'
      /\ "queued" \in Maps /\ "multi" \in Counters /\ n["multi"] \in Int
  BY Given, NobodyAnswered DEF LiveOnes, Live, Maps, Counters, NumsType
<1>1. r \notin Throttled => ~req[r].handle
  BY <1>0, IdleHandle
<1>2. CASE StartRated(r, m, n)
  <2>0. PICK at : req' = [req EXCEPT ![r].due = at]
    BY <1>2 DEF StartRated
  <2> DEFINE q == [req[r] EXCEPT !.due = at]
  <2>1. q.life = req[r].life /\ q.handle = req[r].handle
    BY <1>0 DEF RequestRec
  <2>2. req' = [req EXCEPT ![r] = q] /\ map' = Put(m, "rated", r) /\ num' = n
    BY <1>2, <2>0 DEF StartRated
  <2>3. map'["queued"] = map["queued"]
    BY <2>2 DEF Put, MapsType, Maps
  <2> HIDE DEF q
  <2>4. Calm
    BY <1>0, <2>1, <2>2, <2>3, CalmFace DEF MultiStays
  <2> QED
    BY <2>4 DEF Faces
<1>3. CASE StartUnprepared(r, m, n)
  <2> DEFINE q == [req[r] EXCEPT !.life = "unprepared", !.handle = FALSE, !.retained = FALSE]
  <2>1. q.life = "unprepared" /\ ~q.handle
    BY <1>0 DEF RequestRec
  <2>2. req' = [req EXCEPT ![r] = q] /\ map' = m /\ num' = n
    BY <1>3 DEF StartUnprepared
  <2> HIDE DEF q
  <2>3. OthersSame(r) /\ req'[r] = q
    BY <1>0, <2>2, OneFace
  <2>4. Parted(r)
    BY <1>0, <1>1, <2>1, <2>2, <2>3 DEF Parted, Ended
  <2> QED
    BY <1>0, <2>4 DEF Faces
<1>4. CASE StartTransfer(r, m, n)
  <2> DEFINE q == [req[r] EXCEPT !.handle = TRUE]
             i == n["multi"] + 1
             o == [n EXCEPT !["multi"] = i]
  <2>1. q.life = "live" /\ q.handle
    BY <1>0 DEF RequestRec
  <2>2. /\ req' = [req EXCEPT ![r] = q] /\ map' = Put(m, "queued", r)
        /\ num' = [o EXCEPT !["queued"] = @ + 1]
    BY <1>4 DEF StartTransfer
  <2>3. map'["queued"] = map["queued"] \cup {r}
    BY <1>0, <2>2 DEF Put, MapsType
  <2>4. num'["multi"] = o["multi"] /\ o["multi"] = i
    <3> HIDE DEF i
    <3> QED
      BY <1>0, <2>2 DEF NumsType, Counters
  <2> HIDE DEF q, o
  <2>5. OthersSame(r) /\ req'[r] = q
    BY <1>0, <2>2, <2>3, OneFace
  <2>6. Begun(r)
    BY <1>0, <2>1, <2>3, <2>4, <2>5 DEF Begun
  <2> QED
    BY <1>0, <2>6 DEF Faces
<1> QED
  BY <1>2, <1>3, <1>4 DEF Start

\* A request of the rate limited maps, or of one that is counted, moves on.
LEMMA MovedFaces ==
    ASSUME EInv, HandledOK, NEW j \in {"root", "refresh", "inactive"},
           NEW r \in map[j], NEW n, pc' = pc,
           n = IF j = "root" THEN num ELSE [num EXCEPT ![j] = @ - 1],
           pc \in {"rated", "refresh", "inactive"},
           Limit(r, j, n) \/ (~AtCapacity /\ Start(r, Take(map, j, r), n))
    PROVE  Faces
<1>0. /\ map \in MapsType /\ num \in NumsType /\ r \in LiveOnes /\ j \in Maps
      /\ "queued" \in Maps /\ j # "queued" /\ r \in Requests /\ req[r] \in RequestRec
  BY Given, PlacesLive DEF MapsType, NumsType, SchedTypes, Maps
<1> DEFINE m == Take(map, j, r)
<1>1. m \in MapsType /\ m["queued"] = map["queued"]
  <2>1. m \in MapsType
    BY <1>0, MovedTypes
  <2>2. m["queued"] = map["queued"]
    BY <1>0 DEF Take, MapsType
  <2> QED
    BY <2>1, <2>2
<1>2. n \in NumsType /\ n["multi"] = num["multi"]
  <2>1. CASE j = "root"
    BY <1>0, <2>1
  <2>2. CASE j # "root"
    <3> DEFINE i == num[j] - 1
    <3>1. n = [num EXCEPT ![j] = i]
      BY <2>2, Zenon
    <3>2. j \in Counters /\ j # "multi" /\ "multi" \in Counters
      BY <2>2 DEF Counters
    <3>3. i \in Int
      BY <1>0, <3>2 DEF NumsType
    <3> HIDE DEF i
    <3> QED
      BY <1>0, <3>1, <3>2, <3>3 DEF NumsType
  <2> QED
    BY <2>1, <2>2
<1>3. r \notin map["queued"]
  BY <1>0, OneMap
<1>e. Elsewhere(r)
  BY <1>0, NotListed DEF Elsewhere
<1>4. CASE Limit(r, j, n)
  <2>1. PICK wait \in {Past} \cup 1..MaxDelay : req' = [req EXCEPT ![r].due = wait]
    BY <1>4 DEF Limit
  <2> DEFINE q == [req[r] EXCEPT !.due = wait]
  <2>2. q.life = req[r].life /\ q.handle = req[r].handle
    BY <1>0 DEF RequestRec
  <2>3. req' = [req EXCEPT ![r] = q] /\ map' = Put(m, "rated", r) /\ num' = n
    BY <1>4, <2>1 DEF Limit
  <2> HIDE DEF q, m
  <2>4. map'["queued"] = map["queued"]
    BY <1>1, <2>3 DEF Put, MapsType, Maps
  <2>5. \A s : ~Answered(s) /\ ~Answered(s)'
    BY NobodyAnswered
  <2>6. Calm
    BY <1>0, <1>2, <2>2, <2>3, <2>4, <2>5, CalmFace DEF MultiStays
  <2> QED
    BY <2>6 DEF Faces
<1>5. CASE ~AtCapacity /\ Start(r, Take(map, j, r), n)
  <2>1. ~AtCapacity /\ Start(r, m, n)
    BY <1>5
  <2> HIDE DEF m
  <2> QED
    BY <1>0, <1>e, <1>1, <1>2, <1>3, <2>1, StartFaces
<1> QED
  BY <1>4, <1>5

\* The steps of the scheduler.
LEMMA SchedulerFaces ==
    ASSUME EInv, HandledOK, Scheduler
    PROVE  Faces
<1>0. /\ map \in MapsType /\ num \in NumsType /\ HandsOK
      /\ req \in [Requests -> RequestRec] /\ work \in WorkRec
  BY Given DEF MapsType, NumsType, SchedTypes, LocalTypes
<1>1. ASSUME req' = req, map'["queued"] = map["queued"], num' = num,
             \A s : Answered(s)' <=> Answered(s)
      PROVE  Calm
  BY <1>1 DEF Calm, SameFace, MultiStays
<1>2. /\ \A s : ~Answered(s) /\ ~Answered(s)'
      /\ pc \notin {"destroyed", "crashed"}
  <2>1. /\ pc \notin {"finish", "publish", "requeue"} /\ pc \notin {"destroyed", "crashed"}
        /\ pc' \notin {"finish", "publish", "requeue"}
    BY DEF Scheduler, Detach, CancelOne, CancelsDone, TakePending, DropCancelled, Admit,
         Launch, EnterRated, MoveRated, MergeRated, MoveWaiting, LeaveWaiting, Crash, Goto
  <2> QED
    BY <2>1, NobodyAnswered
<1>3. CASE \/ Detach \/ CancelsDone
           \/ LeaveWaiting("refresh", "inactive") \/ LeaveWaiting("inactive", "perform")
  <2>1. req' = req /\ map' = map /\ num' = num
    BY <1>3 DEF Detach, CancelsDone, LeaveWaiting, sched
  <2> QED
    BY <1>1, <1>2, <2>1 DEF Faces
<1>4. CASE CancelOne
  <2>0. work.cancelled \in Seq(Requests) /\ work.cancelled # << >>
    BY <1>0, <1>4 DEF CancelOne, WorkRec
  <2>r. PICK r \in Requests : r = Head(work.cancelled)
    BY <2>0
  <2> DEFINE k == CancelledFrom(r)
  <2>1. CASE Crash
    BY <2>1 DEF Faces
  <2>2. CASE ~Crash
    <3>1. /\ Live(r) /\ r \in map[k]
          /\ Destroy(r, "cancelled", [num EXCEPT ![k] = @ - 1])
          /\ map' = Take(map, k, r)
      BY <1>4, <2>2, <2>r DEF CancelOne
    <3>2. /\ r \in Requests /\ r \in Elements(work.cancelled)
          /\ k \in Maps /\ "queued" \in Maps /\ k \in Counters /\ k # "multi"
          /\ "multi" \in Counters
      <4>1. 1 \in DOMAIN work.cancelled /\ r = work.cancelled[1]
        BY <2>0, <2>r
      <4> QED
        BY <4>1 DEF Elements, CancelledFrom, Home, Maps, Counters
    <3>3. req[r] \in RequestRec /\ req[r].life = "live"
      BY <1>0, <3>1, <3>2 DEF Live
    <3> DEFINE q == [req[r] EXCEPT !.life = "cancelled", !.handle = FALSE, !.retained = FALSE]
               i == num[k] - 1
               n == [num EXCEPT ![k] = i]
    <3>4. q.life = "cancelled" /\ ~q.handle
      BY <3>3 DEF RequestRec
    <3>5. req' = [req EXCEPT ![r] = q]
      BY <3>1 DEF Destroy
    <3>6. num' = Cleaned(n, r)
      <4>1. num' = Cleaned([num EXCEPT ![k] = @ - 1], r)
        BY <3>1 DEF Destroy
      <4> HIDE DEF k
      <4>2. [num EXCEPT ![k] = @ - 1] = n
        BY Zenon
      <4> QED
        BY <4>1, <4>2
    <3>7. n["multi"] = num["multi"] /\ n \in NumsType
      <4>1. i \in Int
        BY <1>0, <3>2 DEF NumsType
      <4> HIDE DEF k, i
      <4> QED
        BY <1>0, <3>2, <4>1 DEF NumsType
    <3>8. num'["multi"] = IF req[r].handle THEN num["multi"] - 1 ELSE num["multi"]
      <4> HIDE DEF n
      <4> QED
        BY <3>2, <3>6, <3>7 DEF Cleaned, NumsType
    <3>9. /\ \A s \in Requests : s # r => (s \in map'["queued"] <=> s \in map["queued"])
          /\ r \notin map'["queued"]
      <4>1. \A x \in Maps \ {k} : map'[x] = map[x]
        BY <1>0, <3>1, <3>2 DEF Take, MapsType
      <4>2. map'[k] = map[k] \ {r}
        BY <1>0, <3>1, <3>2 DEF Take, MapsType
      <4>3. k # "queued" => r \notin map["queued"]
        BY <3>1, <3>2, OneMap
      <4> QED
        BY <3>2, <4>1, <4>2, <4>3
    <3> HIDE DEF q, k
    <3>10. OthersSame(r) /\ req'[r] = q
      BY <1>2, <3>2, <3>5, <3>9, OneFace
    <3>11. Parted(r)
      BY <1>2, <3>2, <3>3, <3>4, <3>8, <3>9, <3>10 DEF Parted, Ended
    <3> QED
      BY <3>2, <3>11 DEF Faces
  <2> QED
    BY <2>1, <2>2
<1>5. CASE TakePending
  <2> DEFINE r == Head(work.pending)
             q == [req[r] EXCEPT !.isPending = FALSE]
  <2>1. r \in Requests /\ req[r] \in RequestRec
    BY <1>0, <1>5 DEF TakePending, WorkRec
  <2>2. req' = [req EXCEPT ![r] = q] /\ map' = map /\ num' = num
    BY <1>5 DEF TakePending
  <2>3. q.life = req[r].life /\ q.handle = req[r].handle
    BY <2>1 DEF RequestRec
  <2> HIDE DEF q, r
  <2> QED
    BY <1>2, <2>1, <2>2, <2>3, CalmFace DEF MultiStays, Faces
<1>6. pc \in {"admit", "launch"} => /\ cur.req \in Requests /\ cur.req \in LiveOnes
                                    /\ req[cur.req] \in RequestRec
                                    /\ req[cur.req].life = "live"
  <2>1. pc \in {"admit", "launch"} => cur.req \in Requests
    BY <1>0 DEF HandsOK, Handling
  <2> QED
    BY <1>0, <2>1, Given, PlacesLive DEF LiveOnes, Live
<1>7. CASE DropCancelled
  <2>0. pc = "admit"
    BY <1>7 DEF DropCancelled
  <2>r. PICK r \in Requests : r = cur.req
    BY <1>6, <2>0
  <2> DEFINE q == [req[r] EXCEPT !.life = "cancelled", !.handle = FALSE, !.retained = FALSE]
  <2>1. /\ req' = [req EXCEPT ![r] = q] /\ map' = map /\ num' = Cleaned(num, r)
    BY <1>7, <2>r DEF DropCancelled, Destroy
  <2>2. q.life = "cancelled" /\ ~q.handle
    BY <1>6, <2>0, <2>r DEF RequestRec
  <2>3. num'["multi"] = IF req[r].handle THEN num["multi"] - 1 ELSE num["multi"]
    <3>1. "multi" \in Counters
      BY DEF Counters
    <3> QED
      BY <1>0, <2>1, <3>1 DEF Cleaned, NumsType
  <2>4. r \notin map["queued"]
    BY <2>r, HandUnmapped DEF Maps
  <2> HIDE DEF q
  <2>5. OthersSame(r) /\ req'[r] = q
    BY <1>2, <2>1, OneFace
  <2>6. Parted(r)
    BY <1>2, <1>6, <2>0, <2>r, <2>1, <2>2, <2>3, <2>4, <2>5 DEF Parted, Ended
  <2> QED
    BY <2>6 DEF Faces
<1>8. CASE Admit
  <2> DEFINE r == cur.req
             q == [req[r] EXCEPT !.retained = @ \/ Deps[r] # {}]
  <2>1. pc = "admit" /\ req' = [req EXCEPT ![r] = q] /\ map' = map /\ num' = num
    BY <1>8 DEF Admit
  <2>2. q.life = req[r].life /\ q.handle = req[r].handle
    BY <1>6, <2>1 DEF RequestRec
  <2> HIDE DEF q
  <2> QED
    BY <1>2, <1>6, <2>1, <2>2, CalmFace DEF MultiStays, Faces
<1>9. CASE Launch
  <2> DEFINE r == cur.req
  <2>1. /\ pc = "launch" /\ pc' = "pending" /\ r \notin map["queued"]
        /\ r \in Requests /\ r \in LiveOnes /\ Elsewhere(r)
    BY <1>6, <1>9, HandUnmapped, NotListed DEF Launch, Goto, Maps, Elsewhere
  <2>2. \/ ~AtCapacity /\ Start(r, map, num)
        \/ /\ map' = Put(map, Home(r), r)
           /\ num' = [num EXCEPT ![Home(r)] = @ + 1] /\ req' = req
    BY <1>9 DEF Launch, Ready
  <2>3. CASE ~AtCapacity /\ Start(r, map, num)
    BY <1>0, <2>1, <2>3, StartFaces
  <2>4. CASE /\ map' = Put(map, Home(r), r)
             /\ num' = [num EXCEPT ![Home(r)] = @ + 1] /\ req' = req
    <3>1. map'["queued"] = map["queued"] /\ num'["multi"] = num["multi"]
      BY <1>0, <2>4 DEF Put, Home, MapsType, NumsType, Maps, Counters
    <3>2. Calm
      BY <1>2, <2>4, <3>1 DEF Calm, SameFace, MultiStays
    <3> QED
      BY <3>2 DEF Faces
  <2> QED
    BY <2>2, <2>3, <2>4
<1>10. CASE EnterRated \/ MergeRated
  <2>1. req' = req /\ map'["queued"] = map["queued"] /\ num' = num
    BY <1>0, <1>10 DEF EnterRated, MergeRated, MapsType, Maps
  <2> QED
    BY <1>1, <1>2, <2>1 DEF Faces
<1>11. CASE MoveRated
  <2>1. /\ pc' = pc /\ pc = "rated"
        /\ \E r \in map["root"] : \/ Limit(r, "root", num)
                                  \/ ~AtCapacity /\ Start(r, Take(map, "root", r), num)
    BY <1>11 DEF MoveRated, Firsts, Ready
  <2> QED
    BY <2>1, MovedFaces
<1>12. ASSUME NEW k \in {"refresh", "inactive"}, MoveWaiting(k) PROVE Faces
  <2> DEFINE n == [num EXCEPT ![k] = @ - 1]
  <2>1. /\ pc' = pc /\ pc = k
        /\ \E r \in map[k] : Limit(r, k, n) \/ (~AtCapacity /\ Start(r, Take(map, k, r), n))
    BY <1>12 DEF MoveWaiting, Firsts, Ready
  <2>2. n = IF k = "root" THEN num ELSE [num EXCEPT ![k] = @ - 1]
    OBVIOUS
  <2> HIDE DEF n
  <2> QED
    BY <2>1, <2>2, MovedFaces
<1> QED
  BY <1>3, <1>4, <1>5, <1>7, <1>8, <1>9, <1>10, <1>11, <1>12 DEF Scheduler

\* What the multi holds when the handle of a request has left it.
LEMMA CleanedMulti ==
    ASSUME NEW n \in NumsType, NEW r
    PROVE  Cleaned(n, r)["multi"] = IF req[r].handle THEN n["multi"] - 1 ELSE n["multi"]
<1>1. "multi" \in Counters
  BY DEF Counters
<1> QED
  BY <1>1 DEF Cleaned, NumsType

\* The request whose callback was called lives on in the loop thread's hand.
LEMMA FinishedOne ==
    ASSUME EInv, pc = "finish"
    PROVE  LET r == cur.req IN
           /\ r \in Requests /\ r \in LiveOnes /\ req[r] \in RequestRec
           /\ req[r].life = "live" /\ Answered(r) /\ r \notin map["queued"]
           /\ Elsewhere(r)
<1>1. cur.req \in Requests
  BY Given DEF HandsOK, Handling
<1>2. cur.req \in LiveOnes
  BY <1>1, Given, PlacesLive
<1>3. cur.req \notin map["queued"]
  BY <1>1, HandUnmapped DEF Maps
<1>4. Elsewhere(cur.req)
  BY <1>1, NotListed DEF Elsewhere
<1> QED
  BY <1>1, <1>2, <1>3, <1>4, Given DEF LiveOnes, Live, Answered

\* It leaves the hand.
LEMMA FinishesFaces ==
    ASSUME EInv, NEW next \in {"completions"}, Finishes(next)
    PROVE  /\ pc = "finish"
           /\ \A s \in Requests : ~Answered(s)' /\ (s # cur.req => ~Answered(s))
<1>1. pc = "finish" /\ pc' = "completions"
  BY DEF Finishes, Goto
<1> QED
  BY <1>1 DEF Answered

\* It goes round again.
LEMMA RequeueParts ==
    ASSUME EInv, Finishes("completions"), NEW q, Requeue(cur.req, q),
           q.life = "live", q \in RequestRec, NEW r \in Again, r = cur.req
    PROVE  Parted(r)
<1> DEFINE p == [q EXCEPT !.handle = FALSE]
           n == Cleaned(num, r)
<1>0. pc = "finish"
  BY DEF Finishes
<1>1. /\ r \in Requests /\ r \in LiveOnes /\ req[r] \in RequestRec
      /\ req[r].life = "live" /\ Answered(r) /\ r \notin map["queued"]
      /\ Elsewhere(r)
  BY <1>0, FinishedOne
<1>2. p.life = "live" /\ ~p.handle
  BY DEF RequestRec
<1>3. /\ req' = [req EXCEPT ![r] = p] /\ map' = Put(map, Home(r), r)
      /\ num' = [n EXCEPT ![Home(r)] = @ + 1]
  BY DEF Requeue, Requeued
<1>4. map'["queued"] = map["queued"]
  BY <1>3, Given DEF Put, Home, SchedTypes, Maps
<1>5. num \in NumsType /\ map \in MapsType
  BY Given DEF SchedTypes, NumsType, MapsType
<1>6. n \in NumsType /\ n["multi"] = IF req[r].handle THEN num["multi"] - 1 ELSE num["multi"]
  <2>1. n \in NumsType
    BY <1>1, <1>5, MovedTypes
  <2>2. n["multi"] = IF req[r].handle THEN num["multi"] - 1 ELSE num["multi"]
    BY <1>5, CleanedMulti
  <2> QED
    BY <2>1, <2>2
<1> HIDE DEF p, n
<1>7. num'["multi"] = n["multi"]
  BY <1>3, <1>6 DEF NumsType, Home, Counters
<1>8. \A s \in Requests : ~Answered(s)' /\ (s # r => ~Answered(s))
  BY FinishesFaces
<1>9. OthersSame(r) /\ req'[r] = p
  BY <1>1, <1>3, <1>4, <1>8, OneFace
<1> QED
  BY <1>1, <1>2, <1>4, <1>6, <1>7, <1>8, <1>9 DEF Parted

\* The steps of the completions.
LEMMA CompletionFaces ==
    ASSUME EInv, HandlesInv, Completions
    PROVE  Faces
<1>0. /\ map \in MapsType /\ num \in NumsType /\ HandsOK
      /\ req \in [Requests -> RequestRec] /\ work \in WorkRec
  BY Given DEF MapsType, NumsType, SchedTypes, LocalTypes
<1>1. CASE CompleteOne
  <2>r. PICK r \in Requests : r = Head(msgs).req
    BY <1>1, ReadQueued DEF CompleteOne
  <2>1. /\ r \in map["queued"] /\ map' = Take(map, "queued", r)
        /\ num' = [num EXCEPT !["queued"] = @ - 1] /\ req' = req /\ pc = "completions"
        /\ cur'.req = r
    BY <1>1, <2>r, ReadQueued DEF CompleteOne
  <2>2. req[r].life = "live"
    BY <2>1, Given, PlacesLive DEF Maps, LiveOnes, Live
  <2>3. pc' = "finish" \/ (pc' = "publish" /\ pub'.back = "finish")
    BY <1>1, PublishGoes DEF CompleteOne, Goto
  <2>4. /\ \A s : ~Answered(s)
        /\ \A s \in Requests : Answered(s)' <=> s = r
    BY <2>1, <2>3 DEF Answered
  <2>5. num'["multi"] = num["multi"]
    BY <1>0, <2>1 DEF NumsType, Counters
  <2>6. map'["queued"] = map["queued"] \ {r}
    BY <1>0, <2>1 DEF Take, MapsType, Maps
  <2>7. Replied(r)
    BY <2>1, <2>2, <2>4, <2>5, <2>6 DEF Replied, OthersSame, SameFace, MultiStays
  <2> QED
    BY <2>7 DEF Faces
<1>2. CASE CompletionsDone \/ InjectedDone
  <2>1. /\ UNCHANGED <<req, map, num>> /\ pc \notin {"finish", "publish", "requeue"}
        /\ pc' \notin {"finish", "publish", "requeue"}
    BY <1>2 DEF CompletionsDone, InjectedDone, sched, Goto
  <2> QED
    BY <2>1, NobodyAnswered DEF Calm, SameFace, MultiStays, Faces
<1>3. CASE InjectedOne
  <2>0. work.injected \in Seq(Requests) /\ work.injected # << >>
    BY <1>0, <1>3 DEF InjectedOne, WorkRec
  <2>r. PICK r \in Requests : r = Head(work.injected)
    BY <2>0
  <2> DEFINE q == [req[r] EXCEPT !.life = "completed"]
  <2>1. /\ pc = "injected" /\ req' = [req EXCEPT ![r] = q] /\ map' = map /\ num' = num
    BY <1>3, <2>r DEF InjectedOne
  <2>2. r \in Elements(work.injected)
    <3>1. 1 \in DOMAIN work.injected /\ r = work.injected[1]
      BY <2>0, <2>r
    <3> QED
      BY <3>1 DEF Elements
  <2>3. r \notin map["queued"] /\ req[r].life = "live" /\ req[r] \in RequestRec
    <3>1. \A k \in Maps, x \in Lists : map[k] \cap Listed[x] = {}
      BY Given, Apart
    <3>2. r \in Listed["detached"] /\ "detached" \in Lists /\ "queued" \in Maps
      BY <2>2, ListedAt DEF Lists, Maps
    <3> QED
      BY <2>2, <3>1, <3>2, Given, PlacesLive DEF LiveOnes, Live
  <2>4. q.life = "completed" /\ q.handle = req[r].handle
    BY <2>3 DEF RequestRec
  <2>5. \A s : ~Answered(s) /\ ~Answered(s)'
    <3>1. \A s : ~Answered(s)
      BY <2>1, NobodyAnswered
    <3>2. CASE pc' = pc
      BY <2>1, <3>2, NobodyAnswered
    <3>3. CASE \E id, ok, own : BeginPublish(id, ok, own, "injected")
      BY <3>1, <3>3, PublicationAnswers
    <3> QED
      BY <1>3, <3>1, <3>2, <3>3 DEF InjectedOne
  <2>e. Elsewhere(r)
    BY <2>1, <2>2, NotListed DEF Elsewhere
  <2>6. r \notin Throttled => ~req[r].handle
    BY <2>1, <2>2, <2>3, <2>5, IdleHandle DEF HandlesInv
  <2> HIDE DEF q
  <2>7. OthersSame(r) /\ req'[r] = q
    BY <2>1, <2>2, <2>5, OneFace
  <2>8. Parted(r)
    BY <2>1, <2>3, <2>4, <2>5, <2>e, <2>6, <2>7 DEF Parted, Ended
  <2> QED
    BY <2>2, <2>8 DEF Faces
<1>4. pc = "finish" =>
          /\ cur.req \in Requests /\ cur.req \in LiveOnes /\ req[cur.req] \in RequestRec
          /\ req[cur.req].life = "live" /\ Answered(cur.req) /\ cur.req \notin map["queued"]
          /\ Elsewhere(cur.req) /\ cur.result \in Outcomes[cur.req]
          /\ cur.ret \in Returns[cur.req][Outcome(cur.result)]
  BY FinishedOne DEF HandlesInv, ResultsOK, Answering
<1>5. CASE Finish429
  <2>0. pc = "finish"
    BY <1>5 DEF Finish429, Finishes
  <2>r. PICK r \in Requests : r = cur.req
    BY <1>4, <2>0
  <2>1. PICK wait \in 0..MaxDelay : req' = [req EXCEPT ![r].due = wait]
    BY <1>5, <2>r DEF Finish429
  <2> DEFINE q == [req[r] EXCEPT !.due = wait]
  <2>2. /\ pc = "finish" /\ map' = Put(map, "rated", r) /\ num' = num
        /\ req' = [req EXCEPT ![r] = q] /\ r \in Throttled
    BY <1>4, <1>5, <2>r, <2>1 DEF Finish429, Finishes, Is429, Throttled
  <2>3. q.life = req[r].life /\ q.handle = req[r].handle
    BY <1>4, <2>r, <2>2 DEF RequestRec
  <2>4. map'["queued"] = map["queued"]
    BY <1>0, <2>2 DEF Put, MapsType, Maps
  <2> HIDE DEF q
  <2>5. \A s \in Requests : ~Answered(s)' /\ (s # r => ~Answered(s))
    BY <1>5, <2>r, FinishesFaces DEF Finish429
  <2>6. OthersSame(r) /\ req'[r] = q
    BY <1>4, <2>2, <2>4, <2>5, OneFace
  <2>7. Kept429(r)
    BY <1>4, <2>r, <2>2, <2>3, <2>4, <2>5, <2>6 DEF Kept429
  <2> QED
    BY <2>7 DEF Faces
<1>6. pc = "finish" /\ cur.ret # 0 => cur.req \in Again
  <2> SUFFICES ASSUME pc = "finish", cur.ret # 0 PROVE cur.req \in Again
    OBVIOUS
  <2>1. Returns[cur.req][Outcome(cur.result)] # {0} /\ cur.req \in Requests
    BY <1>4
  <2> QED
    BY <2>1 DEF Again, Outcome
<1>7. CASE FinishDelay
  <2> DEFINE w == IF cur.ret > MaxDelay THEN MaxDelay ELSE cur.ret
             q == [req[cur.req] EXCEPT !.due = w]
  <2>1. Finishes("completions") /\ pc = "finish" /\ cur.ret > 0 /\ Requeue(cur.req, q)
    BY <1>7 DEF FinishDelay, Finishes
  <2>2. cur.ret # 0 /\ w \in Int
    BY <2>1, Given, BoundsAssumption DEF LocalTypes, CurRec
  <2> HIDE DEF w
  <2>3. q.life = "live" /\ q \in RequestRec
    BY <1>4, <2>1, <2>2 DEF RequestRec
  <2> HIDE DEF q
  <2>4. PICK r \in Again : r = cur.req
    BY <1>6, <2>1, <2>2
  <2>5. Parted(r) /\ r \in Requests
    BY <1>4, <2>1, <2>3, <2>4, RequeueParts
  <2> QED
    BY <2>5 DEF Faces
<1>8. CASE FinishRetry
  <2>1. CASE Crash
    BY <2>1 DEF Faces
  <2>2. CASE ~Crash
    <3>1. /\ Finishes("completions") /\ pc = "finish" /\ cur.ret < 0
          /\ RetryLater(cur.req)
      BY <1>8, <2>2 DEF FinishRetry
    <3>2. PICK wait \in 0..MaxDelay :
              Requeue(cur.req, [req[cur.req] EXCEPT
                  !.due = IF cur.req \in OwnRetry THEN @ ELSE wait,
                  !.retries = CountRetry(cur.req)])
      BY <3>1 DEF RetryLater
    <3>3. cur.ret # 0 /\ CountRetry(cur.req) \in Nat
      BY <1>4, <3>1, Given DEF LocalTypes, CurRec, CountRetry, RequestRec
    <3> DEFINE w == IF cur.req \in OwnRetry THEN req[cur.req].due ELSE wait
               n == CountRetry(cur.req)
               q == [req[cur.req] EXCEPT !.due = w, !.retries = n]
    <3>4. w \in Int
      BY <1>4, <3>1 DEF RequestRec
    <3>5. Requeue(cur.req, q)
      BY <3>2
    <3> HIDE DEF w, n
    <3>6. q.life = "live" /\ q \in RequestRec
      BY <1>4, <3>1, <3>3, <3>4 DEF RequestRec, n
    <3> HIDE DEF q
    <3>7. PICK r \in Again : r = cur.req
      BY <1>6, <3>1, <3>3
    <3>8. Parted(r) /\ r \in Requests
      BY <1>4, <3>1, <3>5, <3>6, <3>7, RequeueParts
    <3> QED
      BY <3>8 DEF Faces
  <2> QED
    BY <2>1, <2>2
<1>9. CASE FinishFinal
  <2>1. Finishes("completions") /\ pc = "finish"
    BY <1>9 DEF FinishFinal, Finishes
  <2>r. PICK r \in Requests : r = cur.req
    BY <1>4, <2>1
  <2>2. CASE r \in Refreshing
    <3> DEFINE q == [req[r] EXCEPT !.retries = 0]
    <3>1. Requeue(cur.req, q)
      BY <1>9, <2>2, <2>r DEF FinishFinal
    <3>2. q.life = "live" /\ q \in RequestRec /\ r \in Again
      BY <1>4, <2>1, <2>2, <2>r DEF RequestRec, Again
    <3> HIDE DEF q
    <3> QED
      BY <2>1, <2>r, <3>1, <3>2, RequeueParts DEF Faces
  <2>3. CASE r \notin Refreshing
    <3> DEFINE how == IF cur.result = "ok" THEN "completed" ELSE "failed"
               q == [req[r] EXCEPT !.life = how, !.handle = FALSE, !.retained = FALSE]
    <3>1. /\ req' = [req EXCEPT ![r] = q] /\ num' = Cleaned(num, r) /\ map' = map
      BY <1>9, <2>3, <2>r DEF FinishFinal, Destroy
    <3>2. q.life \in Ended /\ ~q.handle
      BY <1>4, <2>1, <2>r DEF RequestRec, Ended
    <3>3. num'["multi"] = IF req[r].handle THEN num["multi"] - 1 ELSE num["multi"]
      BY <1>0, <3>1, CleanedMulti
    <3> HIDE DEF q
    <3>4. \A s \in Requests : ~Answered(s)' /\ (s # r => ~Answered(s))
      BY <2>1, <2>r, FinishesFaces
    <3>5. OthersSame(r) /\ req'[r] = q
      BY <3>1, <3>4, OneFace
    <3>6. Parted(r)
      BY <1>4, <2>1, <2>r, <3>1, <3>2, <3>3, <3>4, <3>5 DEF Parted
    <3> QED
      BY <3>6 DEF Faces
  <2> QED
    BY <2>2, <2>3
<1> QED
  BY <1>1, <1>2, <1>3, <1>5, <1>7, <1>8, <1>9 DEF Completions

\* The steps on resources.
LEMMA ResourceFaces ==
    ASSUME EInv, HandlesInv, ResourceOps
    PROVE  Faces
<1>0. /\ num \in NumsType /\ HandsOK /\ req \in [Requests -> RequestRec]
      /\ pub \in PubRec
  BY Given DEF NumsType, SchedTypes, LocalTypes
<1>1. ASSUME UNCHANGED <<req, map, num>>, \A s : Answered(s)' <=> Answered(s)
      PROVE  Faces
  BY <1>1 DEF Calm, SameFace, MultiStays, Faces
<1>2. CASE Drain \/ OpsDone
  <2>1. /\ UNCHANGED <<req, map, num>> /\ pc \notin {"finish", "publish", "requeue"}
        /\ pc' \notin {"finish", "publish", "requeue"}
    BY <1>2 DEF Drain, OpsDone, sched, Goto
  <2> QED
    BY <1>1, <2>1, NobodyAnswered
<1>3. CASE ApplyOp
  <2>1. UNCHANGED <<req, map, num>> /\ pc = "ops"
    BY <1>3 DEF ApplyOp
  <2>2. pc' = pc \/ \E id, ok, own : BeginPublish(id, ok, own, "ops")
    BY <1>3 DEF ApplyOp
  <2>3. \A s : ~Answered(s) /\ ~Answered(s)'
    BY <2>1, <2>2, NobodyAnswered, PublicationAnswers
  <2> QED
    BY <1>1, <2>1, <2>3
<1>4. CASE RequeueRead \/ RequeueWrite
  <2>1. /\ UNCHANGED <<req, map, num, cur>> /\ pub'.back = pub.back
        /\ pc \in {"publish", "requeue"} /\ pc' \in {"publish", "requeue"}
    BY <1>0, <1>4 DEF RequeueRead, RequeueWrite, sched, Goto, PubRec
  <2>2. \A s : Answered(s)' <=> Answered(s)
    BY <2>1 DEF Answered
  <2> QED
    BY <1>1, <2>1, <2>2
<1>5. CASE PublishEnd
  <2>1. /\ UNCHANGED <<req, map, num, cur>> /\ pc = "publish" /\ pc' = pub.back
        /\ pub.back \notin {"publish", "requeue"}
    BY <1>0, <1>5 DEF PublishEnd, sched, Goto, PubRec, Callers
  <2>2. \A s : Answered(s)' <=> Answered(s)
    BY <2>1 DEF Answered
  <2> QED
    BY <1>1, <2>1, <2>2
<1>6. CASE FailWaiter
  <2>1. CASE Crash
    BY <2>1 DEF Faces
  <2>2. CASE ~Crash
    <3>0. pc = "publish" /\ pub.waiters \in Seq(Requests) /\ pub.waiters # << >>
      BY <1>0, <1>6 DEF FailWaiter, PubRec
    <3>r. PICK r \in Requests : r = Head(pub.waiters)
      BY <3>0
    <3>1. r \in Elements(pub.waiters)
      <4>1. 1 \in DOMAIN pub.waiters /\ r = pub.waiters[1]
        BY <3>0, <3>r
      <4> QED
        BY <4>1 DEF Elements
    <3>2. r \notin map["queued"] /\ r # cur.req
      <4>1. /\ \A k \in Maps, x \in Lists : map[k] \cap Listed[x] = {}
            /\ \A x, y \in Lists : x # y => Listed[x] \cap Listed[y] = {}
        BY Given, Apart
      <4>2. r \in Listed["woken"] /\ "woken" \in Lists /\ "queued" \in Maps
            /\ "hand" \in Lists
        BY <3>1, ListedAt DEF Lists, Maps
      <4>3. cur.req = r => r \in Listed["hand"]
        BY SetsAssumption, ListedAt
      <4> QED
        BY <4>1, <4>2, <4>3
    <3>3. req[r].life = "live" /\ req[r] \in RequestRec
      BY <1>0, <3>1, Given, PlacesLive DEF LiveOnes, Live
    <3>d. Deps[r] # {}
      BY <3>1 DEF EInv, RefsInv, WaitersPin
    <3> DEFINE q == [req[r] EXCEPT !.life = "failed", !.handle = FALSE, !.retained = FALSE]
    <3>4. /\ req' = [req EXCEPT ![r] = q] /\ num' = Cleaned(num, r)
          /\ pub'.back = pub.back /\ UNCHANGED <<pc, map, cur>>
      BY <1>0, <1>6, <2>2, <3>r DEF FailWaiter, Waiter, Destroy, PubRec
    <3>5. q.life = "failed" /\ ~q.handle
      BY <3>3 DEF RequestRec
    <3> HIDE DEF q
    <3>6. \A s : Answered(s)' <=> Answered(s)
      BY <3>4 DEF Answered
    <3>7. ~Answered(r)' /\ ~Answered(r)
      BY <3>2, <3>4 DEF Answered
    <3>8. num'["multi"] = IF req[r].handle THEN num["multi"] - 1 ELSE num["multi"]
      BY <1>0, <3>4, CleanedMulti
    <3>9. OthersSame(r) /\ req'[r] = q
      BY <3>4, <3>6, OneFace
    <3>10. Parted(r)
      BY <3>2, <3>3, <3>d, <3>4, <3>5, <3>7, <3>8, <3>9 DEF Parted, Ended
    <3> QED
      BY <3>10 DEF Faces
  <2> QED
    BY <2>1, <2>2
<1> QED
  BY <1>2, <1>3, <1>4, <1>5, <1>6 DEF ResourceOps

\* Whatever step the loop takes.
LEMMA NextFaces ==
    ASSUME EInv, HandlesInv, Disciplined, [Next]_vars
    PROVE  Faces
<1>1. CASE Scheduler \/ Completions \/ ResourceOps
  BY <1>1, SchedulerFaces, CompletionFaces, ResourceFaces DEF HandlesInv
<1>2. CASE \E c \in Calls : Call(c)
  BY <1>2, CallFaces
<1>3. CASE UNCHANGED vars \/ \E r \in Requests : TransferDone(r)
  <2>1. UNCHANGED <<req, map, num, pc, cur, pub>>
    BY <1>3 DEF vars, sched, local, TransferDone
  <2> QED
    BY <2>1 DEF Answered, Calm, SameFace, MultiStays, Faces
<1>4. CASE Top \/ OnLoop \/ PerformEnd \/ ExitTest \/ Wait
  <2>1. /\ UNCHANGED <<req, map, num>> /\ pc \notin {"finish", "publish", "requeue"}
        /\ pc' \notin {"finish", "publish", "requeue"}
    BY <1>4 DEF Top, OnLoop, PerformEnd, ExitTest, Wait, sched, Goto
  <2> QED
    BY <2>1, NobodyAnswered DEF Calm, SameFace, MultiStays, Faces
<1>5. CASE Tick
  <2>1. UNCHANGED <<map, num, pc, cur, pub>>
    BY <1>5 DEF Tick, local
  <2>2. ASSUME NEW s \in Requests
        PROVE  req'[s].life = req[s].life /\ req'[s].handle = req[s].handle
    <3>1. req[s] \in RequestRec
      BY Given
    <3>2. req'[s] = IF Live(s) THEN Later(req[s]) ELSE req[s]
      BY <1>5 DEF Tick
    <3>3. Later(req[s]).life = req[s].life /\ Later(req[s]).handle = req[s].handle
      BY <3>1 DEF Later, RequestRec
    <3> QED
      BY <3>2, <3>3
  <2> QED
    BY <2>1, <2>2 DEF Answered, Calm, SameFace, MultiStays, Faces
<1> QED
  BY <1>1, <1>2, <1>3, <1>4, <1>5 DEF Next, LoopStep, Over

----------------------------------------------------------------------------
(* Who has a handle. *)

\* A loop that is over stays over.
LEMMA OverStays ==
    ASSUME pc \in {"destroyed", "crashed"}, [Next]_vars
    PROVE  pc' = pc
<1>1. CASE UNCHANGED vars \/ Over
  BY <1>1 DEF vars, Over
<1>2. ~LoopStep /\ ~Tick /\ ~\E r \in Requests : TransferDone(r)
  BY NothingRuns
<1>3. ASSUME NEW c \in Calls, Call(c) PROVE pc' = pc
  <2>1. ~(PublishCall(c) \/ Run(c) \/ DestroyLoop(c))
    BY CallsAssumption DEF PublishCall, Run, DestroyLoop, Makes, LoopThread
  <2> QED
    BY <1>3, <2>1 DEF Call, RequestSubmit, LoopSubmit, Enlist, Cancel, Inject, Stop, Post,
          NodeCall
<1> QED
  BY <1>1, <1>2, <1>3 DEF Next

\* A launch is not interrupted by a callback.
LEMMA LaunchLeads ==
    ASSUME pc = "launch", [Next]_vars
    PROVE  pc' \in {"launch", "pending", "crashed"}
<1>1. CASE UNCHANGED vars \/ Over \/ Tick \/ \E r \in Requests : TransferDone(r)
  BY <1>1 DEF vars, Over, Tick, TransferDone
<1>2. CASE Scheduler
  BY <1>2 DEF Scheduler, Detach, CancelOne, CancelsDone, TakePending, DropCancelled, Admit,
        Launch, EnterRated, MoveRated, MergeRated, MoveWaiting, LeaveWaiting, Goto
<1>3. ~Completions
  BY DEF Completions, CompleteOne, CompletionsDone, Finish429, FinishDelay, FinishRetry,
        FinishFinal, InjectedOne, InjectedDone, Finishes
<1>4. ~ResourceOps
  BY DEF ResourceOps, Drain, ApplyOp, OpsDone, RequeueRead, RequeueWrite, FailWaiter,
        PublishEnd
<1>5. ~(Top \/ OnLoop \/ PerformEnd \/ ExitTest \/ Wait)
  BY DEF Top, OnLoop, PerformEnd, ExitTest, Wait
<1>6. ASSUME NEW c \in Calls, Call(c) PROVE pc' = pc
  <2>1. ~(PublishCall(c) \/ Run(c) \/ DestroyLoop(c))
    BY CallsAssumption DEF PublishCall, Run, DestroyLoop, Makes, LoopThread
  <2> QED
    BY <1>6, <2>1 DEF Call, RequestSubmit, LoopSubmit, Enlist, Cancel, Inject, Stop, Post,
          NodeCall
<1> QED
  BY <1>1, <1>2, <1>3, <1>4, <1>5, <1>6 DEF Next, LoopStep

\* The messages say what libcurl may say of their requests.
ToldOK == \A i \in DOMAIN msgs : msgs[i].result \in Outcomes[msgs[i].req]

\* Where the messages come from.
LEMMA NextTold ==
    ASSUME EInv, [Next]_vars, ToldOK
    PROVE  ToldOK'
<1>0. msgs \in Seq(MsgRec)
  BY Given DEF SchedTypes
<1>1. CASE msgs' = msgs
  BY <1>1 DEF ToldOK
<1>2. CASE \E c \in Calls : Call(c)
  <2> PICK c \in Calls : Call(c)
    BY <1>2
  <2>1. CASE Teardown
    <3>1. msgs' = << >>
      BY <2>1, Zenon DEF Teardown
    <3> QED
      BY <3>1 DEF ToldOK
  <2>2. CASE ~Teardown
    <3>1. msgs' = msgs
      BY <2>2 DEF Call, RequestSubmit, LoopSubmit, Enlist, Cancel, Inject, Stop, Post,
            NodeCall, PublishCall, Run, DestroyLoop, Crash, sched
    <3> QED
      BY <1>1, <3>1
  <2> QED
    BY <2>1, <2>2
<1>3. CASE \E r \in Requests : TransferDone(r)
  <2>a. PICK r \in Requests : TransferDone(r)
    BY <1>3
  <2>1. PICK x : x \in Outcomes[r] /\ msgs' = Append(msgs, [req |-> r, result |-> x])
    BY <2>a DEF TransferDone
  <2> DEFINE m == [req |-> r, result |-> x]
  <2>2. m \in MsgRec /\ m.req = r /\ m.result = x
    BY <2>1, RequestsAssumption DEF MsgRec
  <2>3. msgs' = Append(msgs, m)
    BY <2>1
  <2> HIDE DEF m
  <2>4. \A i \in DOMAIN msgs' : (i \in DOMAIN msgs /\ msgs'[i] = msgs[i]) \/ msgs'[i] = m
    BY <1>0, <2>2, <2>3
  <2> QED
    BY <2>1, <2>2, <2>4 DEF ToldOK
<1>4. CASE CompleteOne
  <2>1. msgs # << >> /\ msgs' = Tail(msgs)
    BY <1>4 DEF CompleteOne
  <2>2. \A i \in DOMAIN msgs' : i + 1 \in DOMAIN msgs /\ msgs'[i] = msgs[i + 1]
    BY <1>0, <2>1
  <2> QED
    BY <2>2 DEF ToldOK
<1>5. CASE Scheduler \/ ResourceOps \/ (Completions /\ ~CompleteOne)
  <2>1. \A r, m, n : Start(r, m, n) => msgs' = msgs
    BY DEF Start, StartRated, StartUnprepared, StartTransfer
  <2>2. Scheduler => msgs' = msgs
    BY <2>1 DEF Scheduler, Detach, CancelOne, CancelsDone, TakePending, DropCancelled,
          Admit, Launch, EnterRated, MoveRated, MergeRated, MoveWaiting, LeaveWaiting, Limit,
          Destroy, Crash, sched
  <2>3. ResourceOps => msgs' = msgs
    BY DEF ResourceOps, Drain, ApplyOp, OpsDone, RequeueRead, RequeueWrite, FailWaiter,
         PublishEnd, Destroy, Crash, sched
  <2>4. \A q : Requeue(cur.req, q) => msgs' = msgs
    BY DEF Requeue
  <2>5. Completions /\ ~CompleteOne => msgs' = msgs
    BY <2>4 DEF Completions, CompletionsDone, Finish429, FinishDelay, FinishRetry, RetryLater,
          FinishFinal, InjectedOne, InjectedDone, Destroy, Crash, sched
  <2> QED
    BY <1>1, <1>5, <2>2, <2>3, <2>5
<1>6. CASE \/ UNCHANGED vars \/ Top \/ OnLoop \/ PerformEnd \/ ExitTest \/ Wait \/ Tick
           \/ Over
  <2>1. msgs' = msgs
    BY <1>6 DEF vars, Top, OnLoop, PerformEnd, ExitTest, Wait, Tick, Over, sched
  <2> QED
    BY <1>1, <2>1
<1> QED
  BY <1>2, <1>3, <1>4, <1>5, <1>6 DEF Next, LoopStep

\* What the callback is told, and answers, is what it may be.
LEMMA NextResults ==
    ASSUME EInv, [Next]_vars, ResultsOK
    PROVE  ResultsOK'
<1>1. ToldOK'
  BY NextTold DEF ResultsOK, ToldOK
<1>2. ASSUME Answering'
      PROVE  (/\ cur.result \in Outcomes[cur.req]
              /\ cur.ret \in Returns[cur.req][Outcome(cur.result)])'
  <2>1. \/ cur' = cur /\ (pc \in {"launch", "finish"} \/ Publishing("finish"))
        \/ Admit /\ cur' = cur
        \/ CompleteOne
    BY <1>2, HandFrom DEF Answering
  <2>2. CASE cur' = cur /\ (pc \in {"launch", "finish"} \/ Publishing("finish"))
    <3>1. pc # "launch"
      BY <1>2, LaunchLeads DEF Answering, Publishing
    <3> QED
      BY <2>2, <3>1 DEF ResultsOK, Answering, Outcome
  <2>3. CASE Admit
    BY <1>2, <2>3 DEF Admit, Goto, Answering, Publishing
  <2>4. CASE CompleteOne
    <3>1. /\ msgs # << >> /\ cur'.req = Head(msgs).req /\ cur'.result = Head(msgs).result
          /\ cur'.ret \in Returns[Head(msgs).req][Outcome(Head(msgs).result)]
      BY <2>4 DEF CompleteOne
    <3>2. msgs \in Seq(MsgRec)
      BY Given DEF SchedTypes
    <3>3. 1 \in DOMAIN msgs /\ Head(msgs) = msgs[1]
      BY <3>1, <3>2
    <3> QED
      BY <3>1, <3>3 DEF ResultsOK, Outcome
  <2> QED
    BY <2>1, <2>2, <2>3, <2>4
<1> QED
  BY <1>1, <1>2 DEF ResultsOK, ToldOK

\* Every step keeps the handles with the requests in flight.
LEMMA NextHandled ==
    ASSUME EInv, HandlesInv, Disciplined, [Next]_vars
    PROVE  HandledOK'
<1> SUFFICES ASSUME pc' \notin {"crashed", "destroyed"}, NEW r \in Requests \ Throttled
             PROVE  req'[r].handle <=> r \in map'["queued"] \/ Answered(r)'
  BY DEF HandledOK
<1>1. pc \notin {"crashed", "destroyed"}
  BY OverStays
<1>2. req[r].handle <=> r \in map["queued"] \/ Answered(r)
  BY <1>1 DEF HandlesInv, HandledOK
<1>3. Faces
  BY NextFaces
<1>4. CASE SameFace(r)
  BY <1>2, <1>4 DEF SameFace
<1>5. CASE \E s \in Requests : OthersSame(s) /\ r # s
  BY <1>4, <1>5 DEF OthersSame
<1>6. CASE Accepted(r)
  <2>1. ~req[r].handle
    BY <1>2, <1>6, NewIsNowhere DEF Accepted
  <2> QED
    BY <1>6, <2>1 DEF Accepted
<1>7. CASE Begun(r)
  BY <1>7 DEF Begun
<1>8. CASE Replied(r)
  BY <1>2, <1>8 DEF Replied
<1>9. CASE Parted(r)
  BY <1>9 DEF Parted
<1>10. ~Teardown
  BY DEF Teardown, Goto
<1> QED
  BY <1>3, <1>4, <1>5, <1>6, <1>7, <1>8, <1>9, <1>10
  DEF Faces, Calm, Accepted, Begun, Replied, Parted, Kept429, Crash, Goto

\* The handles of a loop that was just initialised.
LEMMA InitHandles == Init => HandlesInv
<1> SUFFICES ASSUME Init PROVE HandlesInv
  OBVIOUS
<1>1. ResultsOK
  BY DEF Init, ResultsOK, Answering, Publishing
<1>2. ASSUME NEW r \in Requests
      PROVE  ~req[r].handle /\ r \notin map["queued"] /\ ~Answered(r)
  BY DEF Init, NewRequest, Maps, Answered
<1> QED
  BY <1>1, <1>2 DEF HandlesInv, HandledOK

\* The requests with a handle in the multi, and their count while it is kept.
Handles == {r \in Requests : req[r].handle}
MultiOK == pc # "destroyed" => num["multi"] = Cardinality(Handles)

\* Every step keeps the count, where no 429 leaves a handle behind.
LEMMA NextMulti ==
    ASSUME EInv, HandlesInv, Disciplined, Throttled = {}, [Next]_vars, MultiOK
    PROVE  MultiOK'
<1> SUFFICES ASSUME pc' # "destroyed" PROVE num'["multi"] = Cardinality(Handles')
  BY DEF MultiOK
<1>1. pc # "destroyed"
  BY OverStays
<1>2. /\ num["multi"] = Cardinality(Handles) /\ num["multi"] \in Int
      /\ IsFiniteSet(Handles) /\ Handles \subseteq Requests
  <2>1. Handles \subseteq Requests /\ IsFiniteSet(Handles)
    BY FS_Subset, SetsAssumption DEF Handles
  <2> QED
    BY <1>1, <2>1, Given DEF MultiOK, SchedTypes, Counters
<1>3. Faces
  BY NextFaces
<1>4. CASE MultiStays /\ \A s \in Requests : req'[s].handle = req[s].handle
  <2>1. Handles' = Handles
    BY <1>4 DEF Handles
  <2> QED
    BY <1>2, <1>4, <2>1 DEF MultiStays
<1>5. ASSUME NEW r \in Requests, Begun(r) PROVE num'["multi"] = Cardinality(Handles')
  <2>1. /\ num'["multi"] = num["multi"] + 1 /\ req'[r].handle
        /\ \A s \in Requests : s # r => req'[s].handle = req[s].handle
    BY <1>5 DEF Begun, OthersSame, SameFace
  <2>2. ~req[r].handle
    <3>1. pc \notin {"crashed", "destroyed"} /\ r \notin map["queued"] /\ ~Answered(r)
      BY <1>5 DEF Begun
    <3> QED
      BY <3>1 DEF HandlesInv, HandledOK
  <2>3. Handles' = Handles \cup {r} /\ r \notin Handles
    BY <2>1, <2>2 DEF Handles
  <2>4. Cardinality(Handles \cup {r}) = Cardinality(Handles) + 1
    BY <1>2, <2>3, FS_AddElement
  <2> QED
    BY <1>2, <2>1, <2>3, <2>4
<1>6. ASSUME NEW r \in Requests, Parted(r) PROVE num'["multi"] = Cardinality(Handles')
  <2>1. /\ num'["multi"] = IF req[r].handle THEN num["multi"] - 1 ELSE num["multi"]
        /\ ~req'[r].handle
        /\ \A s \in Requests : s # r => req'[s].handle = req[s].handle
    BY <1>6 DEF Parted, OthersSame, SameFace
  <2>2. Handles' = Handles \ {r} /\ (r \in Handles <=> req[r].handle)
    BY <2>1 DEF Handles
  <2>3. Cardinality(Handles \ {r})
            = IF r \in Handles THEN Cardinality(Handles) - 1 ELSE Cardinality(Handles)
    BY <1>2, FS_RemoveElement
  <2> QED
    BY <1>2, <2>1, <2>2, <2>3
<1>7. ASSUME NEW r \in Requests, Accepted(r) \/ Replied(r)
      PROVE  num'["multi"] = Cardinality(Handles')
  BY <1>4, <1>7 DEF Accepted, Replied, OthersSame, SameFace
<1>8. CASE Crash
  BY <1>4, <1>8 DEF Crash, sched, MultiStays
<1>9. CASE Calm
  BY <1>4, <1>9 DEF Calm, SameFace
<1>10. ~\E r \in Requests : Kept429(r)
  BY DEF Kept429
<1>11. ~Teardown
  BY DEF Teardown, Goto
<1> QED
  BY <1>3, <1>5, <1>6, <1>7, <1>8, <1>9, <1>10, <1>11 DEF Faces

\* In every instance whose callers keep the discipline, a request that no 429 may
\* keep in the multi has a handle there exactly while it is in flight or answered
\* and not yet settled.
THEOREM HandlesHeld ==
    ASSUME Disciplined
    PROVE  Spec => []HandlesInv
<1>1. Init => EInv /\ HandlesInv
  BY InitEInv, InitHandles
<1>2. EInv /\ HandlesInv /\ [Next]_vars => EInv' /\ HandlesInv'
  <2> SUFFICES ASSUME EInv, HandlesInv, [Next]_vars
               PROVE  EInv' /\ HandlesInv'
    OBVIOUS
  <2> QED
    BY NextEInv, NextResults, NextHandled DEF HandlesInv
<1> QED
  BY <1>1, <1>2, PTL DEF Spec

\* In every instance whose callers keep the discipline, and where no 429 meets a
\* rate limited request, num_multi_requests, which decides between polling and
\* sleeping, is the number of requests with a handle in the multi.
THEOREM HandlesCounted ==
    ASSUME Disciplined, Throttled = {}
    PROVE  Spec => []HandlesMatch
<1>1. Init => EInv /\ HandlesInv /\ MultiOK
  <2>1. Init => MultiOK
    <3> SUFFICES ASSUME Init PROVE MultiOK
      OBVIOUS
    <3>1. Handles = {} /\ num["multi"] = 0
      BY DEF Init, NewRequest, Handles, Counters
    <3> QED
      BY <3>1, FS_EmptySet DEF MultiOK
  <2> QED
    BY <2>1, InitEInv, InitHandles
<1>2. EInv /\ HandlesInv /\ MultiOK /\ [Next]_vars => EInv' /\ HandlesInv' /\ MultiOK'
  <2> SUFFICES ASSUME EInv, HandlesInv, MultiOK, [Next]_vars
               PROVE  EInv' /\ HandlesInv' /\ MultiOK'
    OBVIOUS
  <2>1. EInv'
    BY NextEInv
  <2>2. ResultsOK' /\ HandledOK'
    BY NextResults, NextHandled DEF HandlesInv
  <2>3. MultiOK'
    BY NextMulti
  <2> QED
    BY <2>1, <2>2, <2>3 DEF HandlesInv
<1>3. MultiOK => HandlesMatch
  BY DEF MultiOK, Handles, HandlesMatch
<1> QED
  BY <1>1, <1>2, <1>3, PTL DEF Spec
=============================================================================
