---------------------------- MODULE EventLoopProps ----------------------------
(***************************************************************************)
(* What the event loop promises: the properties the runs check and the     *)
(* proofs are about.                                                       *)
(***************************************************************************)
EXTENDS EventLoop

RequestRec ==
    [life: {"new", "live"} \cup Ended, due: Int, retries: Nat,
     isPending: BOOLEAN, isCancelled: BOOLEAN, retained: BOOLEAN,
     handle: BOOLEAN, onRetry: BOOLEAN]
NodeRec ==
    [st: NodeStates, refcnt: Int, auto: BOOLEAN, held: Nat,
     blocked: Seq(Requests)]
MsgRec == [req: Requests, result: Results]
CurRec == [req: Requests \cup {None}, result: Results, ret: Int]
\* Where a publication is made.
Callers == {"idle", "onloop", "finish", "injected", "ops"}
PubRec == [id: Resources \cup {None}, ok: BOOLEAN, waiters: Seq(Requests),
           snap: Seq(Requests), back: Callers]
OpRec  == [op: ThreadSafe, on: Resources, ok: BOOLEAN]
WorkRec == [cancelled: Seq(Requests), pending: Seq(Requests),
            injected: Seq(Requests), ops: Seq(OpRec)]

ControlTypes == pc \in Points /\ keepRunning \in BOOLEAN /\ todo \subseteq Calls
ListTypes ==
    /\ pending \in Seq(Requests) /\ cancelled \in Seq(Requests)
    /\ injected \in Seq(Requests) /\ inbox \in Seq(OpRec)
SchedTypes ==
    /\ req \in [Requests -> RequestRec] /\ table \in [Resources -> NodeRec]
    /\ map \in [Maps -> SUBSET Requests] /\ num \in [Counters -> Int]
    /\ msgs \in Seq(MsgRec) /\ metrics \in [Metrics -> Nat]
LocalTypes ==
    /\ running \in BOOLEAN /\ work \in WorkRec /\ cur \in CurRec /\ pub \in PubRec

\* Every variable of the loop has its type; the inbox holds only operations of
\* the thread-safe helpers, and only on resources.
TypeOK == ControlTypes /\ ListTypes /\ SchedTypes /\ LocalTypes

----------------------------------------------------------------------------
(* Safety. *)

Occurrences(s, r) == Cardinality({i \in DOMAIN s : s[i] = r})
Waiting(r) == Cardinality({p \in Resources \X (1..Cardinality(Requests)) :
                  p[2] \in DOMAIN table[p[1]].blocked /\ table[p[1]].blocked[p[2]] = r})
PlaceCount(r) ==
    Cardinality({k \in Maps : r \in map[k]}) + Waiting(r)
    + Occurrences(pending, r)  + Occurrences(work.pending, r)
    + Occurrences(injected, r) + Occurrences(work.injected, r)
    + Occurrences(pub.waiters, r) + (IF cur.req = r THEN 1 ELSE 0)

\* A live request is in exactly one of the loop's containers (the four maps, the
\* pending and injected lists, the waiters of one resource, or in the hands of
\* the loop thread) and a destroyed one in none: none is lost, none is run twice.
OnePlace == \A r \in Requests : PlaceCount(r) = IF Live(r) THEN 1 ELSE 0

\* The loop never touches a destroyed request, a freed node, a map the request
\* is not in, or a NULL callback.
NoUndefined == pc # "crashed"

\* The counters the scheduler decides with are the sizes of the maps.
CountersMatch ==
    pc # "destroyed" =>
    \A k \in {"queued", "inactive", "refresh"} : num[k] = Cardinality(map[k])

\* num_multi_requests, which decides between poll and sleep, is the number of
\* requests with a handle in the multi.
HandlesMatch ==
    pc # "destroyed" => num["multi"] = Cardinality({r \in Requests : req[r].handle})

\* No more than max_concurrent_requests transfers at a time.
ConcurrencyLimit == Cardinality(map["queued"]) <= MaxConcurrent
\* The same of the counter alone.
QueuedBounded == num["queued"] <= MaxConcurrent

\* A request cancelled between two iterations ends cancelled: no callback of it
\* runs, whatever list or map it was in.
CancelHonoured ==
    \A r \in Requests : req[r].isCancelled =>
                            req[r].life \in {"live", "cancelled", "torn"}

\* Only a resource that is not published has waiters: a request that waits will
\* be found by the publication, so its wake-up cannot be missed.
WaitersAreUnpublished ==
    \A id \in Resources : table[id].blocked # << >> => table[id].st = "empty"

Users(id) == {r \in Requests : Live(r) /\ req[r].retained /\ id \in Deps[r]}
\* The reference count of a node is what its holders hold: the application's
\* references and one per live request that retained it.
RefcountExact ==
    \A id \in Resources : table[id].st # "none" =>
        table[id].refcnt = table[id].held + Cardinality(Users(id))

\* A request in flight has all its dependencies, published and not erased.
DepsHoldInFlight ==
    \A r \in map["queued"] : \A id \in Deps[r] : Published(table[id])

\* Destroying the loop leaves no request and no resource behind.
TeardownComplete ==
    pc = "destroyed" => /\ \A r \in Requests : ~Live(r)
                        /\ \A id \in Resources : table[id].st = "none"

----------------------------------------------------------------------------
(* Actions. *)

\* A request cancelled between two iterations while it was not in flight is not
\* started any more.
CancelledNeverStarts ==
    [][\A r \in Requests : req[r].isCancelled /\ r \notin map["queued"] =>
                                r \notin map'["queued"]]_vars

\* An operation posted to the inbox leaves it only when the loop drains it.
InboxOnlyDrained == [][inbox' = << >> /\ inbox # << >> => pc = "drain"]_vars


----------------------------------------------------------------------------
(* The life of a request. *)

\* The request whose callback has been called and whose fate is not yet settled.
Answered(r) == cur.req = r /\ (pc = "finish" \/ (pc \in {"publish", "requeue"}
                                                 /\ pub.back = "finish"))
Phase(r) == CASE req[r].life = "new"   -> "new"
              [] req[r].life \in Ended -> "ended"
              [] r \in map["queued"]   -> "running"
              [] Answered(r)           -> "answered"
              [] OTHER                 -> "waiting"

Life == INSTANCE RequestLife WITH
    phase     <- [r \in Requests |-> Phase(r)],
    available <- {id \in Resources : Published(table[id])},
    marked    <- {r \in Requests : req[r].isCancelled},
    Repeats   <- Refreshing \cup RateLimited
                 \cup {r \in Requests : \E o \in {"ok", "fail"} : Returns[r][o] # {0}}

\* The loop implements the life cycle: a request starts only from waiting, with
\* room, its dependencies and no cancellation; it is answered once for each time
\* it ran, unless it was cancelled meanwhile; it runs again only if its
\* settings allow it; and once ended it stays ended.
ImplementsRequestLife == Life!Spec

----------------------------------------------------------------------------
(* Liveness. *)

\* The loop thread is inside curl_event_loop_run: not in a publication the
\* application makes outside it.
InRun == /\ pc \notin {"idle", "destroyed"}
         /\ pc \in {"publish", "requeue"} => pub.back # "idle"
\* A dependency is in hand: published, or some live request will publish it.
InHand(id) == \/ Published(table[id])
              \/ \E p \in Requests : Live(p) /\ Publishes[p] = id
\* While the loop runs and nobody stops it, every request it accepted ends, once
\* its dependencies are in hand; a refreshing one is run again instead.
Resolved == \A r \in Requests \ Refreshing :
    (Live(r) /\ InRun /\ \A id \in Deps[r] : InHand(id))
        ~> (~Live(r) \/ ~keepRunning)
\* curl_event_loop_stop makes curl_event_loop_run return.
StopReturns == (~keepRunning /\ InRun) ~> (pc = "idle")
Publications == {c \in Calls : c.op \in {"publish_async", "register_async"} /\ c.ok}
\* A publication or registration posted to the running loop is applied.
PostsApplied == \A c \in Publications :
    (InRun /\ c \notin todo) ~> (Published(table[c.on]) \/ ~keepRunning)
=============================================================================
