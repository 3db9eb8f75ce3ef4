------------------------------ MODULE EventLoop ------------------------------
(***************************************************************************)
(* The event loop of a-curl-library: curl_event_loop.c with the request    *)
(* life cycle of curl_event_request.c and the resource table and inbox of  *)
(* curl_resource.c.  One thread runs curl_event_loop_run; any thread may   *)
(* submit, cancel, inject, stop or post a resource operation between two   *)
(* of its steps.  A loop step is what happens between two points where     *)
(* another thread can be observed: the mutex, the lock-free inbox, the     *)
(* fields that are shared without a lock, and the application's callbacks. *)
(***************************************************************************)
EXTENDS ResourceTable, FiniteSets

CONSTANTS
    Requests,       \* the requests of the instance
    Resources,      \* the resource ids of the instance
    None,           \* a value that is neither
    Deps,           \* [Requests -> SUBSET Resources]: the dependency list
    RateLimited,    \* the requests with a rate_limit key
    Refreshing,     \* the requests with should_refresh
    OwnRetry,       \* the requests whose on_retry the application supplied
    MaxRetries,     \* [Requests -> Int]: max_retries, -1 is unlimited
    Priority,       \* [Requests -> Int]: priority, in units of Tick
    PrepareFails,   \* the requests whose on_prepare may return false
    Outcomes,       \* [Requests -> SUBSET Results]: how a transfer may end
    Returns,        \* [Requests -> [{"ok", "fail"} -> SUBSET Int]]: callback results
    Publishes,      \* [Requests -> Resources \cup {None}]: published by on_complete
    Declared,       \* the resources declared before the loop first runs
    SignalsFailure, \* requests whose on_failure publishes NULL when it gives up
    OnLoopStops,    \* may on_loop return false?
    Calls,          \* the calls the application makes, each at most once
    Window,         \* [Operations -> SUBSET Points]: when it makes them
    MaxConcurrent,  \* max_concurrent_requests
    MaxDelay,       \* bound: the longest delay, in units of Tick
    Past,           \* bound: due times further back than this are not told apart
    MetricCap,      \* bound: the metrics are counted up to this value
    MaxHandles      \* bound: no 429 comes once the multi holds this many handles
                    \* (each 429 of a rate limited request leaves one behind)

Results == {"ok", "error", "429"}

\* Where the loop thread is.  "idle": outside curl_event_loop_run.
Points == {"idle", "top", "onloop", "detach", "cancelled", "pending", "admit",
           "launch", "rated", "refresh", "inactive", "perform", "completions",
           "finish", "injected", "drain", "ops", "exit", "wait", "publish",
           "requeue", "destroyed", "crashed"}

\* The calls on resources: from any thread, and from the loop thread only (the
\* hook of an iteration and the callbacks of a request run on it).
ThreadSafe == {"register_async", "publish_async", "release_async"}
LoopThread == {"publish", "register", "release", "addref", "autorelease"}
Operations == {"submit", "loop_submit", "cancel", "inject", "stop", "run",
               "destroy"} \cup ThreadSafe \cup LoopThread

Maps     == {"queued", "inactive", "refresh", "rated", "root"}
Counters == {"queued", "inactive", "refresh", "multi"}
Metrics  == {"total", "completed", "failed", "retried"}
Ended    == {"completed", "failed", "cancelled", "unprepared", "torn"}
Floor(t) == IF t < Past THEN Past ELSE t
Never    == MaxDelay + 1    \* a due time that does not come

ASSUME SetsAssumption ==
    /\ IsFiniteSet(Requests) /\ IsFiniteSet(Resources)
    /\ None \notin Requests \cup Resources
    /\ RateLimited \subseteq Requests /\ Refreshing \subseteq Requests
    /\ OwnRetry \subseteq Requests /\ PrepareFails \subseteq Requests
    /\ SignalsFailure \subseteq Requests /\ Declared \subseteq Resources
    /\ OnLoopStops \in BOOLEAN
ASSUME RequestsAssumption ==
    /\ Deps \in [Requests -> SUBSET Resources]
    /\ MaxRetries \in [Requests -> Int] /\ Priority \in [Requests -> Int]
    /\ Outcomes \in [Requests -> SUBSET Results]
    /\ Returns \in [Requests -> [{"ok", "fail"} -> SUBSET Int]]
    /\ Publishes \in [Requests -> Resources \cup {None}]
ASSUME CallsAssumption ==
    /\ Calls \subseteq [op: Operations, on: Requests \cup Resources \cup {None},
                        ok: BOOLEAN]
    /\ \A c \in Calls :
          /\ c.op \in {"submit", "loop_submit", "cancel", "inject"} => c.on \in Requests
          /\ c.op \in ThreadSafe \cup LoopThread => c.on \in Resources
    /\ Window \in [Operations -> SUBSET Points]
    /\ \A op \in LoopThread : Window[op] \subseteq {"idle", "onloop", "finish"}
ASSUME BoundsAssumption ==
    /\ MaxConcurrent \in Nat \ {0}          \* curl_event_loop_init sets 1000
    /\ MaxDelay \in Nat \ {0} /\ Past \in Int /\ Past < 0
    /\ \A r \in Requests : -Priority[r] <= MaxDelay
    /\ MetricCap \in Nat /\ MaxHandles \in Nat

VARIABLES
    pc,          \* where the loop thread is
    keepRunning, \* loop->keep_running
    req,         \* the wrapper of each request
    map,         \* the macro_maps of the loop (and the local root) as sets
    num,         \* loop->num_*_requests
    pending,     \* loop->pending_requests, head first
    cancelled,   \* loop->cancelled_requests, head first
    injected,    \* loop->injected_requests, head first
    inbox,       \* loop->res_inbox, newest first
    table,       \* loop->resources
    msgs,        \* libcurl: the DONE messages not read yet
    metrics,     \* loop->metrics
    running,     \* still_running > 0 after the last perform
    work,        \* the lists the loop thread detached and is walking
    cur,         \* the request the loop thread is handling
    pub,         \* the publication in progress
    todo         \* the calls the application has not made yet

lists == <<pending, cancelled, injected, inbox>>
sched == <<req, map, num, table, msgs, metrics>>
local == <<running, work, cur, pub>>
vars  == <<pc, keepRunning, lists, sched, local, todo>>

NoCur  == [req |-> None, result |-> "ok", ret |-> 0]
NoPub  == [id |-> None, ok |-> TRUE, waiters |-> << >>, snap |-> << >>,
           back |-> "idle"]
NoWork == [cancelled |-> << >>, pending |-> << >>, injected |-> << >>,
           ops |-> << >>]

\* curl_event_request_init: life is specification-only, the rest are fields;
\* onRetry says that on_retry is not NULL, due is next_retry_at relative to now.
NewRequest(r) ==
    [life |-> "new", due |-> 0, retries |-> 0, isPending |-> FALSE,
     isCancelled |-> FALSE, retained |-> FALSE, handle |-> FALSE,
     onRetry |-> r \in OwnRetry]

Init ==
    /\ pc = "idle" /\ keepRunning = TRUE
    /\ req = [r \in Requests |-> NewRequest(r)]
    /\ map = [k \in Maps |-> {}] /\ num = [k \in Counters |-> 0]
    /\ pending = << >> /\ cancelled = << >> /\ injected = << >> /\ inbox = << >>
    /\ table = [id \in Resources |-> IF id \in Declared THEN DeclareNode(NoNode)
                                                       ELSE NoNode]
    /\ msgs = << >> /\ metrics = [k \in Metrics |-> 0]
    /\ running = FALSE /\ work = NoWork /\ cur = NoCur /\ pub = NoPub
    /\ todo = Calls

Live(r) == req[r].life = "live"
Bump(k) == [metrics EXCEPT ![k] = IF @ < MetricCap THEN @ + 1 ELSE @]
Goto(p) == pc' = p
\* Undefined behaviour (freed memory, a NULL call, an erase from a tree the node
\* is not in) ends the behaviour: nothing after it is claimed.
Crash   == Goto("crashed") /\ UNCHANGED <<keepRunning, lists, sched, local, todo>>

----------------------------------------------------------------------------
(* Requests: the helpers of curl_event_request.c the loop calls. *)

\* Mutant of Cleaned: the count of handles is forgotten.
KeptCount(n, r) == n
\* curl_event_loop_request_cleanup: the handle leaves the multi.
Cleaned(n, r) == IF req[r].handle THEN [n EXCEPT !["multi"] = @ - 1] ELSE n

\* Mutant of RetainDeps: nothing is pinned.
PinNothing(t, r) == t
RetainDeps(t, r) ==
    [id \in Resources |-> IF id \in Deps[r] THEN RetainNode(t[id]) ELSE t[id]]
ReleaseDeps(t, r) ==
    [id \in Resources |-> IF id \in Deps[r] THEN DropDep(t[id]) ELSE t[id]]

\* curl_event_request_destroy; n is num after what the caller changed.  libcurl
\* would drop the message of the handle, but the loop has read every message by
\* the time it destroys a request.
Destroy(r, how, n) ==
    /\ req' = [req EXCEPT ![r] = [@ EXCEPT !.life = how, !.handle = FALSE,
                                           !.retained = FALSE]]
    /\ num' = Cleaned(n, r)
    /\ table' = IF req[r].retained THEN ReleaseDeps(table, r) ELSE table
    /\ UNCHANGED msgs

\* Mutant of Take: the request stays in the map it is moved from.
LeaveBehind(m, k, r) == m
Put(m, k, r)  == [m EXCEPT ![k] = @ \cup {r}]
Take(m, k, r) == [m EXCEPT ![k] = @ \ {r}]
Home(r)       == IF r \in Refreshing THEN "refresh" ELSE "inactive"

\* Mutant of AtCapacity: one too many.
OverCapacity == num["queued"] > MaxConcurrent
\* num_queued_requests is an int compared with a size_t.
AtCapacity  == num["queued"] < 0 \/ num["queued"] >= MaxConcurrent
\* What rate_manager_can_proceed may answer: the buckets are not modelled here.
Verdicts(r) == IF r \in RateLimited THEN BOOLEAN ELSE {TRUE}
AllReady(r) == \A id \in Deps[r] : Published(table[id])
\* request_ready, given the rate manager's answer.
Ready(r, proceed) == ~AtCapacity /\ proceed /\ AllReady(r) /\ req[r].due <= 0

\* curl_event_loop_request_start: m and n are the map and num after the caller
\* took r out of its container.  The wait rate_manager_start_request returns is
\* stored as if it were a time: long past, or never when a bucket with more than
\* one token makes it negative and the conversion wraps.
StartRated(r, m, n) ==
    /\ r \in RateLimited
    /\ \E at \in {Past, Never} : req' = [req EXCEPT ![r].due = at]
    /\ map' = Put(m, "rated", r) /\ num' = n
    /\ UNCHANGED <<table, msgs>>
StartUnprepared(r, m, n) ==
    /\ r \in PrepareFails
    /\ map' = m
    \* setup_curl_handle cleared easy_handle, so cleanup finds no handle
    /\ req' = [req EXCEPT ![r] = [@ EXCEPT !.life = "unprepared",
                                           !.handle = FALSE, !.retained = FALSE]]
    /\ num' = n
    /\ table' = IF req[r].retained THEN ReleaseDeps(table, r) ELSE table
    /\ UNCHANGED msgs
StartTransfer(r, m, n) ==
    /\ req' = [req EXCEPT ![r].handle = TRUE]
    /\ map' = Put(m, "queued", r)
    /\ num' = [n EXCEPT !["multi"] = @ + 1, !["queued"] = @ + 1]
    /\ UNCHANGED <<table, msgs>>
Start(r, m, n) == \/ StartRated(r, m, n)
                  \/ StartUnprepared(r, m, n)
                  \/ StartTransfer(r, m, n)

----------------------------------------------------------------------------
(* Calls of the application, on any thread. *)

Makes(c, ops) == c \in todo /\ c.op \in ops /\ pc \in Window[c.op]
                 /\ todo' = todo \ {c}

\* The bookkeeping under the mutex that both submit functions share.
Enlist(r, q) ==
    /\ req' = [req EXCEPT ![r] = [q EXCEPT !.life = "live", !.isPending = TRUE]]
    /\ pending' = <<r>> \o pending /\ metrics' = Bump("total")
    /\ UNCHANGED <<pc, keepRunning, cancelled, injected, inbox, map, num, table,
                   msgs, local>>

\* curl_event_request_submit: a request that is pending or running is refused.
Refused(r) == req[r].isPending \/ req[r].handle
RequestSubmit(c) == LET r == c.on IN
    /\ Makes(c, {"submit"}) /\ req[r].life \in {"new", "live"}
    /\ IF Refused(r) THEN UNCHANGED <<pc, keepRunning, lists, sched, local>>
       ELSE Enlist(r, [req[r] EXCEPT
                !.due = Floor(IF Priority[r] > 0 THEN -Priority[r] ELSE 0),
                !.onRetry = @ \/ MaxRetries[r] # 0])

\* curl_event_loop_submit: no guard, no default on_retry.
LoopSubmit(c) ==
    /\ Makes(c, {"loop_submit"}) /\ req[c.on].life \in {"new", "live"}
    /\ Enlist(c.on, [req[c.on] EXCEPT !.due = Floor(-Priority[c.on])])

\* next_cancelled of r is not NULL: r is in a list and not its last.
HasNextCancelled(r) ==
    \E l \in {cancelled, work.cancelled} : \E i \in 1..(Len(l) - 1) : l[i] = r

\* Mutant of Cancel: a request that is not in flight is only marked.
MarkOnly(c) == LET r == c.on IN
    /\ Makes(c, {"cancel"}) /\ Live(r)
    /\ req' = [req EXCEPT ![r].isCancelled = TRUE]
    /\ cancelled' = IF req[r].handle THEN <<r>> \o cancelled ELSE cancelled
    /\ UNCHANGED <<pc, keepRunning, pending, injected, inbox, map, num, table,
                   msgs, metrics, local>>
\* Mutant of Cancel: a request the loop has yet to look at is listed too.
CancelListed(c) == LET r == c.on IN
    /\ Makes(c, {"cancel"}) /\ Live(r)
    /\ req' = [req EXCEPT ![r].isCancelled = TRUE]
    /\ cancelled' = <<r>> \o cancelled
    /\ UNCHANGED <<pc, keepRunning, pending, injected, inbox, map, num, table,
                   msgs, metrics, local>>
\* curl_event_loop_cancel.
Cancel(c) == LET r == c.on IN
    /\ Makes(c, {"cancel"}) /\ Live(r)
    /\ IF HasNextCancelled(r) THEN UNCHANGED <<req, cancelled>>
       ELSE /\ req' = [req EXCEPT ![r].isCancelled = TRUE]
            /\ cancelled' = IF req[r].isPending THEN cancelled
                            ELSE <<r>> \o cancelled
    /\ UNCHANGED <<pc, keepRunning, pending, injected, inbox, map, num, table,
                   msgs, metrics, local>>

\* curl_event_loop_inject: the copy stands for the request from here on, since
\* the two share the pool that destroying the copy frees.
Inject(c) ==
    /\ Makes(c, {"inject"}) /\ req[c.on].life = "new"
    /\ req' = [req EXCEPT ![c.on].life = "live"]
    /\ injected' = <<c.on>> \o injected
    /\ UNCHANGED <<pc, keepRunning, pending, cancelled, inbox, map, num, table,
                   msgs, metrics, local>>

\* curl_event_loop_stop: a plain store.
Stop(c) == /\ Makes(c, {"stop"}) /\ keepRunning' = FALSE
           /\ UNCHANGED <<pc, lists, sched, local>>

\* The _async helpers: inbox_push, one compare-and-swap on the head.
Post(c) ==
    /\ Makes(c, ThreadSafe)
    /\ inbox' = <<c>> \o inbox
    /\ UNCHANGED <<pc, keepRunning, pending, cancelled, injected, sched, local>>

\* The resource calls of the loop thread that touch one node only.
NodeCall(c) ==
    /\ Makes(c, {"release", "addref", "autorelease"})
    /\ table' = [table EXCEPT ![c.on] =
           CASE c.op = "release"     -> ReleaseNode(@)
             [] c.op = "addref"      -> AddRefNode(@)
             [] c.op = "autorelease" -> AutoNode(@)]
    /\ UNCHANGED <<pc, keepRunning, lists, req, map, num, msgs, metrics, local>>

\* curl_event_res_publish up to its loop over the detached waiters.
BeginPublish(id, ok, registers, back) ==
    /\ table' = [table EXCEPT ![id] = PublishNode(@, ok, registers)]
    /\ pub' = [id |-> id, ok |-> ok, waiters |-> table[id].blocked,
               snap |-> << >>, back |-> back]
    /\ Goto("publish")

\* curl_event_res_publish and curl_event_res_register, which declares a new id.
PublishCall(c) ==
    /\ Makes(c, {"publish", "register"})
    /\ c.op = "register" => table[c.on].st = "none"
    /\ BeginPublish(c.on, c.ok, c.op = "register", pc)
    /\ UNCHANGED <<keepRunning, lists, req, map, num, msgs, metrics, running,
                   work, cur>>

\* curl_event_loop_run up to its loop.
Run(c) == /\ Makes(c, {"run"}) /\ pc = "idle"
          /\ keepRunning' = TRUE /\ Goto("top")
          /\ UNCHANGED <<lists, sched, local>>

\* Mutant of Reached: the map of the refreshing requests is forgotten.
ReachedNotRefresh == (UNION {map[k] : k \in Maps \ {"refresh"}})
    \cup {pending[i] : i \in DOMAIN pending} \cup {injected[i] : i \in DOMAIN injected}
\* The requests curl_event_loop_destroy reaches through the loop's containers.
Reached == (UNION {map[k] : k \in Maps}) \cup {pending[i] : i \in DOMAIN pending}
           \cup {injected[i] : i \in DOMAIN injected}
Blocked(id) == {table[id].blocked[i] : i \in DOMAIN table[id].blocked}
\* curl_resource_destroy_all destroys the waiters of a node it holds: the last
\* release may free that node through maybe_autorelease_owner.
FreedUnderTeardown(id) ==
    LET users == {r \in Reached : req[r].retained /\ id \in Deps[r]}
        refs  == table[id].refcnt - Cardinality(users)
    IN  table[id].auto /\ refs \in 2..(Cardinality(Blocked(id)) + 1)

\* A request on the cancelled list is destroyed with the container that holds
\* it, and then again.
DestroyedTwice == cancelled # << >> \/ \E id \in Resources : FreedUnderTeardown(id)
Teardown ==
    /\ LET dead == Reached \cup UNION {Blocked(id) : id \in Resources} IN
       req' = [r \in Requests |->
           IF r \in dead THEN [req[r] EXCEPT !.life = "torn", !.handle = FALSE,
                                             !.retained = FALSE] ELSE req[r]]
    /\ map' = [k \in Maps |-> {}] /\ table' = [id \in Resources |-> NoNode]
    /\ pending' = << >> /\ injected' = << >> /\ msgs' = << >>
    /\ Goto("destroyed")
    /\ UNCHANGED <<keepRunning, cancelled, inbox, num, metrics, local>>
\* curl_event_loop_destroy.
DestroyLoop(c) ==
    /\ pc = "idle"
    /\ \/ ~DestroyedTwice /\ Makes(c, {"destroy"}) /\ Teardown
       \/ DestroyedTwice /\ c \in todo /\ c.op = "destroy" /\ Crash

Call(c) == \/ RequestSubmit(c) \/ LoopSubmit(c) \/ Cancel(c) \/ Inject(c) \/ Stop(c)
           \/ Post(c) \/ NodeCall(c) \/ PublishCall(c) \/ Run(c) \/ DestroyLoop(c)

----------------------------------------------------------------------------
(* The loop thread: curl_event_loop_run. *)

\* Mutant of Top: the loop does not look at keep_running again.
TopUnconditional ==
    /\ pc = "top" /\ Goto("onloop") /\ inbox' = << >>
    /\ UNCHANGED <<keepRunning, pending, cancelled, injected, sched, local, todo>>
\* The while test, then curl_resource_set_owner_thread, which stores NULL into
\* the inbox at every iteration.
Top ==
    /\ pc = "top"
    /\ IF keepRunning THEN Goto("onloop") /\ inbox' = << >>
                      ELSE Goto("idle") /\ UNCHANGED inbox
    /\ UNCHANGED <<keepRunning, pending, cancelled, injected, sched, local, todo>>

\* on_loop returns; what it calls are steps of the application before this one.
OnLoop ==
    /\ pc = "onloop"
    /\ Goto("detach") \/ (OnLoopStops /\ Goto("idle"))
    /\ UNCHANGED <<keepRunning, lists, sched, local, todo>>

\* process_cancelled_and_pending_requests: both lists, under the mutex.
Detach ==
    /\ pc = "detach" /\ Goto("cancelled")
    /\ work' = [work EXCEPT !.cancelled = cancelled, !.pending = pending]
    /\ cancelled' = << >> /\ pending' = << >>
    /\ UNCHANGED <<keepRunning, injected, inbox, sched, running, cur, pub, todo>>

\* Mutant of CancelledFrom: a refreshing request is looked for among the others.
NeverRefreshing(r) == IF req[r].handle THEN "queued" ELSE "inactive"
\* The map a cancelled request is looked for in.
CancelledFrom(r) == IF req[r].handle THEN "queued" ELSE Home(r)
CancelOne ==
    /\ pc = "cancelled" /\ work.cancelled # << >>
    /\ LET r == Head(work.cancelled)
           k == CancelledFrom(r) IN
       \/ /\ Live(r) /\ r \in map[k]
          /\ Destroy(r, "cancelled", [num EXCEPT ![k] = @ - 1])
          /\ map' = Take(map, k, r)
          /\ work' = [work EXCEPT !.cancelled = Tail(@)]
          /\ UNCHANGED <<pc, keepRunning, lists, metrics, running, cur, pub, todo>>
       \/ ~(Live(r) /\ r \in map[k]) /\ Crash
CancelsDone ==
    /\ pc = "cancelled" /\ work.cancelled = << >> /\ Goto("pending")
    /\ UNCHANGED <<keepRunning, lists, sched, local, todo>>

\* is_pending is cleared outside the mutex, before is_cancelled is read.
TakePending ==
    /\ pc = "pending" /\ work.pending # << >> /\ Goto("admit")
    /\ LET r == Head(work.pending) IN
       /\ req' = [req EXCEPT ![r].isPending = FALSE]
       /\ cur' = [NoCur EXCEPT !.req = r]
    /\ work' = [work EXCEPT !.pending = Tail(@)]
    /\ UNCHANGED <<keepRunning, lists, map, num, table, msgs, metrics, running,
                   pub, todo>>

\* Mutant of Marked: the mark of a cancelled request is not looked at.
Unmarked(r) == FALSE
\* is_cancelled, as the loop reads it.
Marked(r) == req[r].isCancelled
DropCancelled ==
    /\ pc = "admit" /\ Marked(cur.req)
    /\ Destroy(cur.req, "cancelled", num)
    /\ cur' = NoCur /\ Goto("pending")
    /\ UNCHANGED <<keepRunning, lists, map, metrics, running, work, pub, todo>>

\* Mutant of Pinned: every touch retains.
PinnedAgain(r) == RetainDeps(table, r)
\* The first touch retains the dependencies; then the request waits on one that
\* is unmet (the first of its list) or goes on.
Pinned(r) == IF req[r].retained THEN table ELSE RetainDeps(table, r)
Unmet(t, r) == {id \in Deps[r] : ~Published(t[id])}
Admit ==
    /\ pc = "admit" /\ ~Marked(cur.req)
    /\ LET r == cur.req
           t == Pinned(r) IN
       /\ req' = [req EXCEPT ![r].retained = @ \/ Deps[r] # {}]
       /\ IF Unmet(t, r) = {}
          THEN Goto("launch") /\ table' = t /\ UNCHANGED cur
          ELSE /\ \E id \in Unmet(t, r) :
                     table' = [t EXCEPT ![id] = BlockNode(@, r)]
               /\ Goto("pending") /\ cur' = NoCur
    /\ UNCHANGED <<keepRunning, lists, map, num, msgs, metrics, running, work,
                   pub, todo>>

\* Start it if it is ready, else enqueue_request.
Launch ==
    /\ pc = "launch" /\ Goto("pending") /\ cur' = NoCur
    /\ LET r == cur.req IN \E proceed \in Verdicts(r) :
       IF Ready(r, proceed) THEN Start(r, map, num)
       ELSE /\ map' = Put(map, Home(r), r)
            /\ num' = [num EXCEPT ![Home(r)] = @ + 1]
            /\ UNCHANGED <<req, table, msgs>>
    /\ UNCHANGED <<keepRunning, lists, metrics, running, work, pub, todo>>

\* move_inactive_requests_to_queue takes the rate limited map as its root.
EnterRated ==
    /\ pc = "pending" /\ work.pending = << >> /\ Goto("rated")
    /\ map' = [map EXCEPT !["root"] = map["rated"], !["rated"] = {}]
    /\ UNCHANGED <<keepRunning, lists, req, num, table, msgs, metrics, local, todo>>

\* The first of a map; requests with equal keys may come in any order.
Firsts(k) == {r \in map[k] : \A s \in map[k] : req[r].due <= req[s].due}

\* request_is_rate_limited: into the rate limited map until the wait is over.  One
\* that wraps, as above, carries the sum with the clock into the past.
Limit(r, k, n) == \E wait \in {Past} \cup 1..MaxDelay :
    /\ r \in RateLimited
    /\ map' = Put(Take(map, k, r), "rated", r) /\ num' = n
    /\ req' = [req EXCEPT ![r].due = wait]
    /\ UNCHANGED <<table, msgs>>

MoveRated ==
    /\ pc = "rated"
    /\ \E r \in Firsts("root") :
       /\ req[r].due <= 0
       /\ \/ Limit(r, "root", num)
          \/ \E proceed \in Verdicts(r) : Ready(r, proceed)
                                          /\ Start(r, Take(map, "root", r), num)
    /\ UNCHANGED <<pc, keepRunning, lists, metrics, local, todo>>
\* Out of the loop with what is left in root, which is merged back.
MergeRated ==
    /\ pc = "rated" /\ Goto("refresh")
    /\ map["root"] = {} \/ \E r \in Firsts("root") :
           req[r].due > 0 \/ \E proceed \in Verdicts(r) : ~Ready(r, proceed)
    /\ map' = [map EXCEPT !["rated"] = @ \cup map["root"], !["root"] = {}]
    /\ UNCHANGED <<keepRunning, lists, req, num, table, msgs, metrics, local, todo>>

\* The loops over refresh_requests and inactive_requests.
MoveWaiting(k) ==
    /\ pc = k /\ UNCHANGED <<pc, keepRunning, lists, metrics, local, todo>>
    /\ LET n == [num EXCEPT ![k] = @ - 1] IN \E r \in Firsts(k) :
       \/ Limit(r, k, n)
       \/ \E proceed \in Verdicts(r) : Ready(r, proceed)
                                       /\ Start(r, Take(map, k, r), n)
LeaveWaiting(k, next) ==
    /\ pc = k /\ Goto(next)
    /\ map[k] = {} \/ \E r \in Firsts(k), proceed \in BOOLEAN :
                          proceed \in Verdicts(r) /\ ~Ready(r, proceed)
    /\ UNCHANGED <<keepRunning, lists, sched, local, todo>>

\* curl_multi_perform (libcurl): a running transfer ends and leaves its message.
Transferring == map["queued"] \ {msgs[i].req : i \in DOMAIN msgs}
TransferDone(r) ==
    /\ pc = "perform" /\ num["queued"] > 0 /\ r \in Transferring
    /\ \E result \in Outcomes[r] :
           /\ result = "429" => num["multi"] < MaxHandles
           /\ msgs' = Append(msgs, [req |-> r, result |-> result])
    /\ UNCHANGED <<pc, keepRunning, lists, req, map, num, table, metrics, local,
                   todo>>
PerformEnd ==
    /\ pc = "perform" /\ Goto("completions")
    /\ running' = (num["queued"] > 0 /\ Transferring # {})
    /\ UNCHANGED <<keepRunning, lists, sched, work, cur, pub, todo>>

\* process_completed_requests: a message is read, the request leaves the queue
\* and its callback runs.  on_complete may publish the resource of the request;
\* on_failure may publish NULL for it when it gives up (returns 0).
Outcome(result) == IF result = "ok" THEN "ok" ELSE "fail"
Signals(r, result, ret) ==
    Publishes[r] # None /\ (result = "ok" \/ (r \in SignalsFailure /\ ret = 0))
CompleteOne ==
    /\ pc = "completions" /\ msgs # << >>
    /\ LET m == Head(msgs)
           r == m.req IN
       /\ msgs' = Tail(msgs) /\ map' = Take(map, "queued", r)
       /\ num' = [num EXCEPT !["queued"] = @ - 1]
       /\ \E ret \in Returns[r][Outcome(m.result)] :
          /\ cur' = [req |-> r, result |-> m.result, ret |-> ret]
          /\ IF Signals(r, m.result, ret)
             THEN BeginPublish(Publishes[r], m.result = "ok", FALSE, "finish")
             ELSE Goto("finish") /\ UNCHANGED <<table, pub>>
    /\ UNCHANGED <<keepRunning, lists, req, metrics, running, work, todo>>
\* Mutant of CompletionsDone: the list of injected requests is not reset.
InjectedNotReset ==
    /\ pc = "completions" /\ msgs = << >> /\ Goto("injected")
    /\ work' = [work EXCEPT !.injected = injected]
    /\ UNCHANGED <<keepRunning, lists, sched, running, cur, pub, todo>>
CompletionsDone ==
    /\ pc = "completions" /\ msgs = << >> /\ Goto("injected")
    /\ work' = [work EXCEPT !.injected = injected] /\ injected' = << >>
    /\ UNCHANGED <<keepRunning, pending, cancelled, inbox, sched, running, cur,
                   pub, todo>>

\* What the callback's answer leads to.  A 429 of a rate limited request comes
\* first, whatever the answer was; nothing is cleaned up on that path.
Is429   == cur.result = "429" /\ cur.req \in RateLimited
Finishes(next) ==
    /\ pc = "finish" /\ Goto(next) /\ cur' = NoCur
    /\ UNCHANGED <<keepRunning, lists, running, work, pub, todo>>
Finish429 ==
    /\ Finishes("completions") /\ Is429
    /\ \E wait \in 0..MaxDelay : req' = [req EXCEPT ![cur.req].due = wait]
    /\ map' = Put(map, "rated", cur.req)
    /\ UNCHANGED <<num, table, msgs, metrics>>

\* Mutant of Requeued: the counter of the map is not raised.
RequeuedUncounted(r) == Cleaned(num, r)
\* curl_event_loop_request_cleanup, then enqueue_request.
Requeued(r) == [Cleaned(num, r) EXCEPT ![Home(r)] = @ + 1]
\* Mutant of Requeue: the handle is not cleaned up.
RequeueUncleaned(r, q) ==
    /\ req' = [req EXCEPT ![r] = q]
    /\ map' = Put(map, Home(r), r) /\ num' = Requeued(r)
    /\ UNCHANGED <<table, msgs>>
Requeue(r, q) ==
    /\ req' = [req EXCEPT ![r] = [q EXCEPT !.handle = FALSE]]
    /\ map' = Put(map, Home(r), r) /\ num' = Requeued(r)
    /\ UNCHANGED <<table, msgs>>
FinishDelay ==
    /\ Finishes("completions") /\ ~Is429 /\ cur.ret > 0
    /\ Requeue(cur.req, [req[cur.req] EXCEPT
                            !.due = IF cur.ret > MaxDelay THEN MaxDelay ELSE cur.ret])
    /\ UNCHANGED metrics

\* Mutant of CountRetry: the retries are counted down.
CountDown(r) == req[r].retries - 1
\* on_retry: the application's may answer anything; default_calculate_retry_
\* enhanced counts against max_retries and picks a backoff.
MayRetry(r)  == r \in OwnRetry \/ MaxRetries[r] = -1 \/ req[r].retries < MaxRetries[r]
MayRefuse(r) == r \in OwnRetry \/ ~MayRetry(r)
CountRetry(r) == IF r \in OwnRetry \/ MaxRetries[r] = -1 THEN req[r].retries
                 ELSE req[r].retries + 1
RetryLater(r) ==
    /\ MayRetry(r)
    /\ \E wait \in 0..MaxDelay :
          Requeue(r, [req[r] EXCEPT !.due = IF r \in OwnRetry THEN @ ELSE wait,
                                    !.retries = CountRetry(r)])
    /\ metrics' = Bump("retried")
\* on_retry is called without a test: NULL when nothing ever set it.
FinishRetry ==
    /\ pc = "finish" /\ ~Is429 /\ cur.ret < 0
    /\ IF req[cur.req].onRetry THEN Finishes("completions") /\ RetryLater(cur.req)
                               ELSE Crash

\* No retry: a refreshing request goes round again, any other is destroyed.
GivesUp(r) == cur.ret = 0 \/ (cur.ret < 0 /\ req[r].onRetry /\ MayRefuse(r))
FinishFinal == LET r == cur.req IN
    /\ Finishes("completions") /\ ~Is429 /\ GivesUp(r)
    /\ metrics' = IF cur.result = "ok" THEN Bump("completed") ELSE metrics
    /\ IF r \in Refreshing THEN Requeue(r, [req[r] EXCEPT !.retries = 0])
       ELSE /\ Destroy(r, IF cur.result = "ok" THEN "completed" ELSE "failed", num)
            /\ UNCHANGED map

\* An injected request: on_complete, then destroyed.
InjectedOne ==
    /\ pc = "injected" /\ work.injected # << >>
    /\ LET r == Head(work.injected) IN
       /\ req' = [req EXCEPT ![r].life = "completed"]
       /\ IF Publishes[r] # None
          THEN BeginPublish(Publishes[r], TRUE, FALSE, "injected")
          ELSE UNCHANGED <<pc, table, pub>>
    /\ work' = [work EXCEPT !.injected = Tail(@)]
    /\ UNCHANGED <<keepRunning, lists, map, num, msgs, metrics, running, cur, todo>>
InjectedDone ==
    /\ pc = "injected" /\ work.injected = << >> /\ Goto("drain")
    /\ UNCHANGED <<keepRunning, lists, sched, local, todo>>

\* Mutant of Oldest: the reversal loses the last operation.
OldestButOne(s) == [i \in 1..(Len(s) - 1) |-> s[Len(s) + 1 - i]]
\* curl_resource_inbox_drain: exchange the head, reverse, apply in FIFO order.
Oldest(s) == [i \in 1..Len(s) |-> s[Len(s) + 1 - i]]
Drain ==
    /\ pc = "drain" /\ Goto("ops")
    /\ work' = [work EXCEPT !.ops = Oldest(inbox)] /\ inbox' = << >>
    /\ UNCHANGED <<keepRunning, pending, cancelled, injected, sched, running, cur,
                   pub, todo>>
ApplyOp ==
    /\ pc = "ops" /\ work.ops # << >>
    /\ LET c == Head(work.ops) IN
       IF c.op = "release_async"
       THEN /\ table' = [table EXCEPT ![c.on] = ReleaseNode(@)]
            /\ UNCHANGED <<pc, pub>>
       ELSE BeginPublish(c.on, c.ok, c.op = "register_async", "ops")
    /\ work' = [work EXCEPT !.ops = Tail(@)]
    /\ UNCHANGED <<keepRunning, lists, req, map, num, msgs, metrics, running, cur,
                   todo>>
OpsDone ==
    /\ pc = "ops" /\ work.ops = << >> /\ Goto("exit")
    /\ UNCHANGED <<keepRunning, lists, sched, local, todo>>

\* Mutant of NothingLeft: requests that wait for a retry are forgotten.
NothingActive == ~running /\ pending = << >> /\ map["queued"] = {}
\* The exit test: the rate limited map, the waiters of resources and injected
\* requests are not looked at.
NothingLeft == ~running /\ pending = << >>
               /\ \A k \in {"queued", "refresh", "inactive"} : map[k] = {}
ExitTest ==
    /\ pc = "exit" /\ Goto(IF NothingLeft THEN "idle" ELSE "wait")
    /\ UNCHANGED <<keepRunning, lists, sched, local, todo>>
\* curl_multi_poll or usleep, for some time.
Wait == /\ pc = "wait" /\ Goto("top")
        /\ UNCHANGED <<keepRunning, lists, sched, local, todo>>

----------------------------------------------------------------------------
(* The loop of curl_event_res_publish over the detached waiters. *)

Waiter == Head(pub.waiters)
\* requeue_pending reads and writes pending_requests without the mutex.
RequeueRead ==
    /\ pc = "publish" /\ pub.waiters # << >> /\ pub.ok /\ Goto("requeue")
    /\ pub' = [pub EXCEPT !.snap = pending]
    /\ UNCHANGED <<keepRunning, lists, sched, running, work, cur, todo>>
RequeueWrite ==
    /\ pc = "requeue" /\ Goto("publish")
    /\ pending' = <<Waiter>> \o pub.snap
    /\ pub' = [pub EXCEPT !.waiters = Tail(@), !.snap = << >>]
    /\ UNCHANGED <<keepRunning, cancelled, injected, inbox, sched, running, work,
                   cur, todo>>
\* A failed resource fails its waiters.  The release of their dependencies may
\* free the node, whose failed flag is read again for the next one.
FailWaiter ==
    /\ pc = "publish" /\ pub.waiters # << >> /\ ~pub.ok
    /\ IF table[pub.id].st = "none" THEN Crash
       ELSE /\ Destroy(Waiter, "failed", num)
            /\ pub' = [pub EXCEPT !.waiters = Tail(@)]
            /\ UNCHANGED <<pc, keepRunning, lists, map, metrics, running, work,
                           cur, todo>>
PublishEnd ==
    /\ pc = "publish" /\ pub.waiters = << >> /\ Goto(pub.back) /\ pub' = NoPub
    /\ UNCHANGED <<keepRunning, lists, sched, running, work, cur, todo>>

----------------------------------------------------------------------------
\* Time passes while the loop waits, transfers or runs the hook of the iteration.
Ages(q)  == q.due > Past /\ q.due # Never
Later(q) == IF Ages(q) THEN [q EXCEPT !.due = @ - 1] ELSE q
Tick ==
    /\ pc \in {"onloop", "perform", "wait"}
    /\ \E r \in Requests : Live(r) /\ Ages(req[r])
    /\ req' = [r \in Requests |-> IF Live(r) THEN Later(req[r]) ELSE req[r]]
    /\ UNCHANGED <<pc, keepRunning, lists, map, num, table, msgs, metrics, local,
                   todo>>

Scheduler == Detach \/ CancelOne \/ CancelsDone \/ TakePending \/ DropCancelled
             \/ Admit \/ Launch \/ EnterRated \/ MoveRated \/ MergeRated
             \/ MoveWaiting("refresh") \/ LeaveWaiting("refresh", "inactive")
             \/ MoveWaiting("inactive") \/ LeaveWaiting("inactive", "perform")
Completions == CompleteOne \/ CompletionsDone \/ Finish429 \/ FinishDelay
               \/ FinishRetry \/ FinishFinal \/ InjectedOne \/ InjectedDone
ResourceOps == Drain \/ ApplyOp \/ OpsDone \/ RequeueRead \/ RequeueWrite
               \/ FailWaiter \/ PublishEnd
LoopStep == Top \/ OnLoop \/ Scheduler \/ PerformEnd \/ Completions
            \/ ResourceOps \/ ExitTest \/ Wait
\* The system may rest outside the loop, which the application need not run again.
Over == pc \in {"idle", "destroyed", "crashed"} /\ UNCHANGED vars

Next == \/ LoopStep \/ Tick \/ Over
        \/ \E r \in Requests : TransferDone(r)
        \/ \E c \in Calls : Call(c)

Spec == Init /\ [][Next]_vars

\* The loop thread is scheduled; time passes while the loop waits again and
\* again; a transfer that is performed again and again comes to an end.
Fairness == /\ WF_vars(LoopStep) /\ SF_vars(Tick)
            /\ \A r \in Requests : SF_vars(TransferDone(r))
FairSpec == Spec /\ Fairness
======
