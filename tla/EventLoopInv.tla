----------------------------- MODULE EventLoopInv -----------------------------
(***************************************************************************)
(* What the containers and the reference counts of the event loop rest on: *)
(* the discipline its callers keep, and the inductive invariant under it.  *)
(***************************************************************************)
EXTENDS EventLoopProps

----------------------------------------------------------------------------
(* The discipline of the callers.  Each part leaves out one race or misuse *)
(* the code does not protect itself from.                                  *)

Submits   == {"submit", "loop_submit", "inject"}
GivesBack == {"release", "release_async", "autorelease"}

\* No request is handed to the loop twice: curl_event_loop_submit has no guard,
\* and curl_event_request_submit does not see a request that waits in a map.
SubmitsOnce ==
    \A c, d \in Calls : c.op \in Submits /\ d.op \in Submits /\ c.on = d.on => c = d
\* No thread submits while requeue_pending, which takes no mutex, rewrites the
\* head of pending_requests.
SubmitsSeen == "requeue" \notin Window["submit"] \cup Window["loop_submit"]
\* A reference is given back at most once, by the one who declared the resource.
OwnersRelease ==
    \A c \in Calls : c.op \in GivesBack =>
        /\ c.on \in Declared
        /\ \A d \in Calls : d.op \in GivesBack /\ d.on = c.on => d = c
\* No thread registers a resource that requests depend on: the placeholder they
\* pinned would be handed out without a reference of the caller's.
RegistersUnpinned ==
    \A c \in Calls : c.op = "register_async" => \A r \in Requests : c.on \notin Deps[r]
Disciplined == SubmitsOnce /\ SubmitsSeen /\ OwnersRelease /\ RegistersUnpinned

\* Nobody hands a request to a loop that was destroyed.
NothingAfterDestroy == \A op \in Submits : "destroyed" \notin Window[op]

----------------------------------------------------------------------------
(* Where a request is. *)

Elements(s) == {s[i] : i \in DOMAIN s}
Distinct(s) == \A i, j \in DOMAIN s : s[i] = s[j] => i = j

Lists  == {"pending", "taken", "injected", "detached", "woken", "hand"}
Places == ({"map"} \X Maps) \cup ({"list"} \X Lists) \cup ({"node"} \X Resources)

\* The lists of the loop and of its thread, and the request it has in hand.
Listed == [l \in Lists |-> CASE l = "pending"  -> Elements(pending)
                             [] l = "taken"    -> Elements(work.pending)
                             [] l = "injected" -> Elements(injected)
                             [] l = "detached" -> Elements(work.injected)
                             [] l = "woken"    -> Elements(pub.waiters)
                             [] l = "hand"     -> {cur.req} \ {None}]
\* What is in each place, given the maps, the lists and the nodes.
Spread(m, l, t) == [p \in Places |-> IF p[1] = "map"  THEN m[p[2]]
                                ELSE IF p[1] = "list" THEN l[p[2]]
                                ELSE Elements(t[p[2]].blocked)]
Contents == Spread(map, Listed, table)
LiveOnes == {r \in Requests : Live(r)}

\* Every one of L is in one place, and nothing else is in any.
Partition(P, L) ==
    /\ \A p \in Places : P[p] \subseteq L
    /\ \A r \in L : \E p \in Places : r \in P[p]
    /\ \A p, q \in Places : p # q => P[p] \cap P[q] = {}
PlacesOK == Partition(Contents, LiveOnes)
\* No request is twice in one list.
ListsOK ==
    /\ Distinct(pending) /\ Distinct(work.pending)
    /\ Distinct(injected) /\ Distinct(work.injected) /\ Distinct(pub.waiters)
    /\ \A id \in Resources : Distinct(table[id].blocked)

\* In a publication made where p says.
Publishing(p) == pc \in {"publish", "requeue"} /\ pub.back = p
\* What the loop thread holds is empty where it does not use it, so that it never
\* overwrites the rest of a list it has detached.
HoldsOK == pc # "crashed" =>
    /\ cur.req # None => pc \in {"admit", "launch", "finish"} \/ Publishing("finish")
    /\ pub.waiters # << >> => pc \in {"publish", "requeue"}
    /\ pc = "requeue" => pub.snap = pending
    /\ map["root"] # {} => pc = "rated"
    /\ work.pending # << >> => pc \in {"cancelled", "pending", "admit", "launch"}
    /\ work.injected # << >> => pc = "injected" \/ Publishing("injected")
    /\ work.ops # << >> => pc = "ops" \/ Publishing("ops")
    /\ msgs # << >> => pc \in {"perform", "completions", "finish"} \/ Publishing("finish")
\* A DONE message is about a request in flight, and each has one at most.
MsgsOK == \A i, j \in DOMAIN msgs :
    msgs[i].req \in map["queued"] /\ (msgs[i].req = msgs[j].req => i = j)
\* What is still to be submitted is new, and what is new holds nothing.
FreshOK ==
    /\ \A c \in todo : c.op \in Submits => req[c.on].life = "new"
    /\ \A r \in Requests : req[r].life = "new" => ~req[r].retained
\* Every live request is in exactly one map, list, node or hand of the loop thread;
\* and nothing that thread has detached from a shared list, or read from libcurl, is
\* overwritten, used twice or stale when it comes to it.
PlacesInv == PlacesOK /\ ListsOK /\ HoldsOK /\ MsgsOK /\ FreshOK

----------------------------------------------------------------------------
(* Who holds a reference. *)

\* A resource that requests have pinned has a node.
PinsOK == \A id \in Resources : table[id].st = "none" => Users(id) = {}
\* A request that waits for a resource, or was just woken, has pinned it.
WaitersPin ==
    /\ \A id \in Resources : \A r \in Elements(table[id].blocked) :
           req[r].retained /\ id \in Deps[r]
    /\ \A r \in Elements(pub.waiters) : req[r].retained /\ pub.id \in Deps[r]
\* So has one that was admitted, and an injected one has not pinned anything.
AdmittedPin ==
    /\ \A k \in Maps : \A r \in map[k] : req[r].retained \/ Deps[r] = {}
    /\ (pc \in {"launch", "finish"} \/ Publishing("finish")) =>
           req[cur.req].retained \/ Deps[cur.req] = {}
    /\ \A r \in Elements(injected) \cup Elements(work.injected) : ~req[r].retained

\* The operations on their way to the loop were posted, each once.
OpsOK ==
    /\ Elements(inbox) \cup Elements(work.ops) \subseteq Calls \ todo
    /\ Elements(inbox) \cap Elements(work.ops) = {}
    /\ Distinct(inbox) /\ Distinct(work.ops)
Due == todo \cup Elements(inbox) \cup Elements(work.ops)
\* Whoever is still to give a reference back has one to give.
OwedOK == pc # "destroyed" =>
    \A c \in Due : c.op \in GivesBack => table[c.on].st # "none" /\ table[c.on].held > 0
\* A node that is released with its last user still has its owner's reference,
\* and nobody else will give that back.
AutoOK == \A id \in Resources : table[id].auto =>
    /\ table[id].st # "none" /\ table[id].held > 0
    /\ \E c \in Calls \ todo : c.op = "autorelease" /\ c.on = id
\* The reference counts are exact, and no holder of curl_resource.c can be surprised:
\* who waits for a resource or goes on to use it has pinned it, who is still to
\* release it has a reference to give back, and what a request in flight depends on
\* is published.
RefsInv == RefcountExact /\ PinsOK /\ WaitersPin /\ AdmittedPin /\ OpsOK /\ OwedOK
           /\ AutoOK /\ DepsHoldInFlight

----------------------------------------------------------------------------
(* Who has a handle in the multi. *)

\* The requests that a 429 may keep in the multi: on that path the handle stays.
Throttled == {r \in RateLimited : "429" \in Outcomes[r]}

\* In a completion whose answer is not acted on yet.
Answering == pc = "finish" \/ Publishing("finish")
\* What libcurl and the callbacks tell is what they may tell.
ResultsOK ==
    /\ \A i \in DOMAIN msgs : msgs[i].result \in Outcomes[msgs[i].req]
    /\ Answering => /\ cur.result \in Outcomes[cur.req]
                    /\ cur.ret \in Returns[cur.req][Outcome(cur.result)]
\* A request has a handle while it is in flight or was just answered.
HandledOK == pc \notin {"crashed", "destroyed"} =>
    \A r \in Requests \ Throttled :
        req[r].handle <=> r \in map["queued"] \/ Answered(r)

----------------------------------------------------------------------------
(* Cancellations. *)

\* Where every live request is in a map or in pending_requests, unless it waits
\* for a resource or was injected.
Settled == {"idle", "top", "onloop", "detach", "exit", "wait"}
\* An application cancels a request once, between two iterations, and only one the
\* loop keeps where it looks for cancelled requests: not a rate limited, a
\* dependent or an injected one.
CancelsSettled ==
    \A c \in Calls : c.op = "cancel" =>
        /\ Window["cancel"] \subseteq Settled
        /\ c.on \notin RateLimited /\ Deps[c.on] = {}
        /\ \A d \in Calls : d.on = c.on => d.op # "inject"
        /\ \A d \in Calls : d.on = c.on /\ d.op = "cancel" => d = c
\* It destroys no loop whose requests it cancels, or whose resources it leaves to
\* the last request to release: destroying walks both lists.
DestroysPlainly ==
    \A c, d \in Calls : c.op = "destroy" => d.op \notin {"cancel", "autorelease"}
\* The requests whose callback may ask for a retry.
AsksRetry(r) == \E o \in Outcomes[r] : \E n \in Returns[r][Outcome(o)] : n < 0
\* Only those ask for one for whom somebody has set on_retry.
RetriesArmed ==
    \A c \in Calls : c.op \in {"submit", "loop_submit"} /\ AsksRetry(c.on) =>
        c.on \in OwnRetry \/ (c.op = "submit" /\ MaxRetries[c.on] # 0)

\* The hypotheses on the application under which cancelling is defined.
CancelsPlainly == Disciplined /\ CancelsSettled /\ DestroysPlainly /\ RetriesArmed

\* The requests of the maps belong there.
HomesOK ==
    /\ map["rated"] \cup map["root"] \subseteq RateLimited
    /\ map["refresh"] \subseteq Refreshing /\ map["inactive"] \cap Refreshing = {}
\* is_pending tells which requests wait to be looked at.
PendingOK ==
    /\ \A r \in Requests : req[r].isPending /\ req[r].life \notin Ended =>
           r \in Elements(pending) \cup Elements(work.pending)
    /\ \A r \in Elements(pending) \cup Elements(work.pending) :
           Deps[r] = {} => req[r].isPending
\* What was injected was not submitted.
InjectedOK == \A r \in Elements(injected) \cup Elements(work.injected) :
    \E c \in Calls \ todo : c.op = "inject" /\ c.on = r
\* A request whose callback may ask for a retry has on_retry.
ArmedOK ==
    /\ \A r \in OwnRetry : req[r].onRetry
    /\ \A r \in LiveOnes : AsksRetry(r) =>
           req[r].onRetry \/ r \in Elements(injected) \cup Elements(work.injected)

\* Between two iterations, or in a publication made there.
Between == pc \in Settled \/ Publishing("idle") \/ Publishing("onloop")
\* The requests in cancelled_requests, or in the copy the loop is walking.
Listed4Cancel == Elements(cancelled) \cup Elements(work.cancelled)
\* They are where the loop looks for them, each is there once, and the lists are
\* emptied before the loop moves anybody.
CancelsOK ==
    /\ \A r \in Listed4Cancel : /\ r \in LiveOnes /\ req[r].isCancelled
                                /\ r \notin RateLimited
                                /\ r \in map["queued"] \cup map[Home(r)]
    /\ Distinct(cancelled) /\ Distinct(work.cancelled)
    /\ cancelled # << >> => work.cancelled = << >> /\ Between
    /\ work.cancelled # << >> => pc = "cancelled"
    /\ cancelled # << >> \/ work.cancelled # << >> =>
           \E c \in Calls : c.op = "cancel"
\* A cancelled request that lives will be found: it is in those lists, or still
\* to be looked at.
MarkedOK ==
    /\ \A r \in Requests : req[r].isCancelled /\ req[r].life \notin Ended =>
           \/ r \in Listed4Cancel \cup Elements(pending) \cup Elements(work.pending)
           \/ pc = "admit" /\ cur.req = r
    /\ \A c \in todo : c.op = "cancel" => ~req[c.on].isCancelled
    /\ \A r \in Requests : req[r].isCancelled => Deps[r] = {}

\* A request is in the multi from its start until its answer is acted on, on every
\* path through the completions (the one of a 429 apart, where the handle stays).
HandlesInv == ResultsOK /\ HandledOK

\* Whatever an application cancels between two iterations is where the loop will look
\* for it, once, and in the map it will be taken from; until then nothing completes,
\* fails or starts it, and nothing undefined happens.
CancelsInv == HomesOK /\ PendingOK /\ InjectedOK /\ ArmedOK /\ CancelsOK /\ MarkedOK
              /\ CancelHonoured /\ NoUndefined
=============================================================================
