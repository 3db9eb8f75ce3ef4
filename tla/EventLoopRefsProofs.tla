------------------------ MODULE EventLoopRefsProofs -------------------------
(***************************************************************************)
(* The reference counts of the resources, the one container of a request,  *)
(* what the destruction of the loop reaches, and the counters of the loop  *)
(* with the limit on transfers, in every instance whose callers keep the   *)
(* discipline.                                                             *)
(***************************************************************************)
EXTENDS EventLoopPlacesProofs

----------------------------------------------------------------------------
(* One node: the references, and the one its owner may still give back. *)

\* A node that u requests have pinned counts them and its owners; who is not
\* there has no user.
Exact(n, u) == /\ n.st = "none" => u = 0
               /\ n.st # "none" => n.refcnt = n.held + u
Held(n)     == n.st # "none" /\ n.held > 0
Owned(n)    == n.auto => Held(n)

\* Every operation on a node that has its references keeps them exact.
LEMMA NodeExact ==
    ASSUME NEW n \in NodeRec, NEW u \in Nat, Exact(n, u)
    PROVE  /\ n.st = "none" \/ n.held > 0 => Exact(ReleaseNode(n), u)
           /\ Exact(AddRefNode(n), u) /\ Exact(AutoNode(n), u)
           /\ Exact(RetainNode(n), u + 1)
           /\ u > 0 /\ Owned(n) => Exact(DropDep(n), u - 1)
           /\ \A r : n.st # "none" => Exact(BlockNode(n, r), u)
           /\ \A ok, own \in BOOLEAN : (own => u = 0) => Exact(PublishNode(n, ok, own), u)
<1> DEFINE m == GetOrCreate(n)
<1>1. /\ n.st \in NodeStates /\ n.refcnt \in Int /\ n.held \in Nat /\ n.auto \in BOOLEAN
      /\ m \in NodeRec /\ m.st # "none" /\ m.refcnt = m.held + u /\ m.held \in Nat
      /\ m.refcnt \in Int
      /\ (n.st # "none" => m = n)
  <2>1. CASE n.st = "none"
    <3>1. m = [NoNode EXCEPT !.st = "empty"]
      BY <2>1 DEF GetOrCreate
    <3>2. m.st = "empty" /\ m.refcnt = 0 /\ m.held = 0 /\ m \in NodeRec /\ u = 0
      BY <2>1, <3>1, NodeOps DEF NoNode, Exact
    <3> QED
      BY <2>1, <3>2 DEF NodeRec
  <2>2. CASE n.st # "none"
    BY <2>2 DEF GetOrCreate, NodeRec, Exact
  <2> QED
    BY <2>1, <2>2
<1>2. NoNode.st = "none" /\ NoNode.refcnt = 0 /\ NoNode.held = 0
  BY DEF NoNode
<1>3. n.st = "none" \/ n.held > 0 => Exact(ReleaseNode(n), u)
  <2>1. CASE n.st = "none"
    BY <2>1 DEF ReleaseNode
  <2>2. CASE n.st # "none" /\ n.held > 0 /\ n.refcnt = 1
    <3>1. u = 0 /\ ReleaseNode(n) = NoNode
      BY <1>1, <2>2 DEF Exact, ReleaseNode
    <3> QED
      BY <1>2, <3>1 DEF Exact
  <2>3. CASE n.st # "none" /\ n.held > 0 /\ n.refcnt # 1
    <3> DEFINE p == ReleaseNode(n)
    <3>1. p = [n EXCEPT !.refcnt = @ - 1, !.held = IF @ > 0 THEN @ - 1 ELSE 0]
      BY <2>3 DEF ReleaseNode
    <3>2. p.st = n.st /\ p.refcnt = n.refcnt - 1 /\ p.held = n.held - 1
      BY <1>1, <2>3, <3>1 DEF NodeRec
    <3> HIDE DEF p
    <3> QED
      BY <1>1, <2>3, <3>2 DEF Exact, p
  <2> QED
    BY <2>1, <2>2, <2>3
<1> HIDE DEF m
<1>4. Exact(AddRefNode(n), u)
  <2> DEFINE p == AddRefNode(n)
  <2>1. p = [m EXCEPT !.refcnt = @ + 1, !.held = @ + 1]
    BY DEF AddRefNode, m
  <2>2. p.st = m.st /\ p.refcnt = m.refcnt + 1 /\ p.held = m.held + 1
    BY <1>1, <2>1 DEF NodeRec
  <2> HIDE DEF p
  <2> QED
    BY <1>1, <2>2 DEF Exact, p
<1>5. Exact(AutoNode(n), u)
  <2> DEFINE p == AutoNode(n)
  <2>1. p = [m EXCEPT !.auto = TRUE]
    BY DEF AutoNode, m
  <2>2. p.st = m.st /\ p.refcnt = m.refcnt /\ p.held = m.held
    BY <1>1, <2>1 DEF NodeRec
  <2> HIDE DEF p
  <2> QED
    BY <1>1, <2>2 DEF Exact, p
<1>6. Exact(RetainNode(n), u + 1)
  <2> DEFINE p == RetainNode(n)
  <2>1. p = [m EXCEPT !.refcnt = @ + 1]
    BY DEF RetainNode, m
  <2>2. p.st = m.st /\ p.refcnt = m.refcnt + 1 /\ p.held = m.held
    BY <1>1, <2>1 DEF NodeRec
  <2> HIDE DEF p
  <2> QED
    BY <1>1, <2>2 DEF Exact, p
<1>7. ASSUME u > 0, Owned(n) PROVE Exact(DropDep(n), u - 1)
  <2> DEFINE i == IF n.refcnt > 0 THEN n.refcnt - 1 ELSE 0
             p == [n EXCEPT !.refcnt = i]
  <2>1. n.st # "none" /\ n.refcnt = n.held + u /\ DropDep(n) = MaybeAutorelease(p)
    BY <1>1, <1>7 DEF Exact, DropDep
  <2>2. /\ p.st = n.st /\ p.refcnt = n.held + (u - 1) /\ p.held = n.held
        /\ p.auto = n.auto
    BY <1>1, <1>7, <2>1 DEF NodeRec
  <2> HIDE DEF p
  <2>3. CASE p.auto /\ p.refcnt = 1 /\ p.blocked = << >>
    <3>1. DropDep(n) = NoNode
      BY <2>1, <2>2, <2>3 DEF MaybeAutorelease, ReleaseNode
    <3>2. u - 1 = 0
      BY <1>1, <1>7, <2>2, <2>3 DEF Owned, Held
    <3> QED
      BY <1>2, <3>1, <3>2 DEF Exact
  <2>4. CASE ~(p.auto /\ p.refcnt = 1 /\ p.blocked = << >>)
    <3>1. DropDep(n) = p
      BY <2>1, <2>4 DEF MaybeAutorelease
    <3> QED
      BY <1>1, <2>1, <2>2, <3>1 DEF Exact
  <2> QED
    BY <2>3, <2>4
<1>8. ASSUME NEW r, n.st # "none" PROVE Exact(BlockNode(n, r), u)
  <2> DEFINE p == BlockNode(n, r)
  <2>1. p = [m EXCEPT !.blocked = Append(@, r)]
    BY DEF BlockNode, m
  <2>2. p.st = m.st /\ p.refcnt = m.refcnt /\ p.held = m.held
    BY <1>1, <2>1 DEF NodeRec
  <2> HIDE DEF p
  <2> QED
    BY <1>1, <2>2 DEF Exact, p
<1>9. ASSUME NEW ok \in BOOLEAN, NEW own \in BOOLEAN, own => u = 0
      PROVE  Exact(PublishNode(n, ok, own), u)
  <2> DEFINE p == PublishNode(n, ok, own)
             s == IF ok THEN "ready" ELSE "failed"
             i == IF m.refcnt = 0 THEN 1 ELSE m.refcnt
             h == IF m.held = 0 /\ (m.refcnt = 0 \/ own) THEN 1 ELSE m.held
  <2>1. p = [m EXCEPT !.st = s, !.refcnt = i, !.held = h, !.blocked = << >>]
    BY DEF PublishNode, m
  <2>2. s # "none"
    OBVIOUS
  <2>3. i = h + u
    <3>1. CASE m.refcnt = 0
      BY <1>1, <3>1
    <3>2. CASE m.refcnt # 0
      <4>1. ~(m.held = 0 /\ own)
        BY <1>1, <1>9, <3>2
      <4>2. h = m.held
        BY <3>2, <4>1
      <4> QED
        BY <1>1, <3>2, <4>2
    <3> QED
      BY <3>1, <3>2
  <2> HIDE DEF s, i, h
  <2>4. p.st = s /\ p.refcnt = i /\ p.held = h
    BY <1>1, <2>1 DEF NodeRec
  <2> HIDE DEF p
  <2> QED
    BY <2>2, <2>3, <2>4, <1>1 DEF Exact, p
<1> QED
  BY <1>3, <1>4, <1>5, <1>6, <1>7, <1>8, <1>9

\* Every operation but a release leaves the owner its reference; the release of a
\* dependency takes it only where the owner has asked for that.
LEMMA NodeHeld ==
    ASSUME NEW n \in NodeRec
    PROVE  /\ Held(n) => /\ Held(AddRefNode(n)) /\ Held(AutoNode(n)) /\ Held(RetainNode(n))
                         /\ \A r : Held(BlockNode(n, r))
                         /\ \A ok, own \in BOOLEAN : Held(PublishNode(n, ok, own))
                         /\ ~n.auto => Held(DropDep(n))
           /\ \/ DropDep(n) = NoNode
              \/ /\ DropDep(n).held = n.held /\ DropDep(n).st = n.st
                 /\ DropDep(n).auto = n.auto
<1> DEFINE d == DropDep(n)
           i == IF n.refcnt > 0 THEN n.refcnt - 1 ELSE 0
           p == [n EXCEPT !.refcnt = i]
<1>1. n.refcnt \in Int /\ n.held \in Nat /\ n.auto \in BOOLEAN
  BY DEF NodeRec
<1>2. p.st = n.st /\ p.held = n.held /\ p.auto = n.auto
  BY DEF NodeRec
<1>3. d = IF n.st = "none" THEN n ELSE MaybeAutorelease(p)
  BY DEF DropDep
<1> HIDE DEF p
<1>4. d = n \/ d = p \/ (d = NoNode /\ n.auto)
  <2>1. CASE n.st = "none"
    BY <1>3, <2>1
  <2>2. CASE n.st # "none" /\ p.auto /\ p.refcnt = 1 /\ p.blocked = << >>
    <3>1. d = NoNode
      BY <1>2, <1>3, <2>2 DEF MaybeAutorelease, ReleaseNode
    <3> QED
      BY <1>2, <2>2, <3>1
  <2>3. CASE n.st # "none" /\ ~(p.auto /\ p.refcnt = 1 /\ p.blocked = << >>)
    BY <1>3, <2>3 DEF MaybeAutorelease
  <2> QED
    BY <2>1, <2>2, <2>3
<1> HIDE DEF d
<1>5. d = NoNode \/ (d.held = n.held /\ d.st = n.st /\ d.auto = n.auto)
  BY <1>2, <1>4
<1>6. ASSUME Held(n)
      PROVE  /\ Held(AddRefNode(n)) /\ Held(AutoNode(n)) /\ Held(RetainNode(n))
             /\ \A r : Held(BlockNode(n, r))
  <2>1. n.st # "none" /\ n.held > 0 /\ GetOrCreate(n) = n
    BY <1>6 DEF Held, GetOrCreate
  <2>2. AddRefNode(n).st = n.st /\ AddRefNode(n).held = n.held + 1
    BY <2>1 DEF AddRefNode, NodeRec
  <2>3. AutoNode(n).st = n.st /\ AutoNode(n).held = n.held
    BY <2>1 DEF AutoNode, NodeRec
  <2>4. RetainNode(n).st = n.st /\ RetainNode(n).held = n.held
    BY <2>1 DEF RetainNode, NodeRec
  <2>5. \A r : BlockNode(n, r).st = n.st /\ BlockNode(n, r).held = n.held
    BY <2>1 DEF BlockNode, NodeRec
  <2> QED
    BY <1>1, <2>1, <2>2, <2>3, <2>4, <2>5 DEF Held
<1>7. ASSUME Held(n), NEW ok \in BOOLEAN, NEW own \in BOOLEAN
      PROVE  Held(PublishNode(n, ok, own))
  <2> DEFINE q == PublishNode(n, ok, own)
             s == IF ok THEN "ready" ELSE "failed"
             j == IF n.refcnt = 0 THEN 1 ELSE n.refcnt
  <2>1. GetOrCreate(n) = n /\ n.held > 0 /\ n.held # 0
    BY <1>1, <1>7 DEF Held, GetOrCreate
  <2>2. q = [n EXCEPT !.st = s, !.refcnt = j, !.held = @, !.blocked = << >>]
    BY <2>1 DEF PublishNode
  <2>3. s # "none"
    OBVIOUS
  <2> HIDE DEF s, j
  <2>4. q.st = s /\ q.held = n.held
    BY <2>2 DEF NodeRec
  <2> QED
    BY <2>1, <2>3, <2>4 DEF Held
<1>8. ASSUME Held(n), ~n.auto PROVE Held(d)
  BY <1>2, <1>4, <1>8 DEF Held
<1> QED
  BY <1>5, <1>6, <1>7, <1>8 DEF d

\* What is published stays so until its node is erased.
LEMMA NodePublished ==
    ASSUME NEW n \in NodeRec, Published(n)
    PROVE  /\ Published(AddRefNode(n)) /\ Published(AutoNode(n)) /\ Published(RetainNode(n))
           /\ \A r : Published(BlockNode(n, r))
           /\ \A ok, own \in BOOLEAN : Published(PublishNode(n, ok, own))
           /\ Published(ReleaseNode(n)) \/ ReleaseNode(n).st = "none"
           /\ Published(DropDep(n)) \/ DropDep(n).st = "none"
<1>1. GetOrCreate(n) = n /\ n.st # "none" /\ NoNode.st = "none"
  BY DEF GetOrCreate, Published, NoNode
<1>2. AddRefNode(n).st = n.st /\ AutoNode(n).st = n.st /\ RetainNode(n).st = n.st
  BY <1>1 DEF AddRefNode, AutoNode, RetainNode, NodeRec
<1>3. \A r : BlockNode(n, r).st = n.st
  BY <1>1 DEF BlockNode, NodeRec
<1>4. \A ok, own \in BOOLEAN : PublishNode(n, ok, own).st \in {"ready", "failed"}
  <2> TAKE ok, own \in BOOLEAN
  <2> DEFINE s == IF ok THEN "ready" ELSE "failed"
             j == IF n.refcnt = 0 THEN 1 ELSE n.refcnt
             h == IF n.held = 0 /\ (n.refcnt = 0 \/ own) THEN 1 ELSE n.held
  <2>1. PublishNode(n, ok, own) = [n EXCEPT !.st = s, !.refcnt = j, !.held = h,
                                            !.blocked = << >>]
    BY <1>1 DEF PublishNode
  <2>2. s \in {"ready", "failed"}
    OBVIOUS
  <2> HIDE DEF s, j, h
  <2> QED
    BY <2>1, <2>2 DEF NodeRec
<1>5. ReleaseNode(n).st \in {n.st, "none"}
  BY <1>1 DEF ReleaseNode, NodeRec
<1>6. DropDep(n).st \in {n.st, "none"}
  BY <1>1, NodeHeld
<1> QED
  BY <1>2, <1>3, <1>4, <1>5, <1>6 DEF Published

----------------------------------------------------------------------------
(* Who holds a reference after a step. *)

\* The loop thread does nothing any more once the loop is destroyed, or after
\* undefined behaviour.
LEMMA NothingRuns ==
    ASSUME pc \in {"destroyed", "crashed"}
    PROVE  ~LoopStep /\ ~Tick /\ ~\E r \in Requests : TransferDone(r)
<1>1. ~Scheduler
  BY DEF Scheduler, Detach, CancelOne, CancelsDone, TakePending, DropCancelled, Admit,
        Launch, EnterRated, MoveRated, MergeRated, MoveWaiting, LeaveWaiting
<1>2. ~Completions
  BY DEF Completions, CompleteOne, CompletionsDone, Finish429, FinishDelay, FinishRetry,
        FinishFinal, InjectedOne, InjectedDone, Finishes
<1>3. ~ResourceOps
  BY DEF ResourceOps, Drain, ApplyOp, OpsDone, RequeueRead, RequeueWrite, FailWaiter,
        PublishEnd
<1>4. ~(Top \/ OnLoop \/ PerformEnd \/ ExitTest \/ Wait \/ Tick)
  BY DEF Top, OnLoop, PerformEnd, ExitTest, Wait, Tick
<1>5. ~\E r \in Requests : TransferDone(r)
  BY DEF TransferDone
<1> QED
  BY <1>1, <1>2, <1>3, <1>4, <1>5 DEF LoopStep

\* Nothing happens to the maps and the resources of a loop that was destroyed.
LEMMA OverStill ==
    ASSUME pc = "destroyed", [Next]_vars
    PROVE  UNCHANGED <<pc, table, map>>
<1>1. CASE UNCHANGED vars \/ Over
  BY <1>1 DEF vars, Over, sched
<1>2. ~LoopStep /\ ~Tick /\ ~\E r \in Requests : TransferDone(r)
  BY NothingRuns
<1>3. ASSUME NEW c \in Calls, Call(c) PROVE UNCHANGED <<pc, table, map>>
  <2>1. ~(NodeCall(c) \/ PublishCall(c) \/ Run(c) \/ DestroyLoop(c))
    BY CallsAssumption DEF NodeCall, PublishCall, Run, DestroyLoop, Makes, LoopThread
  <2> QED
    BY <1>3, <2>1 DEF Call, RequestSubmit, LoopSubmit, Enlist, Cancel, Inject, Stop, Post,
          sched
<1> QED
  BY <1>1, <1>2, <1>3 DEF Next

\* The users of a resource are counted.
LEMMA UsersCount ==
    ASSUME NEW id \in Resources
    PROVE  /\ Users(id) \subseteq Requests /\ IsFiniteSet(Users(id))
           /\ Cardinality(Users(id)) \in Nat
           /\ Cardinality(Users(id)) = 0 <=> Users(id) = {}
           /\ \A r \in Users(id) : Cardinality(Users(id) \ {r}) = Cardinality(Users(id)) - 1
           /\ \A r : r \notin Users(id) =>
                         Cardinality(Users(id) \cup {r}) = Cardinality(Users(id)) + 1
<1> DEFINE U == Users(id)
<1>1. U \subseteq Requests
  BY DEF Users
<1> HIDE DEF U
<1>2. IsFiniteSet(U)
  BY <1>1, FS_Subset, SetsAssumption
<1>3. Cardinality(U) \in Nat /\ (Cardinality(U) = 0 <=> U = {})
  BY <1>2, FS_CardinalityType, FS_EmptySet
<1>4. \A r \in U : Cardinality(U \ {r}) = Cardinality(U) - 1
  BY <1>2, FS_RemoveElement
<1>5. \A r : r \notin U => Cardinality(U \cup {r}) = Cardinality(U) + 1
  BY <1>2, FS_AddElement
<1> QED
  BY <1>1, <1>2, <1>3, <1>4, <1>5 DEF U

\* Where nobody takes or drops a reference, the users stay.
LEMMA QuietUsers ==
    ASSUME Quiet, NEW id \in Resources
    PROVE  Users(id)' = Users(id)
BY DEF Quiet, Users, Live

\* A request that dies is no user any more.
LEMMA DeadUsers ==
    ASSUME NEW r \in Requests, Dies(r), NEW id \in Resources
    PROVE  /\ Users(id)' = Users(id) \ {r}
           /\ r \in Users(id) <=> req[r].retained /\ id \in Deps[r]
<1>1. \A s \in Requests : s \in Users(id)' <=> s \in Users(id) /\ s # r
  BY DEF Dies, Users, Live, Ended
<1> QED
  BY <1>1 DEF Dies, Users, Live

\* A request that is admitted is one of its dependencies.
LEMMA AdmittedUsers ==
    ASSUME req \in [Requests -> RequestRec], NEW r \in Requests, Admits(r),
           NEW id \in Resources
    PROVE  /\ Users(id)' = IF id \in Deps[r] THEN Users(id) \cup {r} ELSE Users(id)
           /\ r \in Users(id) <=> req[r].retained /\ id \in Deps[r]
<1> DEFINE b == req[r].retained \/ Deps[r] # {}
           q == [req[r] EXCEPT !.retained = b]
<1>1. req' = [req EXCEPT ![r] = q] /\ req[r].life = "live"
  BY DEF Admits
<1>2. q.life = req[r].life /\ q.retained = b
  BY DEF RequestRec
<1> HIDE DEF b, q
<1>3. \A s \in Requests : req'[s] = IF s = r THEN q ELSE req[s]
  BY <1>1
<1>4. id \in Deps[r] => b
  BY DEF b
<1>5. \A s \in Requests : s \in Users(id)' <=> s \in Users(id) \/ (s = r /\ id \in Deps[r])
  BY <1>1, <1>2, <1>3, <1>4 DEF Users, Live
<1> QED
  BY <1>1, <1>5 DEF Users, Live

\* The node of a resource after a request was admitted: pinned, and perhaps with
\* the request among its waiters.
LEMMA AdmittedNode ==
    ASSUME table \in [Resources -> NodeRec], NEW r \in Requests, Admits(r),
           NEW id \in Resources
    PROVE  LET p == IF ~req[r].retained /\ id \in Deps[r] THEN RetainNode(table[id])
                                                         ELSE table[id]
           IN  /\ p \in NodeRec
               /\ table'[id] = p \/ (id \in Deps[r] /\ table'[id] = BlockNode(p, r))
<1> DEFINE p(x) == IF ~req[r].retained /\ x \in Deps[r] THEN RetainNode(table[x])
                                                        ELSE table[x]
<1>1. \A x \in Resources : Pinned(r)[x] = p(x)
  BY DEF Pinned, RetainDeps
<1>2. Pinned(r) \in [Resources -> NodeRec]
  BY DepsTypes DEF Pinned
<1>3. \A x \in Unmet(Pinned(r), r) : x \in Deps[r]
  BY DEF Unmet
<1> HIDE DEF p
<1>4. CASE table' = Pinned(r)
  BY <1>1, <1>2, <1>4 DEF p
<1>5. CASE \E x \in Unmet(Pinned(r), r) : table' = [Pinned(r) EXCEPT ![x] = BlockNode(@, r)]
  <2>1. PICK x \in Unmet(Pinned(r), r) :
            table' = [Pinned(r) EXCEPT ![x] = BlockNode(Pinned(r)[x], r)]
    BY <1>5
  <2>2. table'[id] = IF x = id THEN BlockNode(Pinned(r)[x], r) ELSE Pinned(r)[id]
    BY <1>2, <2>1
  <2>3. table'[id] = p(id) \/ (id \in Deps[r] /\ table'[id] = BlockNode(p(id), r))
    BY <1>1, <1>3, <2>1, <2>2
  <2> QED
    BY <1>1, <1>2, <2>3 DEF p
<1> QED
  BY <1>4, <1>5 DEF Admits

\* The references of the invariant, node by node.
LEMMA GivenExact ==
    ASSUME EInv, NEW id \in Resources
    PROVE  /\ table[id] \in NodeRec /\ Exact(table[id], Cardinality(Users(id)))
           /\ Owned(table[id])
<1>1. table[id].st = "none" => Cardinality(Users(id)) = 0
  BY UsersCount DEF EInv, RefsInv, PinsOK
<1>2. table[id].st # "none" => table[id].refcnt = table[id].held + Cardinality(Users(id))
  BY DEF EInv, RefsInv, RefcountExact
<1>3. Owned(table[id])
  BY DEF EInv, RefsInv, AutoOK, Owned, Held
<1> QED
  BY <1>1, <1>2, <1>3, Given DEF Exact

\* A reference that is given back is there, and nobody is to give it back later.
LEMMA GivenHeld ==
    ASSUME EInv, Disciplined, [Next]_vars, NEW id \in Resources, GivenBack(id),
           pc # "destroyed"
    PROVE  /\ Held(table[id]) /\ ~table[id].auto
           /\ \A d \in Due' : d.op \in GivesBack /\ d \in Due => d.on # id
<1>1. PICK c \in Due : /\ c \notin Due' /\ c.on = id
                       /\ c.op \in {"release", "release_async"}
  BY DEF GivenBack
<1>2. c \in Calls /\ c.op \in GivesBack
  BY <1>1, Given DEF GivesBack, EInv, RefsInv, OpsOK, Due, IInv, TypeOK, ControlTypes
<1>3. Held(table[id])
  BY <1>1, <1>2 DEF EInv, RefsInv, OwedOK, Held
<1>4. \A d \in Calls : d.op \in GivesBack /\ d.on = id => d = c
  BY <1>1, <1>2 DEF Disciplined, OwnersRelease
<1>5. ~table[id].auto
  <2>1. table[id].auto => \E d \in Calls : d.op = "autorelease" /\ d.on = id
    BY DEF EInv, RefsInv, AutoOK
  <2>2. table[id].auto => c.op = "autorelease"
    BY <1>4, <2>1 DEF GivesBack
  <2> QED
    BY <1>1, <2>2
<1>6. Due \subseteq Calls
  BY Given DEF EInv, RefsInv, OpsOK, Due, IInv, TypeOK, ControlTypes
<1> QED
  BY <1>1, <1>3, <1>4, <1>5, <1>6

\* The references of the invariant after a step.
LEMMA NextExact ==
    ASSUME EInv, Disciplined, [Next]_vars, NEW id \in Resources
    PROVE  Exact(table'[id], Cardinality(Users(id)'))
<1> DEFINE n == table[id]
           u == Cardinality(Users(id))
<1>0. /\ n \in NodeRec /\ u \in Nat /\ Exact(n, u) /\ Owned(n)
      /\ table \in [Resources -> NodeRec] /\ req \in [Requests -> RequestRec]
  BY GivenExact, UsersCount, Given
<1>1. CASE Quiet /\ table' = table
  BY <1>0, <1>1, QuietUsers
<1>2. CASE Quiet /\ \E x \in Resources : NodeStep(x)
  <2>1. PICK x \in Resources : NodeStep(x)
    BY <1>2
  <2>2. Users(id)' = Users(id)
    BY <1>2, QuietUsers
  <2>3. CASE x # id
    <3>1. table'[id] = table[id]
      BY <1>0, <2>1, <2>3 DEF NodeStep
    <3> QED
      BY <1>0, <2>2, <3>1
  <2>4. CASE x = id
    <3>1. PICK p : /\ table' = [table EXCEPT ![id] = p]
                   /\ \/ p = ReleaseNode(n) /\ GivenBack(id)
                      \/ p = AddRefNode(n) \/ p = AutoNode(n)
                      \/ \E ok, own \in BOOLEAN : /\ p = PublishNode(n, ok, own)
                                                  /\ own => Users(id) = {}
      BY <2>1, <2>4 DEF NodeStep
    <3>2. table'[id] = p
      BY <1>0, <3>1
    <3>3. CASE pc = "destroyed"
      BY <1>0, <2>2, <3>3, OverStill
    <3>4. CASE pc # "destroyed" /\ p = ReleaseNode(n) /\ GivenBack(id)
      <4>1. n.held > 0
        BY <3>4, GivenHeld DEF Held
      <4>2. Exact(ReleaseNode(n), u)
        BY <1>0, <4>1, NodeExact
      <4> QED
        BY <2>2, <3>2, <3>4, <4>2
    <3>5. CASE p = AddRefNode(n) \/ p = AutoNode(n)
      <4>1. Exact(AddRefNode(n), u) /\ Exact(AutoNode(n), u)
        BY <1>0, NodeExact
      <4> QED
        BY <2>2, <3>2, <3>5, <4>1
    <3>6. ASSUME NEW ok \in BOOLEAN, NEW own \in BOOLEAN, p = PublishNode(n, ok, own),
                 own => Users(id) = {}
          PROVE  Exact(p, u)
      <4>1. own => u = 0
        BY <3>6, UsersCount
      <4> QED
        BY <1>0, <3>6, <4>1, NodeExact
    <3> QED
      BY <2>2, <3>1, <3>2, <3>3, <3>4, <3>5, <3>6
  <2> QED
    BY <2>3, <2>4
<1>3. ASSUME NEW r \in Requests, Dies(r) PROVE Exact(table'[id], Cardinality(Users(id)'))
  <2>1. Users(id)' = Users(id) \ {r} /\ (r \in Users(id) <=> req[r].retained /\ id \in Deps[r])
    BY <1>3, DeadUsers
  <2>2. CASE r \notin Users(id)
    <3>1. Users(id)' = Users(id) /\ table'[id] = table[id]
      BY <1>0, <1>3, <2>1, <2>2 DEF Dies, ReleaseDeps
    <3> QED
      BY <1>0, <3>1
  <2>3. CASE r \in Users(id)
    <3>1. table'[id] = DropDep(n)
      BY <1>3, <2>1, <2>3 DEF Dies, ReleaseDeps
    <3>2. Cardinality(Users(id)') = u - 1 /\ u # 0
      BY <2>1, <2>3, UsersCount
    <3>3. Exact(DropDep(n), u - 1)
      BY <1>0, <3>2, NodeExact
    <3> QED
      BY <3>1, <3>2, <3>3
  <2> QED
    BY <2>2, <2>3
<1>4. ASSUME NEW r \in Requests, Admits(r) PROVE Exact(table'[id], Cardinality(Users(id)'))
  <2> DEFINE p == IF ~req[r].retained /\ id \in Deps[r] THEN RetainNode(n) ELSE n
             v == Cardinality(Users(id)')
  <2>1. p \in NodeRec /\ (table'[id] = p \/ (id \in Deps[r] /\ table'[id] = BlockNode(p, r)))
    BY <1>0, <1>4, AdmittedNode
  <2>2. /\ Users(id)' = IF id \in Deps[r] THEN Users(id) \cup {r} ELSE Users(id)
        /\ r \in Users(id) <=> req[r].retained /\ id \in Deps[r]
    BY <1>0, <1>4, AdmittedUsers
  <2>3. v \in Nat /\ Exact(p, v)
    <3>1. CASE ~req[r].retained /\ id \in Deps[r]
      <4>1. v = u + 1
        BY <2>2, <3>1, UsersCount
      <4> QED
        BY <1>0, <3>1, <4>1, NodeExact
    <3>2. CASE ~(~req[r].retained /\ id \in Deps[r])
      <4>1. Users(id)' = Users(id)
        BY <2>2, <3>2
      <4> QED
        BY <1>0, <3>2, <4>1
    <3> QED
      BY <3>1, <3>2
  <2>4. id \in Deps[r] => p.st # "none"
    <3>1. id \in Deps[r] => v # 0
      <4>1. id \in Deps[r] => r \in Users(id)'
        BY <2>2
      <4>2. v = 0 => Users(id)' = {}
        <5>1. Users(id)' \subseteq Requests
          BY <2>2, UsersCount
        <5>2. IsFiniteSet(Users(id)')
          BY <5>1, FS_Subset, SetsAssumption
        <5> QED
          BY <5>2, FS_EmptySet
      <4> QED
        BY <4>1, <4>2
    <3> QED
      BY <2>3, <3>1 DEF Exact
  <2> HIDE DEF p, v
  <2>5. id \in Deps[r] => Exact(BlockNode(p, r), v)
    BY <2>1, <2>3, <2>4, NodeExact
  <2> QED
    BY <2>1, <2>3, <2>5 DEF v
<1>5. CASE Gone
  <2>1. table'[id] = NoNode /\ NoNode.st = "none"
    BY <1>5 DEF Gone, NoNode
  <2>2. Users(id)' = {}
    BY <1>5 DEF Gone, Users, Live, Ended
  <2>3. Cardinality({}) = 0
    BY FS_EmptySet
  <2> QED
    BY <2>1, <2>2, <2>3 DEF Exact
<1> QED
  BY <1>1, <1>2, <1>3, <1>4, <1>5, NextEffect DEF Effect

\* The counts, and the nodes of what is pinned.
LEMMA NextRefcounts ==
    ASSUME EInv, Disciplined, [Next]_vars
    PROVE  RefcountExact' /\ PinsOK'
<1>1. \A id \in Resources : table'[id].st # "none" =>
          table'[id].refcnt = table'[id].held + Cardinality(Users(id)')
  BY NextExact DEF Exact
<1>2. ASSUME NEW id \in Resources, table'[id].st = "none" PROVE Users(id)' = {}
  <2>1. Cardinality(Users(id)') = 0
    BY <1>2, NextExact DEF Exact
  <2>2. Users(id)' \subseteq Requests
    BY DEF Users
  <2>3. IsFiniteSet(Users(id)')
    BY <2>2, FS_Subset, SetsAssumption
  <2> QED
    BY <2>1, <2>3, FS_EmptySet
<1>3. RefcountExact'
  BY <1>1 DEF RefcountExact
<1>4. PinsOK'
  BY <1>2 DEF PinsOK
<1> QED
  BY <1>3, <1>4

----------------------------------------------------------------------------
(* The operations on their way, and the references they give back. *)

\* The lists of operations reverse and lose elements, but gain only what is posted.
LEMMA OldestOf ==
    ASSUME NEW S, NEW s \in Seq(S), Distinct(s)
    PROVE  Elements(Oldest(s)) = Elements(s) /\ Distinct(Oldest(s))
<1> DEFINE o == Oldest(s)
<1>1. /\ Len(s) \in Nat /\ DOMAIN s = 1..Len(s) /\ DOMAIN o = 1..Len(s)
      /\ \A i \in 1..Len(s) : o[i] = s[Len(s) + 1 - i]
  BY DEF Oldest
<1> HIDE DEF o
<1>2. \A i \in 1..Len(s) : Len(s) + 1 - i \in 1..Len(s) /\ Len(s) + 1 - (Len(s) + 1 - i) = i
  BY <1>1
<1>3. Elements(o) \subseteq Elements(s)
  BY <1>1, <1>2 DEF Elements
<1>4. Elements(s) \subseteq Elements(o)
  <2>1. \A i \in 1..Len(s) : s[i] = o[Len(s) + 1 - i]
    BY <1>1, <1>2
  <2> QED
    BY <1>1, <1>2, <2>1 DEF Elements
<1>5. Distinct(o)
  <2> SUFFICES ASSUME NEW i \in 1..Len(s), NEW j \in 1..Len(s), o[i] = o[j]
               PROVE  i = j
    BY <1>1 DEF Distinct
  <2>1. s[Len(s) + 1 - i] = s[Len(s) + 1 - j]
    BY <1>1
  <2>2. Len(s) + 1 - i = Len(s) + 1 - j
    BY <1>1, <1>2, <2>1 DEF Distinct
  <2> QED
    BY <1>1, <2>2
<1> QED
  BY <1>3, <1>4, <1>5 DEF o

\* The operations on their way, step by step.
LEMMA OpsFrom ==
    ASSUME EInv, [Next]_vars
    PROVE  \/ UNCHANGED <<inbox, work.ops>>
           \/ \E c \in todo : inbox' = <<c>> \o inbox /\ work'.ops = work.ops
                              /\ todo' = todo \ {c} /\ c \in OpRec
           \/ inbox' = << >> /\ UNCHANGED <<work.ops, todo>>
           \/ inbox' = << >> /\ work'.ops = Oldest(inbox) /\ todo' = todo
           \/ /\ work.ops # << >> /\ work'.ops = Tail(work.ops)
              /\ UNCHANGED <<inbox, todo>>
<1>0. work \in WorkRec
  BY Given DEF LocalTypes
<1>1. CASE \E c \in Calls : Call(c)
  <2> PICK c \in Calls : Call(c)
    BY <1>1
  <2>1. CASE Post(c)
    <3>1. c \in todo /\ c \in OpRec /\ todo' = todo \ {c}
      BY <2>1, CallsAssumption DEF Post, Makes, OpRec
    <3>2. inbox' = <<c>> \o inbox /\ work' = work
      BY <2>1 DEF Post, local
    <3> QED
      BY <3>1, <3>2
  <2>2. CASE DestroyLoop(c)
    BY <2>2, Zenon DEF DestroyLoop, Teardown, Crash, lists, local
  <2>3. CASE ~Post(c) /\ ~DestroyLoop(c)
    <3>1. UNCHANGED <<inbox, work>>
      BY <2>3 DEF Call, RequestSubmit, LoopSubmit, Enlist, Cancel, Inject, Stop, NodeCall,
            PublishCall, Run, lists, local
    <3> QED
      BY <3>1
  <2> QED
    BY <2>1, <2>2, <2>3
<1>2. CASE Top
  BY <1>2 DEF Top, local
<1>3. CASE Drain
  <2>1. inbox' = << >> /\ todo' = todo /\ work' = [work EXCEPT !.ops = Oldest(inbox)]
    BY <1>3 DEF Drain
  <2>2. work'.ops = Oldest(inbox)
    BY <1>0, <2>1 DEF WorkRec
  <2> QED
    BY <2>1, <2>2
<1>4. CASE ApplyOp
  <2>1. /\ work.ops # << >> /\ inbox' = inbox /\ todo' = todo
        /\ work' = [work EXCEPT !.ops = Tail(@)]
    BY <1>4 DEF ApplyOp, lists
  <2>2. work'.ops = Tail(work.ops)
    BY <1>0, <2>1 DEF WorkRec
  <2> QED
    BY <2>1, <2>2
<1>5. ASSUME work' = work \/ \E x : \/ work' = [work EXCEPT !.cancelled = x]
                                    \/ work' = [work EXCEPT !.pending = x]
                                    \/ work' = [work EXCEPT !.injected = x]
                                    \/ \E y : work' = [work EXCEPT !.cancelled = x,
                                                                   !.pending = y]
      PROVE  work'.ops = work.ops
  BY <1>0, <1>5 DEF WorkRec
<1>6. CASE Scheduler
  <2>1. inbox' = inbox
    BY <1>6 DEF Scheduler, Detach, CancelOne, CancelsDone, TakePending, DropCancelled, Admit,
          Launch, EnterRated, MoveRated, MergeRated, MoveWaiting, LeaveWaiting, Crash, lists
  <2>2. CASE Detach
    BY <1>5, <2>1, <2>2 DEF Detach
  <2>3. CASE CancelOne
    BY <1>5, <2>1, <2>3 DEF CancelOne, Crash, local
  <2>4. CASE TakePending
    BY <1>5, <2>1, <2>4 DEF TakePending
  <2>5. CASE ~Detach /\ ~CancelOne /\ ~TakePending
    <3>1. work' = work
      BY <1>6, <2>5 DEF Scheduler, CancelsDone, DropCancelled, Admit, Launch, EnterRated,
            MoveRated, MergeRated, MoveWaiting, LeaveWaiting, local
    <3> QED
      BY <2>1, <3>1
  <2> QED
    BY <2>1, <2>2, <2>3, <2>4, <2>5
<1>7. CASE Completions
  <2>1. inbox' = inbox
    BY <1>7 DEF Completions, CompleteOne, CompletionsDone, Finish429, FinishDelay,
          FinishRetry, FinishFinal, InjectedOne, InjectedDone, Finishes, Crash, lists
  <2>2. CASE CompletionsDone
    BY <1>5, <2>1, <2>2 DEF CompletionsDone
  <2>3. CASE InjectedOne
    BY <1>5, <2>1, <2>3 DEF InjectedOne
  <2>4. CASE ~CompletionsDone /\ ~InjectedOne
    <3>1. work' = work
      BY <1>7, <2>4 DEF Completions, CompleteOne, Finish429, FinishDelay, FinishRetry,
            FinishFinal, InjectedDone, Finishes, Crash, local
    <3> QED
      BY <2>1, <3>1
  <2> QED
    BY <2>2, <2>3, <2>4
<1>8. CASE \/ OpsDone \/ RequeueRead \/ RequeueWrite \/ FailWaiter \/ PublishEnd
           \/ UNCHANGED vars \/ OnLoop \/ PerformEnd \/ ExitTest \/ Wait \/ Tick
           \/ \E r \in Requests : TransferDone(r)
  <2>1. UNCHANGED <<inbox, work>>
    BY <1>8 DEF OpsDone, RequeueRead, RequeueWrite, FailWaiter, PublishEnd, Crash, vars,
          OnLoop, PerformEnd, ExitTest, Wait, Tick, TransferDone, lists, local
  <2> QED
    BY <2>1
<1> QED
  BY <1>1, <1>2, <1>3, <1>4, <1>6, <1>7, <1>8
  DEF Next, LoopStep, ResourceOps, Over

\* The operations on their way were posted, each once, and what is due was due.
LEMMA NextOps ==
    ASSUME EInv, [Next]_vars
    PROVE  OpsOK' /\ Due' \subseteq Due
<1> DEFINE I == Elements(inbox)
           O == Elements(work.ops)
<1>0. /\ inbox \in Seq(OpRec) /\ work.ops \in Seq(OpRec) /\ todo' \subseteq todo
      /\ todo \subseteq Calls
  BY Given, TodoShrinks DEF ListTypes, LocalTypes, WorkRec, IInv, TypeOK, ControlTypes
<1>1. /\ I \cup O \subseteq Calls \ todo /\ I \cap O = {}
      /\ Distinct(inbox) /\ Distinct(work.ops)
  BY DEF EInv, RefsInv, OpsOK
<1>2. Elements(<< >>) = {} /\ Distinct(<< >>)
  BY DEF Elements, Distinct
<1> HIDE DEF I, O
<1>3. ASSUME Elements(inbox') \cup Elements(work'.ops) \subseteq Calls \ todo',
             Elements(inbox') \cap Elements(work'.ops) = {},
             Distinct(inbox'), Distinct(work'.ops),
             Elements(inbox') \cup Elements(work'.ops) \subseteq I \cup O \cup todo
      PROVE  OpsOK' /\ Due' \subseteq Due
  <2>1. Due = todo \cup I \cup O
    BY DEF Due, I, O
  <2>2. Due' = todo' \cup Elements(inbox') \cup Elements(work'.ops)
    BY DEF Due
  <2>3. OpsOK'
    BY <1>3 DEF OpsOK
  <2> QED
    BY <1>0, <1>3, <2>1, <2>2, <2>3
<1>4. CASE UNCHANGED <<inbox, work.ops>>
  <2>1. Elements(inbox') = I /\ Elements(work'.ops) = O
        /\ Distinct(inbox') /\ Distinct(work'.ops)
    BY <1>1, <1>4 DEF I, O
  <2> QED
    BY <1>0, <1>1, <1>3, <2>1
<1>5. ASSUME NEW c \in todo, inbox' = <<c>> \o inbox, work'.ops = work.ops,
             todo' = todo \ {c}, c \in OpRec
      PROVE  OpsOK' /\ Due' \subseteq Due
  <2>1. Elements(inbox') = {c} \cup I
    BY <1>0, <1>5, ElementsOf DEF I
  <2>2. Elements(work'.ops) = O /\ Distinct(work'.ops)
    BY <1>1, <1>5 DEF O
  <2>3. Distinct(inbox')
    <3>1. c \notin Elements(inbox)
      BY <1>1 DEF I
    <3> QED
      BY <1>0, <1>1, <1>5, <3>1, DistinctOf
  <2> QED
    BY <1>0, <1>1, <1>3, <1>5, <2>1, <2>2, <2>3
<1>6. CASE inbox' = << >> /\ UNCHANGED <<work.ops, todo>>
  <2>1. Elements(inbox') = {} /\ Elements(work'.ops) = O
        /\ Distinct(inbox') /\ Distinct(work'.ops)
    BY <1>1, <1>2, <1>6 DEF O
  <2> QED
    BY <1>0, <1>1, <1>3, <1>6, <2>1
<1>7. CASE inbox' = << >> /\ work'.ops = Oldest(inbox) /\ todo' = todo
  <2>1. Elements(work'.ops) = I /\ Distinct(work'.ops)
    BY <1>0, <1>1, <1>7, OldestOf DEF I
  <2>2. Elements(inbox') = {} /\ Distinct(inbox')
    BY <1>2, <1>7
  <2> QED
    BY <1>0, <1>1, <1>3, <1>7, <2>1, <2>2
<1>8. CASE work.ops # << >> /\ work'.ops = Tail(work.ops) /\ UNCHANGED <<inbox, todo>>
  <2>1. Distinct(work'.ops) /\ Elements(work'.ops) = O \ {Head(work.ops)}
    BY <1>0, <1>1, <1>8, DistinctOf DEF O
  <2>2. Elements(inbox') = I /\ Distinct(inbox')
    BY <1>1, <1>8 DEF I
  <2> QED
    BY <1>0, <1>1, <1>3, <1>8, <2>1, <2>2
<1> QED
  BY <1>4, <1>5, <1>6, <1>7, <1>8, OpsFrom

\* What is due to be given back is kept until then.
LEMMA NextOwed ==
    ASSUME EInv, Disciplined, [Next]_vars
    PROVE  OwedOK'
<1> SUFFICES ASSUME pc' # "destroyed", NEW c \in Due', c.op \in GivesBack
             PROVE  Held(table'[c.on])
  BY DEF OwedOK, Held
<1> DEFINE id == c.on
<1>0. /\ c \in Due /\ c \in Calls /\ id \in Resources /\ pc # "destroyed"
      /\ table \in [Resources -> NodeRec] /\ table[id] \in NodeRec
      /\ req \in [Requests -> RequestRec]
  <2>1. c \in Due
    BY NextOps
  <2>2. c \in Calls
    BY <2>1, Given DEF EInv, RefsInv, OpsOK, Due, IInv, TypeOK, ControlTypes
  <2>3. id \in Resources
    BY <2>2, CallsAssumption DEF GivesBack, ThreadSafe, LoopThread
  <2>4. pc # "destroyed"
    BY OverStill
  <2> QED
    BY <2>1, <2>2, <2>3, <2>4, Given
<1>1. Held(table[id])
  BY <1>0 DEF EInv, RefsInv, OwedOK, Held
<1> HIDE DEF id
<1>2. CASE table' = table
  BY <1>1, <1>2 DEF id
<1>3. CASE \E x \in Resources : NodeStep(x)
  <2>1. PICK x \in Resources : NodeStep(x)
    BY <1>3
  <2>2. CASE x # id
    <3>1. table'[id] = table[id]
      BY <1>0, <2>1, <2>2 DEF NodeStep
    <3> QED
      BY <1>1, <3>1 DEF id
  <2>3. CASE x = id
    <3>1. ~GivenBack(id)
      BY <1>0, GivenHeld DEF id
    <3>2. PICK p : /\ table' = [table EXCEPT ![id] = p]
                   /\ \/ p = AddRefNode(table[id]) \/ p = AutoNode(table[id])
                      \/ \E ok, own \in BOOLEAN : p = PublishNode(table[id], ok, own)
      BY <2>1, <2>3, <3>1 DEF NodeStep
    <3>3. Held(p)
      BY <1>0, <1>1, <3>2, NodeHeld
    <3>4. table'[id] = p
      BY <1>0, <3>2
    <3> QED
      BY <3>3, <3>4 DEF id
  <2> QED
    BY <2>2, <2>3
<1>4. ASSUME NEW r \in Requests, Dies(r) PROVE Held(table'[id])
  <2>1. ~table[id].auto
    <3>1. table[id].auto => \E d \in Calls \ todo : d.op = "autorelease" /\ d.on = id
      BY <1>0 DEF EInv, RefsInv, AutoOK
    <3>2. \A d \in Calls : d.op \in GivesBack /\ d.on = id => d = c
      BY <1>0 DEF Disciplined, OwnersRelease, id
    <3>3. table[id].auto => c.op = "autorelease" /\ c \notin todo
      BY <3>1, <3>2 DEF GivesBack
    <3>4. c \notin todo => c \in OpRec
      <4>1. Elements(inbox) \subseteq OpRec /\ Elements(work.ops) \subseteq OpRec
        BY Given, ElementsOf DEF ListTypes, LocalTypes, WorkRec
      <4> QED
        BY <1>0, <4>1 DEF Due
    <3> QED
      BY <3>3, <3>4 DEF OpRec, ThreadSafe
  <2>2. table'[id] = table[id] \/ table'[id] = DropDep(table[id])
    BY <1>0, <1>4 DEF Dies, ReleaseDeps
  <2>3. Held(DropDep(table[id]))
    BY <1>0, <1>1, <2>1, NodeHeld
  <2> QED
    BY <1>1, <2>2, <2>3
<1>5. ASSUME NEW r \in Requests, Admits(r) PROVE Held(table'[id])
  <2> DEFINE p == IF ~req[r].retained /\ id \in Deps[r] THEN RetainNode(table[id])
                                                         ELSE table[id]
  <2>1. p \in NodeRec /\ (table'[id] = p \/ table'[id] = BlockNode(p, r))
    BY <1>0, <1>5, AdmittedNode
  <2>2. Held(p)
    BY <1>0, <1>1, NodeHeld
  <2> HIDE DEF p
  <2>3. Held(BlockNode(p, r))
    BY <2>1, <2>2, NodeHeld
  <2> QED
    BY <2>1, <2>2, <2>3
<1>6. ~Gone
  BY DEF Gone
<1> QED
  BY <1>2, <1>3, <1>4, <1>5, <1>6, NextEffect DEF Effect, id

\* An owner that asked for an automatic release keeps its reference until then.
LEMMA NextAuto ==
    ASSUME EInv, Disciplined, [Next]_vars
    PROVE  AutoOK'
<1> SUFFICES ASSUME NEW id \in Resources, table'[id].auto
             PROVE  /\ Held(table'[id])
                    /\ \E c \in Calls \ todo' : c.op = "autorelease" /\ c.on = id
  BY DEF AutoOK, Held
<1>0. /\ todo' \subseteq todo /\ todo \subseteq Calls
      /\ table \in [Resources -> NodeRec] /\ table[id] \in NodeRec
      /\ req \in [Requests -> RequestRec]
  BY TodoShrinks, Given DEF IInv, TypeOK, ControlTypes
<1>1. ASSUME table[id].auto
      PROVE  /\ Held(table[id])
             /\ \E c \in Calls \ todo' : c.op = "autorelease" /\ c.on = id
  BY <1>0, <1>1 DEF EInv, RefsInv, AutoOK, Held
<1>2. CASE table'[id] = table[id]
  BY <1>1, <1>2
<1>3. CASE \E x \in Resources : NodeStep(x)
  <2>1. PICK x \in Resources : NodeStep(x)
    BY <1>3
  <2>2. CASE x # id
    <3>1. table'[id] = table[id]
      BY <1>0, <2>1, <2>2 DEF NodeStep
    <3> QED
      BY <1>2, <3>1
  <2>3. CASE x = id /\ pc = "destroyed"
    BY <1>2, <2>3, OverStill
  <2>4. CASE x = id /\ pc # "destroyed"
    <3>1. PICK p : /\ table' = [table EXCEPT ![id] = p]
                   /\ \/ p = ReleaseNode(table[id]) /\ GivenBack(id)
                      \/ p = AddRefNode(table[id])
                      \/ p = AutoNode(table[id])
                         /\ \E c \in todo : c \notin todo' /\ c.op = "autorelease" /\ c.on = id
                      \/ \E ok, own \in BOOLEAN : p = PublishNode(table[id], ok, own)
      BY <2>1, <2>4 DEF NodeStep
    <3>2. table'[id] = p
      BY <1>0, <3>1
    <3>3. CASE p = ReleaseNode(table[id]) /\ GivenBack(id)
      <4>1. ~table[id].auto
        BY <2>4, <3>3, GivenHeld
      <4>2. ~ReleaseNode(table[id]).auto
        BY <1>0, <4>1 DEF ReleaseNode, NoNode, NodeRec
      <4> QED
        BY <3>2, <3>3, <4>2
    <3>4. CASE p = AutoNode(table[id])
               /\ \E c \in todo : c \notin todo' /\ c.op = "autorelease" /\ c.on = id
      <4>1. PICK c \in todo : c \notin todo' /\ c.op = "autorelease" /\ c.on = id
        BY <3>4
      <4>2. c \in Due /\ c.op \in GivesBack
        BY <4>1 DEF Due, GivesBack
      <4>3. Held(table[id])
        BY <2>4, <4>1, <4>2 DEF EInv, RefsInv, OwedOK, Held
      <4>4. Held(AutoNode(table[id]))
        BY <1>0, <4>3, NodeHeld
      <4> QED
        BY <1>0, <3>2, <3>4, <4>1, <4>4
    <3>5. CASE \/ p = AddRefNode(table[id])
               \/ \E ok, own \in BOOLEAN : p = PublishNode(table[id], ok, own)
      <4>1. table[id].auto
        <5>1. GetOrCreate(table[id]).auto => table[id].auto
          BY <1>0 DEF GetOrCreate, NoNode
        <5>2. GetOrCreate(table[id]) \in NodeRec
          BY <1>0, NodeOps
        <5>3. AddRefNode(table[id]).auto = GetOrCreate(table[id]).auto
          BY <5>2 DEF AddRefNode, NodeRec
        <5>4. \A ok, own \in BOOLEAN :
                  PublishNode(table[id], ok, own).auto = GetOrCreate(table[id]).auto
          BY <5>2 DEF PublishNode, NodeRec
        <5> QED
          BY <3>2, <3>5, <5>1, <5>3, <5>4
      <4>2. Held(p)
        BY <1>0, <1>1, <3>5, <4>1, NodeHeld
      <4> QED
        BY <1>1, <3>2, <4>1, <4>2
    <3> QED
      BY <3>1, <3>3, <3>4, <3>5
  <2> QED
    BY <2>2, <2>3, <2>4
<1>4. ASSUME NEW r \in Requests, Dies(r), table'[id] # table[id]
      PROVE  /\ Held(table'[id])
             /\ \E c \in Calls \ todo' : c.op = "autorelease" /\ c.on = id
  <2>1. table'[id] = DropDep(table[id])
    BY <1>0, <1>4 DEF Dies, ReleaseDeps
  <2>2. ~NoNode.auto
    BY DEF NoNode
  <2>3. /\ DropDep(table[id]).auto = table[id].auto
        /\ DropDep(table[id]).held = table[id].held /\ DropDep(table[id]).st = table[id].st
    BY <1>0, <2>1, <2>2, NodeHeld
  <2>4. table[id].auto
    BY <2>1, <2>3
  <2> QED
    BY <1>1, <2>1, <2>3, <2>4 DEF Held
<1>5. ASSUME NEW r \in Requests, Admits(r)
      PROVE  /\ Held(table'[id])
             /\ \E c \in Calls \ todo' : c.op = "autorelease" /\ c.on = id
  <2> DEFINE p == IF ~req[r].retained /\ id \in Deps[r] THEN RetainNode(table[id])
                                                         ELSE table[id]
  <2>1. p \in NodeRec /\ (table'[id] = p \/ table'[id] = BlockNode(p, r))
    BY <1>0, <1>5, AdmittedNode
  <2>2. p.auto => table[id].auto
    <3>1. GetOrCreate(table[id]) \in NodeRec
      BY <1>0, NodeOps
    <3>2. RetainNode(table[id]).auto = GetOrCreate(table[id]).auto
      BY <3>1 DEF RetainNode, NodeRec
    <3>3. GetOrCreate(table[id]).auto => table[id].auto
      BY <1>0 DEF GetOrCreate, NoNode
    <3> QED
      BY <3>2, <3>3
  <2>3. Held(table[id]) => Held(p)
    BY <1>0, NodeHeld
  <2> HIDE DEF p
  <2>4. BlockNode(p, r).auto => p.auto
    <3>1. GetOrCreate(p) \in NodeRec
      BY <2>1, NodeOps
    <3>2. BlockNode(p, r).auto = GetOrCreate(p).auto
      BY <3>1 DEF BlockNode, NodeRec
    <3>3. GetOrCreate(p).auto => p.auto
      BY <2>1 DEF GetOrCreate, NoNode
    <3> QED
      BY <3>2, <3>3
  <2>5. table[id].auto
    BY <2>1, <2>2, <2>4
  <2>6. Held(BlockNode(p, r))
    BY <1>1, <2>1, <2>3, <2>5, NodeHeld
  <2> QED
    BY <1>1, <2>1, <2>3, <2>5, <2>6
<1>6. ~Gone
  <2>1. Gone => ~table'[id].auto
    BY DEF Gone, NoNode
  <2> QED
    BY <2>1
<1> QED
  BY <1>2, <1>3, <1>4, <1>5, <1>6, NextEffect DEF Effect

----------------------------------------------------------------------------
(* Who has pinned what. *)

\* A request that lives on keeps what it has pinned.
LEMMA RetainedKept ==
    ASSUME req \in [Requests -> RequestRec], Effect, NEW r \in LiveOnes', req[r].retained
    PROVE  req'[r].retained
<1>1. r \in Requests /\ req'[r].life = "live"
  BY DEF LiveOnes, Live
<1>2. CASE Quiet
  BY <1>1, <1>2 DEF Quiet
<1>3. ASSUME NEW x \in Requests, Dies(x) PROVE req'[r].retained
  BY <1>1, <1>3 DEF Dies, Ended
<1>4. ASSUME NEW x \in Requests, Admits(x) PROVE req'[r].retained
  <2> DEFINE q == [req[x] EXCEPT !.retained = @ \/ Deps[x] # {}]
  <2>1. req' = [req EXCEPT ![x] = q]
    BY <1>4 DEF Admits
  <2>2. x = r => q.retained
    BY <1>1 DEF RequestRec
  <2> HIDE DEF q
  <2> QED
    BY <1>1, <2>1, <2>2
<1>5. CASE Gone
  BY <1>1, <1>5 DEF Gone, Ended
<1> QED
  BY <1>2, <1>3, <1>4, <1>5 DEF Effect

\* Who is in a place lives.
LEMMA PlacesLive ==
    ASSUME PlacesOK
    PROVE  /\ \A k \in Maps : map[k] \subseteq LiveOnes
           /\ Elements(pending) \subseteq LiveOnes /\ Elements(work.pending) \subseteq LiveOnes
           /\ Elements(injected) \subseteq LiveOnes
           /\ Elements(work.injected) \subseteq LiveOnes
           /\ Elements(pub.waiters) \subseteq LiveOnes
           /\ cur.req \in Requests => cur.req \in LiveOnes
           /\ \A id \in Resources : Elements(table[id].blocked) \subseteq LiveOnes
<1>1. Partition(Spread(map, Listed, table), LiveOnes)
  BY DEF PlacesOK, Contents
<1>2. /\ \A k \in Maps : map[k] \subseteq LiveOnes
      /\ \A x \in Lists : Listed[x] \subseteq LiveOnes
      /\ \A id \in Resources : Elements(table[id].blocked) \subseteq LiveOnes
  BY <1>1, Apart
<1>3. cur.req \in Requests => cur.req \in {cur.req} \ {None}
  BY SetsAssumption
<1> QED
  BY <1>2, <1>3, ListedAt DEF Lists

\* The same after a step.
LEMMA PlacesLiveNext ==
    ASSUME PlacesOK'
    PROVE  /\ \A k \in Maps : map'[k] \subseteq LiveOnes'
           /\ Elements(injected') \subseteq LiveOnes'
           /\ Elements(work'.injected) \subseteq LiveOnes'
           /\ Elements(pub'.waiters) \subseteq LiveOnes'
           /\ cur'.req \in Requests => cur'.req \in LiveOnes'
           /\ \A id \in Resources : Elements(table'[id].blocked) \subseteq LiveOnes'
<1>1. Partition(Spread(map', Listed', table'), LiveOnes')
  BY DEF PlacesOK, Contents
<1>2. /\ \A k \in Maps : map'[k] \subseteq LiveOnes'
      /\ \A x \in Lists : Listed'[x] \subseteq LiveOnes'
      /\ \A id \in Resources : Elements(table'[id].blocked) \subseteq LiveOnes'
  BY <1>1, Apart
<1>3. cur'.req \in Requests => cur'.req \in {cur'.req} \ {None}
  BY SetsAssumption
<1>4. /\ Listed'["injected"] = Elements(injected')
      /\ Listed'["detached"] = Elements(work'.injected)
      /\ Listed'["woken"] = Elements(pub'.waiters) /\ Listed'["hand"] = {cur'.req} \ {None}
  BY DEF Listed, Lists
<1> QED
  BY <1>2, <1>3, <1>4 DEF Lists

\* The waiters a publication has detached, step by step.
LEMMA WokenFrom ==
    ASSUME EInv, [Next]_vars
    PROVE  \/ pub'.waiters = pub.waiters /\ pub'.id = pub.id
           \/ pub.waiters # << >> /\ pub'.waiters = Tail(pub.waiters) /\ pub'.id = pub.id
           \/ pub'.waiters = << >>
           \/ \E id \in Resources : pub'.waiters = table[id].blocked /\ pub'.id = id
<1>0. pub \in PubRec /\ work \in WorkRec /\ msgs \in Seq(MsgRec)
  BY Given DEF LocalTypes, SchedTypes
<1>1. ASSUME NEW id \in Resources, NEW ok, NEW own, NEW back, BeginPublish(id, ok, own, back)
      PROVE  \E x \in Resources : pub'.waiters = table[x].blocked /\ pub'.id = x
  BY <1>1 DEF BeginPublish
<1>2. CASE \E c \in Calls : Call(c)
  <2> PICK c \in Calls : Call(c)
    BY <1>2
  <2>1. CASE PublishCall(c)
    <3>1. c.on \in Resources /\ BeginPublish(c.on, c.ok, c.op = "register", pc)
      BY <2>1, CallsAssumption DEF PublishCall, Makes, LoopThread
    <3> QED
      BY <1>1, <3>1
  <2>2. CASE DestroyLoop(c)
    <3>1. pub' = pub
      BY <2>2, Zenon DEF DestroyLoop, Teardown, Crash, local
    <3> QED
      BY <3>1
  <2>3. CASE ~PublishCall(c) /\ ~DestroyLoop(c)
    <3>1. pub' = pub
      BY <2>3 DEF Call, RequestSubmit, LoopSubmit, Enlist, Cancel, Inject, Stop, Post,
            NodeCall, Run, local
    <3> QED
      BY <3>1
  <2> QED
    BY <2>1, <2>2, <2>3
<1>3. CASE CompleteOne
  <2> DEFINE m == Head(msgs)
  <2>1. m.req \in Requests
    <3>1. m \in MsgRec
      BY <1>0, <1>3 DEF CompleteOne
    <3> QED
      BY <3>1 DEF MsgRec
  <2>2. \/ pub' = pub
        \/ /\ Publishes[m.req] # None
           /\ BeginPublish(Publishes[m.req], m.result = "ok", FALSE, "finish")
    BY <1>3 DEF CompleteOne, Signals
  <2>3. Publishes[m.req] # None => Publishes[m.req] \in Resources
    BY <2>1, RequestsAssumption
  <2> QED
    BY <1>1, <2>2, <2>3
<1>4. CASE InjectedOne
  <2> DEFINE r == Head(work.injected)
  <2>1. r \in Requests
    BY <1>0, <1>4 DEF InjectedOne, WorkRec
  <2>2. \/ pub' = pub
        \/ Publishes[r] # None /\ BeginPublish(Publishes[r], TRUE, FALSE, "injected")
    BY <1>4 DEF InjectedOne
  <2>3. Publishes[r] # None => Publishes[r] \in Resources
    BY <2>1, RequestsAssumption
  <2> QED
    BY <1>1, <2>2, <2>3
<1>5. CASE ApplyOp
  <2> DEFINE c == Head(work.ops)
  <2>1. c.on \in Resources
    <3>1. c \in OpRec
      BY <1>0, <1>5 DEF ApplyOp, WorkRec
    <3> QED
      BY <3>1 DEF OpRec
  <2>2. pub' = pub \/ BeginPublish(c.on, c.ok, c.op = "register_async", "ops")
    BY <1>5 DEF ApplyOp
  <2> QED
    BY <1>1, <2>1, <2>2
<1>6. CASE RequeueRead
  <2>1. pub' = [pub EXCEPT !.snap = pending]
    BY <1>6 DEF RequeueRead
  <2> QED
    BY <1>0, <2>1 DEF PubRec
<1>7. CASE RequeueWrite
  <2>1. pub' = [pub EXCEPT !.waiters = Tail(@), !.snap = << >>] /\ pc = "requeue"
    BY <1>7 DEF RequeueWrite
  <2>2. pub.waiters # << >>
    BY <2>1, Given DEF HandsOK
  <2>3. pub'.waiters = Tail(pub.waiters) /\ pub'.id = pub.id
    BY <1>0, <2>1 DEF PubRec
  <2> QED
    BY <2>2, <2>3
<1>8. CASE FailWaiter
  <2>1. pub.waiters # << >> /\ (pub' = pub \/ pub' = [pub EXCEPT !.waiters = Tail(@)])
    BY <1>8 DEF FailWaiter, Crash, local
  <2> QED
    BY <1>0, <2>1 DEF PubRec
<1>9. CASE PublishEnd
  BY <1>9 DEF PublishEnd, NoPub
<1>10. CASE Scheduler
  BY <1>10 DEF Scheduler, Detach, CancelOne, CancelsDone, TakePending, DropCancelled, Admit,
        Launch, EnterRated, MoveRated, MergeRated, MoveWaiting, LeaveWaiting, Crash, local
<1>11. CASE \/ CompletionsDone \/ Finish429 \/ FinishDelay \/ FinishRetry \/ FinishFinal
            \/ InjectedDone \/ Drain \/ OpsDone \/ UNCHANGED vars \/ Top \/ OnLoop
            \/ PerformEnd \/ ExitTest \/ Wait \/ Tick \/ \E r \in Requests : TransferDone(r)
  BY <1>11 DEF CompletionsDone, Finish429, FinishDelay, FinishRetry, FinishFinal, Finishes,
        Crash, InjectedDone, Drain, OpsDone, vars, Top, OnLoop, PerformEnd, ExitTest, Wait,
        Tick, TransferDone, local
<1> QED
  BY <1>2, <1>3, <1>4, <1>5, <1>6, <1>7, <1>8, <1>9, <1>10, <1>11
  DEF Next, LoopStep, Completions, ResourceOps, Over

\* A request that waits for a resource, or was just woken, has pinned it.
LEMMA NextWaitersPin ==
    ASSUME EInv, Disciplined, [Next]_vars
    PROVE  WaitersPin'
<1>0. /\ Effect /\ PlacesOK' /\ req \in [Requests -> RequestRec]
      /\ table \in [Resources -> NodeRec] /\ pub \in PubRec /\ WaitersPin
  BY NextEffect, NextPlaces, Given DEF LocalTypes, EInv, RefsInv
<1>1. ASSUME NEW id \in Resources, NEW r \in Elements(table'[id].blocked)
      PROVE  req'[r].retained /\ id \in Deps[r]
  <2>1. r \in LiveOnes'
    BY <1>0, <1>1, PlacesLiveNext
  <2>2. CASE r \in Elements(table[id].blocked)
    <3>1. req[r].retained /\ id \in Deps[r]
      BY <1>0, <2>2 DEF WaitersPin
    <3> QED
      BY <1>0, <2>1, <3>1, RetainedKept
  <2>3. CASE r \notin Elements(table[id].blocked)
    <3>1. table'[id].blocked # << >>
      BY <1>1 DEF Elements
    <3>2. /\ cur.req \in Requests /\ id \in Deps[cur.req]
          /\ req' = [req EXCEPT ![cur.req].retained = @ \/ Deps[cur.req] # {}]
          /\ table'[id].blocked = Append(table[id].blocked, cur.req)
      BY <1>0, <1>1, <2>3, <3>1, NextBlocked
    <3>3. r = cur.req
      <4>1. table[id].blocked \in Seq(Requests)
        BY <1>0 DEF NodeRec
      <4>2. Elements(Append(table[id].blocked, cur.req))
                = {cur.req} \cup Elements(table[id].blocked)
        BY <3>2, <4>1, ElementsAppend
      <4> QED
        BY <1>1, <2>3, <3>2, <4>2
    <3> DEFINE q == [req[r] EXCEPT !.retained = @ \/ Deps[r] # {}]
    <3>4. q.retained
      BY <1>0, <3>2, <3>3 DEF RequestRec
    <3>5. req' = [req EXCEPT ![r] = q]
      BY <3>2, <3>3
    <3> HIDE DEF q
    <3>6. req'[r] = q
      BY <1>0, <3>2, <3>3, <3>5
    <3> QED
      BY <3>2, <3>3, <3>4, <3>6
  <2> QED
    BY <2>2, <2>3
<1>2. ASSUME NEW r \in Elements(pub'.waiters) PROVE req'[r].retained /\ pub'.id \in Deps[r]
  <2>1. r \in LiveOnes'
    BY <1>0, <1>2, PlacesLiveNext
  <2>2. pub.waiters \in Seq(Requests)
    BY <1>0 DEF PubRec
  <2>3. req[r].retained /\ pub'.id \in Deps[r]
    <3>1. CASE r \in Elements(pub.waiters) /\ pub'.id = pub.id
      BY <1>0, <3>1 DEF WaitersPin
    <3>2. ASSUME NEW id \in Resources, pub'.waiters = table[id].blocked, pub'.id = id
          PROVE  req[r].retained /\ pub'.id \in Deps[r]
      BY <1>0, <1>2, <3>2 DEF WaitersPin
    <3>3. CASE pub'.waiters = << >>
      BY <1>2, <3>3 DEF Elements
    <3>4. pub.waiters # << >> => Elements(Tail(pub.waiters)) \subseteq Elements(pub.waiters)
      BY <2>2, ElementsOf
    <3> QED
      BY <1>2, <3>1, <3>2, <3>3, <3>4, WokenFrom
  <2> QED
    BY <1>0, <2>1, <2>3, RetainedKept
<1> QED
  BY <1>1, <1>2 DEF WaitersPin

\* Where the request comes from that enters a map.
LEMMA MapsFrom ==
    ASSUME EInv, [Next]_vars, NEW k \in Maps, NEW r \in map'[k]
    PROVE  (\E j \in Maps : r \in map[j]) \/ (r = cur.req /\ pc \in {"launch", "finish"})
<1>0. map \in [Maps -> SUBSET Requests] /\ "rated" \in Maps /\ "root" \in Maps
      /\ "queued" \in Maps /\ "refresh" \in Maps /\ "inactive" \in Maps
  BY Given DEF Maps
<1> DEFINE Fine(s) == (\E j \in Maps : s \in map[j]) \/ (s = cur.req /\ pc \in {"launch", "finish"})
<1> SUFFICES Fine(r)
  OBVIOUS
<1>1. ASSUME NEW m \in [Maps -> SUBSET Requests], NEW s, Fine(s), NEW j, map' = Put(m, j, s),
             \A x \in Maps : m[x] \subseteq map[x]
      PROVE  Fine(r)
  <2>1. r \in m[k] \/ r = s
    BY <1>1 DEF Put
  <2> QED
    BY <1>1, <2>1
<1>2. ASSUME NEW m \in [Maps -> SUBSET Requests], map' = m,
             \A x \in Maps : m[x] \subseteq map[x]
      PROVE  Fine(r)
  BY <1>2
<1>3. ASSUME NEW m \in [Maps -> SUBSET Requests], NEW s, Fine(s), NEW n, Start(s, m, n),
             \A x \in Maps : m[x] \subseteq map[x]
      PROVE  Fine(r)
  BY <1>1, <1>2, <1>3 DEF Start, StartRated, StartUnprepared, StartTransfer
<1>4. \A j \in Maps : \A s : /\ Take(map, j, s) \in [Maps -> SUBSET Requests]
                             /\ \A x \in Maps : Take(map, j, s)[x] \subseteq map[x]
  BY <1>0 DEF Take
<1>s. \A x \in Maps : map[x] \subseteq map[x]
  OBVIOUS
<1> HIDE DEF Fine
<1>5. CASE map' = map
  BY <1>5 DEF Fine
<1>6. CASE CancelOne \/ CompleteOne
  <2>1. map' = map \/ \E j \in Maps : \E s : map' = Take(map, j, s)
    BY <1>0, <1>6 DEF CancelOne, CompleteOne, CancelledFrom, Home, Crash, sched
  <2> QED
    BY <1>2, <1>4, <1>5, <2>1
<1>7. CASE Launch
  <2>1. Fine(cur.req)
    BY <1>7 DEF Launch, Fine
  <2>2. Start(cur.req, map, num) \/ \E j : map' = Put(map, j, cur.req)
    BY <1>7 DEF Launch
  <2> QED
    BY <1>0, <1>s, <1>1, <1>3, <2>1, <2>2
<1>8. CASE EnterRated \/ MergeRated
  <2>1. map'[k] \subseteq UNION {map[x] : x \in Maps}
    <3>1. CASE EnterRated
      <4>1. map'[k] = map[k] \/ map'[k] = map["rated"] \/ map'[k] = {}
        BY <1>0, <3>1 DEF EnterRated
      <4> QED
        BY <1>0, <4>1
    <3>2. CASE MergeRated
      <4>1. map'[k] = map[k] \/ map'[k] = map["rated"] \cup map["root"] \/ map'[k] = {}
        BY <1>0, <3>2 DEF MergeRated
      <4> QED
        BY <1>0, <4>1
    <3> QED
      BY <1>8, <3>1, <3>2
  <2> QED
    BY <2>1 DEF Fine
<1>9. ASSUME NEW j \in Maps, NEW s \in Firsts(j), NEW n,
             Limit(s, j, n) \/ Start(s, Take(map, j, s), n)
      PROVE  Fine(r)
  <2>1. Fine(s)
    BY <1>9 DEF Firsts, Fine
  <2>2. \/ map' = Put(Take(map, j, s), "rated", s)
        \/ Start(s, Take(map, j, s), n)
    BY <1>9 DEF Limit
  <2> DEFINE m == Take(map, j, s)
  <2>3. m \in [Maps -> SUBSET Requests] /\ \A x \in Maps : m[x] \subseteq map[x]
    BY <1>4
  <2>4. map' = Put(m, "rated", s) \/ Start(s, m, n)
    BY <2>2
  <2> HIDE DEF m
  <2> QED
    BY <1>1, <1>3, <2>1, <2>3, <2>4
<1>10. CASE MoveRated
  <2>1. \E s \in Firsts("root") : \E n : Limit(s, "root", n) \/ Start(s, Take(map, "root", s), n)
    BY <1>10 DEF MoveRated
  <2> QED
    BY <1>0, <1>9, <2>1
<1>11. ASSUME NEW j \in {"refresh", "inactive"}, MoveWaiting(j) PROVE Fine(r)
  <2>1. j \in Maps /\ \E s \in Firsts(j) : \E n : Limit(s, j, n) \/ Start(s, Take(map, j, s), n)
    BY <1>0, <1>11 DEF MoveWaiting
  <2> QED
    BY <1>9, <2>1
<1>12. CASE Finish429 \/ FinishDelay \/ FinishRetry \/ FinishFinal
  <2>1. CASE map' = map
    BY <1>5, <2>1
  <2>2. CASE map' # map
    <3>1. pc = "finish" /\ \E j : map' = Put(map, j, cur.req)
      BY <1>12, <2>2 DEF Finish429, FinishDelay, FinishRetry, RetryLater, FinishFinal,
            Finishes, Requeue, Destroy, Crash, sched
    <3>2. Fine(cur.req)
      BY <3>1 DEF Fine
    <3> QED
      BY <1>0, <1>s, <1>1, <3>1, <3>2
  <2> QED
    BY <2>1, <2>2
<1>13. CASE \E c \in Calls : Call(c)
  <2> PICK c \in Calls : Call(c)
    BY <1>13
  <2>1. CASE Teardown
    <3>1. map' = [x \in Maps |-> {}]
      BY <2>1, Zenon DEF Teardown
    <3> QED
      BY <3>1
  <2>2. CASE ~Teardown
    <3>1. map' = map
      BY <2>2 DEF Call, RequestSubmit, LoopSubmit, Enlist, Cancel, Inject, Stop, Post,
            NodeCall, PublishCall, Run, DestroyLoop, Crash, sched
    <3> QED
      BY <1>5, <3>1
  <2> QED
    BY <2>1, <2>2
<1>14. CASE \/ Detach \/ CancelsDone \/ TakePending \/ DropCancelled \/ Admit
            \/ LeaveWaiting("refresh", "inactive") \/ LeaveWaiting("inactive", "perform")
            \/ CompletionsDone \/ InjectedOne \/ InjectedDone \/ ResourceOps
            \/ UNCHANGED vars \/ Top \/ OnLoop \/ PerformEnd \/ ExitTest \/ Wait \/ Tick
            \/ \E s \in Requests : TransferDone(s)
  <2>1. map' = map
    BY <1>14 DEF Detach, CancelsDone, TakePending, DropCancelled, Admit, LeaveWaiting,
          CompletionsDone, InjectedOne, InjectedDone, ResourceOps, Drain, ApplyOp, OpsDone,
          RequeueRead, RequeueWrite, FailWaiter, PublishEnd, Crash, vars, Top, OnLoop,
          PerformEnd, ExitTest, Wait, Tick, TransferDone, sched
  <2> QED
    BY <1>5, <2>1
<1> QED
  BY <1>6, <1>7, <1>8, <1>10, <1>11, <1>12, <1>13, <1>14
  DEF Next, LoopStep, Scheduler, Completions, Over, Fine

\* Where the request comes from that the loop thread has answered or will launch.
LEMMA HandFrom ==
    ASSUME EInv, [Next]_vars, pc' \in {"launch", "finish"} \/ Publishing("finish")'
    PROVE  \/ cur' = cur /\ (pc \in {"launch", "finish"} \/ Publishing("finish"))
           \/ Admit /\ cur' = cur
           \/ CompleteOne
<1>0. pub \in PubRec /\ pub.back \in Callers /\ pc \in Points
  BY Given DEF LocalTypes, PubRec, IInv, TypeOK, ControlTypes
<1>1. ASSUME UNCHANGED <<pc, cur, pub>>
      PROVE  cur' = cur /\ (pc \in {"launch", "finish"} \/ Publishing("finish"))
  BY <1>1 DEF Publishing
<1>2. CASE \E c \in Calls : Call(c)
  <2> PICK c \in Calls : Call(c)
    BY <1>2
  <2>1. CASE PublishCall(c)
    <3>1. pc' = "publish" /\ pub'.back = pc /\ cur' = cur
      BY <2>1, PublishGoes DEF PublishCall
    <3> QED
      BY <3>1 DEF Publishing
  <2>2. CASE DestroyLoop(c)
    BY <2>2 DEF DestroyLoop, Teardown, Crash, Goto, Publishing
  <2>3. CASE Run(c)
    BY <2>3 DEF Run, Goto, Publishing
  <2>4. CASE ~PublishCall(c) /\ ~DestroyLoop(c) /\ ~Run(c)
    <3>1. UNCHANGED <<pc, cur, pub>>
      BY <2>4 DEF Call, RequestSubmit, LoopSubmit, Enlist, Cancel, Inject, Stop, Post,
            NodeCall, local
    <3> QED
      BY <1>1, <3>1
  <2> QED
    BY <2>1, <2>2, <2>3, <2>4
<1>3. CASE InjectedOne
  <2>1. \/ UNCHANGED <<pc, cur, pub>>
        \/ \E id, ok, own : BeginPublish(id, ok, own, "injected")
    BY <1>3 DEF InjectedOne
  <2>2. ASSUME NEW id, NEW ok, NEW own, BeginPublish(id, ok, own, "injected")
        PROVE  pc' \notin {"launch", "finish"} /\ ~Publishing("finish")'
    <3>1. pc' = "publish" /\ pub'.back = "injected"
      BY <2>2, PublishGoes
    <3> QED
      BY <3>1 DEF Publishing
  <2> QED
    BY <1>1, <2>1, <2>2
<1>4. CASE ApplyOp
  <2>1. \/ UNCHANGED <<pc, cur, pub>>
        \/ \E id, ok, own : BeginPublish(id, ok, own, "ops")
    BY <1>4 DEF ApplyOp
  <2> QED
    BY <1>1, <2>1, PublishGoes DEF Publishing
<1>5. CASE RequeueRead \/ RequeueWrite \/ FailWaiter
  <2>1. CASE Crash
    BY <2>1 DEF Crash, Goto, Publishing
  <2>2. CASE ~Crash
    <3>1. /\ pc \in {"publish", "requeue"} /\ cur' = cur /\ pc' \in {"publish", "requeue"}
      BY <1>5, <2>2 DEF RequeueRead, RequeueWrite, FailWaiter, Goto
    <3>2. \/ \E x : pub' = [pub EXCEPT !.snap = x]
          \/ \E x, y : pub' = [pub EXCEPT !.waiters = x, !.snap = y]
          \/ \E x : pub' = [pub EXCEPT !.waiters = x]
      BY <1>5, <2>2 DEF RequeueRead, RequeueWrite, FailWaiter
    <3>3. pub'.back = pub.back
      BY <1>0, <3>2 DEF PubRec
    <3> QED
      BY <3>1, <3>3 DEF Publishing
  <2> QED
    BY <2>1, <2>2
<1>6. CASE PublishEnd
  <2>1. pc = "publish" /\ pc' = pub.back /\ pub' = NoPub /\ cur' = cur
    BY <1>6 DEF PublishEnd, Goto
  <2>2. pc' \notin {"launch", "publish", "requeue"}
    BY <1>0, <2>1 DEF Callers
  <2>3. pc' = "finish" => Publishing("finish")
    BY <2>1 DEF Publishing
  <2>4. ~Publishing("finish")'
    BY <2>2 DEF Publishing
  <2> QED
    BY <2>1, <2>2, <2>3, <2>4
<1>7. CASE Scheduler /\ ~Admit
  <2>1. pc \notin {"publish", "requeue"} /\ pub' = pub
    BY <1>7 DEF Scheduler, Detach, CancelOne, CancelsDone, TakePending, DropCancelled,
          Launch, EnterRated, MoveRated, MergeRated, MoveWaiting, LeaveWaiting, Crash, local
  <2>2. pc' \notin {"launch", "finish", "publish", "requeue"}
    BY <1>7 DEF Scheduler, Detach, CancelOne, CancelsDone, TakePending, DropCancelled,
          Launch, EnterRated, MoveRated, MergeRated, MoveWaiting, LeaveWaiting, Crash, Goto
  <2> QED
    BY <2>2 DEF Publishing
<1>8. CASE Admit
  <2>1. cur' = cur \/ pc' = "pending"
    BY <1>8 DEF Admit, Goto
  <2> QED
    BY <1>8, <2>1 DEF Publishing
<1>9. CASE Finish429 \/ FinishDelay \/ FinishRetry \/ FinishFinal
  BY <1>9 DEF Finish429, FinishDelay, FinishRetry, FinishFinal, Finishes, Crash, Goto,
        Publishing
<1>10. CASE CompletionsDone \/ InjectedDone \/ Drain \/ OpsDone
  BY <1>10 DEF CompletionsDone, InjectedDone, Drain, OpsDone, Goto, Publishing
<1>11. CASE UNCHANGED vars \/ Tick \/ \E r \in Requests : TransferDone(r)
  <2>1. UNCHANGED <<pc, cur, pub>>
    BY <1>11 DEF vars, Tick, TransferDone, local
  <2> QED
    BY <1>1, <2>1
<1>12. CASE Top \/ OnLoop \/ PerformEnd \/ ExitTest \/ Wait
  BY <1>12 DEF Top, OnLoop, PerformEnd, ExitTest, Wait, Goto, Publishing
<1> QED
  BY <1>2, <1>3, <1>4, <1>5, <1>6, <1>7, <1>8, <1>9, <1>10, <1>11, <1>12
  DEF Next, LoopStep, Completions, ResourceOps, Over

\* The requests that were injected, and the steps that change them.
InjectedSet == Elements(injected) \cup Elements(work.injected)
LEMMA InjectedMoves ==
    ASSUME EInv, [Next]_vars
    PROVE  \/ InjectedSet' = InjectedSet
           \/ \E c \in Calls : Inject(c) /\ InjectedSet' = InjectedSet \cup {c.on}
           \/ /\ InjectedOne /\ InjectedSet' \subseteq InjectedSet
              /\ InjectedSet \ {Head(work.injected)} \subseteq InjectedSet'
           \/ pc = "idle" /\ Teardown /\ InjectedSet' \subseteq InjectedSet
<1>0. /\ work \in WorkRec /\ injected \in Seq(Requests) /\ work.injected \in Seq(Requests)
      /\ HoldsOK
  BY Given DEF LocalTypes, ListTypes, WorkRec
<1>1. CASE injected' = injected /\ work'.injected = work.injected
  BY <1>1 DEF InjectedSet
<1>2. ASSUME work' = work \/ \E x : \/ work' = [work EXCEPT !.cancelled = x]
                                    \/ work' = [work EXCEPT !.pending = x]
                                    \/ work' = [work EXCEPT !.ops = x]
                                    \/ \E y : work' = [work EXCEPT !.cancelled = x,
                                                                   !.pending = y]
      PROVE  work'.injected = work.injected
  BY <1>0, <1>2 DEF WorkRec
<1>3. CASE \E c \in Calls : Call(c)
  <2> PICK c \in Calls : Call(c)
    BY <1>3
  <2>1. CASE Inject(c)
    <3>1. c.on \in Requests /\ injected' = <<c.on>> \o injected /\ work' = work
      BY <2>1, CallsAssumption DEF Inject, Makes, local
    <3>2. Elements(injected') = {c.on} \cup Elements(injected)
      BY <1>0, <3>1, ElementsOf
    <3> QED
      BY <2>1, <3>1, <3>2 DEF InjectedSet
  <2>2. CASE DestroyLoop(c)
    <3>1. /\ work' = work
          /\ (pc = "idle" /\ Teardown /\ injected' = << >>) \/ injected' = injected
      BY <2>2, Zenon DEF DestroyLoop, Teardown, Crash, lists, local
    <3> QED
      BY <3>1 DEF InjectedSet, Elements
  <2>3. CASE ~Inject(c) /\ ~DestroyLoop(c)
    <3>1. UNCHANGED <<injected, work>>
      BY <2>3 DEF Call, RequestSubmit, LoopSubmit, Enlist, Cancel, Stop, Post, NodeCall,
            PublishCall, Run, lists, local
    <3> QED
      BY <1>1, <3>1
  <2> QED
    BY <2>1, <2>2, <2>3
<1>4. CASE Scheduler
  <2>1. injected' = injected
    BY <1>4 DEF Scheduler, Detach, CancelOne, CancelsDone, TakePending, DropCancelled, Admit,
          Launch, EnterRated, MoveRated, MergeRated, MoveWaiting, LeaveWaiting, Crash, lists
  <2>2. CASE Detach \/ TakePending
    BY <1>1, <1>2, <2>1, <2>2 DEF Detach, TakePending
  <2>3. CASE CancelOne
    BY <1>1, <1>2, <2>1, <2>3 DEF CancelOne, Crash, local
  <2>4. CASE ~Detach /\ ~CancelOne /\ ~TakePending
    <3>1. work' = work
      BY <1>4, <2>4 DEF Scheduler, CancelsDone, DropCancelled, Admit, Launch, EnterRated,
            MoveRated, MergeRated, MoveWaiting, LeaveWaiting, local
    <3> QED
      BY <1>1, <2>1, <3>1
  <2> QED
    BY <2>2, <2>3, <2>4
<1>5. CASE CompletionsDone
  <2>1. injected' = << >> /\ work' = [work EXCEPT !.injected = injected]
    BY <1>5 DEF CompletionsDone
  <2>2. work'.injected = injected /\ work.injected = << >>
    BY <1>0, <1>5, <2>1 DEF WorkRec, CompletionsDone, HoldsOK, Publishing
  <2> QED
    BY <2>1, <2>2 DEF InjectedSet, Elements
<1>6. CASE InjectedOne
  <2>1. /\ injected' = injected /\ work' = [work EXCEPT !.injected = Tail(@)]
        /\ work.injected # << >>
    BY <1>6 DEF InjectedOne, lists
  <2>2. work'.injected = Tail(work.injected)
    BY <1>0, <2>1 DEF WorkRec
  <2>3. Elements(work.injected) = {Head(work.injected)} \cup Elements(Tail(work.injected))
    BY <1>0, <2>1, ElementsOf
  <2> QED
    BY <1>6, <2>1, <2>2, <2>3 DEF InjectedSet
<1>7. CASE Drain \/ ApplyOp
  BY <1>1, <1>2, <1>7 DEF Drain, ApplyOp, lists
<1>8. CASE \/ CompleteOne \/ Finish429 \/ FinishDelay \/ FinishRetry \/ FinishFinal
           \/ InjectedDone \/ OpsDone \/ RequeueRead \/ RequeueWrite \/ FailWaiter
           \/ PublishEnd \/ UNCHANGED vars \/ Top \/ OnLoop \/ PerformEnd \/ ExitTest
           \/ Wait \/ Tick \/ \E s \in Requests : TransferDone(s)
  <2>1. UNCHANGED <<injected, work>>
    BY <1>8 DEF CompleteOne, Finish429, FinishDelay, FinishRetry, FinishFinal, Finishes,
          Crash, InjectedDone, OpsDone, RequeueRead, RequeueWrite, FailWaiter, PublishEnd,
          vars, Top, OnLoop, PerformEnd, ExitTest, Wait, Tick, TransferDone, lists, local
  <2> QED
    BY <1>1, <2>1
<1> QED
  BY <1>3, <1>4, <1>5, <1>6, <1>7, <1>8 DEF Next, LoopStep, Completions, ResourceOps, Over

\* Where they come from.
LEMMA InjectedFrom ==
    ASSUME EInv, [Next]_vars, NEW r \in Elements(injected') \cup Elements(work'.injected)
    PROVE  \/ r \in Elements(injected) \cup Elements(work.injected)
           \/ /\ r \in Requests /\ req[r].life = "new"
              /\ \E c \in Calls : Inject(c) /\ c.on = r
<1>1. \A c \in Calls : Inject(c) => c.on \in Requests /\ req[c.on].life = "new"
  BY CallsAssumption DEF Inject, Makes
<1> QED
  BY <1>1, InjectedMoves DEF InjectedSet

\* A request that was admitted has pinned its dependencies, an injected one none.
LEMMA NextAdmitted ==
    ASSUME EInv, Disciplined, [Next]_vars
    PROVE  AdmittedPin'
<1>0. /\ Effect /\ PlacesOK' /\ AdmittedPin /\ MsgsOK /\ HandsOK' /\ FreshOK
      /\ req \in [Requests -> RequestRec] /\ map \in [Maps -> SUBSET Requests]
      /\ msgs \in Seq(MsgRec) /\ "queued" \in Maps
  BY NextEffect, NextPlaces, NextTypes, Given DEF EInv, RefsInv, IInv, SchedTypes, Maps
<1>1. ASSUME NEW r \in LiveOnes', req[r].retained \/ Deps[r] = {}
      PROVE  req'[r].retained \/ Deps[r] = {}
  BY <1>0, <1>1, RetainedKept
<1>2. ASSUME NEW k \in Maps, NEW r \in map'[k]
      PROVE  req'[r].retained \/ Deps[r] = {}
  <2>1. r \in LiveOnes'
    BY <1>0, <1>2, PlacesLiveNext
  <2>2. req[r].retained \/ Deps[r] = {}
    BY <1>0, <1>2, MapsFrom DEF AdmittedPin
  <2> QED
    BY <1>1, <2>1, <2>2
<1>3. ASSUME pc' \in {"launch", "finish"} \/ Publishing("finish")'
      PROVE  req'[cur'.req].retained \/ Deps[cur'.req] = {}
  <2>1. cur'.req \in Requests /\ cur'.req \in LiveOnes'
    <3>1. cur'.req \in Requests
      BY <1>0, <1>3 DEF HandsOK, Handling, Publishing
    <3> QED
      BY <1>0, <3>1, PlacesLiveNext
  <2>2. CASE cur' = cur /\ (pc \in {"launch", "finish"} \/ Publishing("finish"))
    <3>1. req[cur.req].retained \/ Deps[cur.req] = {}
      BY <1>0, <2>2 DEF AdmittedPin
    <3> QED
      BY <1>1, <2>1, <2>2, <3>1
  <2>3. CASE Admit /\ cur' = cur
    <3> DEFINE r == cur.req
               q == [req[r] EXCEPT !.retained = @ \/ Deps[r] # {}]
    <3>1. req' = [req EXCEPT ![r] = q] /\ r \in Requests
      BY <2>1, <2>3 DEF Admit
    <3>2. q.retained \/ Deps[r] = {}
      BY <1>0, <3>1 DEF RequestRec
    <3> HIDE DEF q
    <3>3. req'[r] = q
      BY <1>0, <3>1
    <3> QED
      BY <2>3, <3>2, <3>3
  <2>4. CASE CompleteOne
    <3> DEFINE r == Head(msgs).req
    <3>1. msgs # << >> /\ cur'.req = r /\ req' = req
      BY <2>4 DEF CompleteOne
    <3>2. 1 \in DOMAIN msgs /\ Head(msgs) = msgs[1]
      BY <1>0, <3>1
    <3>3. r \in map["queued"]
      BY <1>0, <3>2 DEF MsgsOK
    <3> HIDE DEF r
    <3>4. req[r].retained \/ Deps[r] = {}
      BY <1>0, <3>3 DEF AdmittedPin
    <3> QED
      BY <3>1, <3>4
  <2> QED
    BY <1>3, <2>2, <2>3, <2>4, HandFrom
<1>4. ASSUME NEW r \in Elements(injected') \cup Elements(work'.injected)
      PROVE  ~req'[r].retained
  <2>1. r \in LiveOnes' /\ r \in Requests
    BY <1>0, <1>4, PlacesLiveNext DEF LiveOnes
  <2>2. ~req[r].retained
    BY <1>0, <1>4, InjectedFrom DEF AdmittedPin, FreshOK
  <2>3. CASE Quiet
    BY <2>1, <2>2, <2>3 DEF Quiet
  <2>4. ASSUME NEW x \in Requests, Dies(x) PROVE ~req'[r].retained
    BY <2>1, <2>2, <2>4 DEF Dies
  <2>5. ASSUME NEW x \in Requests, Admits(x) PROVE ~req'[r].retained
    <3>1. cur.req \in Requests /\ cur.req = x /\ req[x].life = "live"
      BY <2>5 DEF Admits
    <3>2. x # r
      <4>1. req[r].life = "new" => x # r
        BY <3>1
      <4>2. r \in Elements(injected) \cup Elements(work.injected) => x # r
        <5>1. Partition(Spread(map, Listed, table), LiveOnes)
          BY Given
        <5>2. /\ Listed["hand"] \cap Listed["injected"] = {}
              /\ Listed["hand"] \cap Listed["detached"] = {}
          BY <5>1, Apart DEF Lists
        <5>3. x \in Listed["hand"]
          BY <3>1, SetsAssumption, ListedAt
        <5> QED
          BY <5>2, <5>3, ListedAt
      <4> QED
        BY <1>4, <4>1, <4>2, InjectedFrom
    <3> DEFINE q == [req[x] EXCEPT !.retained = @ \/ Deps[x] # {}]
    <3>3. req' = [req EXCEPT ![x] = q]
      BY <2>5 DEF Admits
    <3> HIDE DEF q
    <3>4. req'[r] = req[r]
      BY <1>0, <2>1, <3>2, <3>3
    <3> QED
      BY <2>2, <3>4
  <2>6. CASE Gone
    BY <2>1, <2>6 DEF Gone, LiveOnes, Live, Ended
  <2> QED
    BY <1>0, <2>3, <2>4, <2>5, <2>6 DEF Effect
<1> QED
  BY <1>2, <1>3, <1>4 DEF AdmittedPin

\* A request that enters the queue has its dependencies.
LEMMA QueuedFrom ==
    ASSUME EInv, [Next]_vars, NEW r \in map'["queued"]
    PROVE  r \in map["queued"] \/ (AllReady(r) /\ table' = table)
<1>0. map \in [Maps -> SUBSET Requests] /\ "queued" \in Maps
  BY Given DEF Maps
<1> DEFINE Fine == r \in map["queued"] \/ (AllReady(r) /\ table' = table)
<1> SUFFICES Fine
  OBVIOUS
<1>1. CASE map'["queued"] \subseteq map["queued"]
  BY <1>1
<1>2. ASSUME NEW m \in [Maps -> SUBSET Requests], NEW s, NEW k \in Maps \ {"queued"},
             map' = Put(m, k, s), m["queued"] \subseteq map["queued"]
      PROVE  Fine
  <2>1. map'["queued"] = m["queued"]
    BY <1>0, <1>2 DEF Put
  <2> QED
    BY <1>2, <2>1
<1>3. ASSUME NEW m \in [Maps -> SUBSET Requests], NEW s, NEW n, Start(s, m, n), AllReady(s),
             m["queued"] \subseteq map["queued"]
      PROVE  Fine
  <2>1. CASE StartRated(s, m, n)
    <3>1. "rated" \in Maps \ {"queued"}
      BY DEF Maps
    <3> QED
      BY <1>2, <1>3, <2>1, <3>1 DEF StartRated
  <2>2. CASE StartUnprepared(s, m, n)
    BY <1>3, <2>2 DEF StartUnprepared
  <2>3. CASE StartTransfer(s, m, n)
    <3>1. map' = Put(m, "queued", s) /\ table' = table
      BY <2>3 DEF StartTransfer
    <3>2. r \in m["queued"] \/ r = s
      BY <1>0, <3>1 DEF Put
    <3> QED
      BY <1>3, <3>1, <3>2
  <2> QED
    BY <1>3, <2>1, <2>2, <2>3 DEF Start
<1>4. \A j \in Maps : \A s : /\ Take(map, j, s) \in [Maps -> SUBSET Requests]
                             /\ Take(map, j, s)["queued"] \subseteq map["queued"]
  BY <1>0 DEF Take
<1>5. \A s : Home(s) \in Maps \ {"queued"}
  BY DEF Home, Maps
<1>s. map["queued"] \subseteq map["queued"] /\ "rated" \in Maps \ {"queued"}
      /\ "root" \in Maps /\ "refresh" \in Maps /\ "inactive" \in Maps
  BY DEF Maps
<1> HIDE DEF Fine
<1>6. CASE map' = map
  BY <1>1, <1>6
<1>7. CASE CancelOne \/ CompleteOne
  <2>1. map' = map \/ \E j \in Maps : \E s : map' = Take(map, j, s)
    BY <1>0, <1>7 DEF CancelOne, CompleteOne, CancelledFrom, Home, Maps, Crash, sched
  <2> QED
    BY <1>1, <1>4, <1>6, <2>1
<1>8. CASE Launch
  <2>1. \/ Start(cur.req, map, num) /\ AllReady(cur.req)
        \/ map' = Put(map, Home(cur.req), cur.req)
    BY <1>8 DEF Launch, Ready
  <2> QED
    BY <1>0, <1>s, <1>2, <1>3, <1>5, <2>1
<1>9. CASE EnterRated \/ MergeRated
  <2>1. map'["queued"] = map["queued"]
    BY <1>0, <1>9 DEF EnterRated, MergeRated, Maps
  <2> QED
    BY <1>1, <2>1
<1>10. ASSUME NEW j \in Maps, NEW s, NEW n,
              Limit(s, j, n) \/ (AllReady(s) /\ Start(s, Take(map, j, s), n))
       PROVE  Fine
  <2> DEFINE m == Take(map, j, s)
  <2>1. m \in [Maps -> SUBSET Requests] /\ m["queued"] \subseteq map["queued"]
    BY <1>4
  <2>2. map' = Put(m, "rated", s) \/ (AllReady(s) /\ Start(s, m, n))
    BY <1>10 DEF Limit
  <2> HIDE DEF m
  <2> QED
    BY <1>s, <1>2, <1>3, <2>1, <2>2
<1>11. CASE MoveRated
  <2>1. \E s, n : Limit(s, "root", n) \/ (AllReady(s) /\ Start(s, Take(map, "root", s), n))
    BY <1>11 DEF MoveRated, Ready
  <2> QED
    BY <1>s, <1>10, <2>1
<1>12. ASSUME NEW j \in {"refresh", "inactive"}, MoveWaiting(j) PROVE Fine
  <2>1. j \in Maps /\ \E s, n : Limit(s, j, n) \/ (AllReady(s) /\ Start(s, Take(map, j, s), n))
    BY <1>s, <1>12 DEF MoveWaiting, Ready
  <2> QED
    BY <1>10, <2>1
<1>13. CASE Finish429 \/ FinishDelay \/ FinishRetry \/ FinishFinal
  <2>1. map' = map \/ map' = Put(map, "rated", cur.req) \/ map' = Put(map, Home(cur.req), cur.req)
    BY <1>13 DEF Finish429, FinishDelay, FinishRetry, RetryLater, FinishFinal, Requeue,
          Destroy, Crash, sched
  <2> QED
    BY <1>0, <1>s, <1>2, <1>5, <1>6, <2>1
<1>14. CASE \E c \in Calls : Call(c)
  <2> PICK c \in Calls : Call(c)
    BY <1>14
  <2>1. CASE Teardown
    <3>1. map' = [x \in Maps |-> {}]
      BY <2>1, Zenon DEF Teardown
    <3> QED
      BY <1>0, <3>1
  <2>2. CASE ~Teardown
    <3>1. map' = map
      BY <2>2 DEF Call, RequestSubmit, LoopSubmit, Enlist, Cancel, Inject, Stop, Post,
            NodeCall, PublishCall, Run, DestroyLoop, Crash, sched
    <3> QED
      BY <1>6, <3>1
  <2> QED
    BY <2>1, <2>2
<1>15. CASE \/ Detach \/ CancelsDone \/ TakePending \/ DropCancelled \/ Admit
            \/ LeaveWaiting("refresh", "inactive") \/ LeaveWaiting("inactive", "perform")
            \/ CompletionsDone \/ InjectedOne \/ InjectedDone \/ ResourceOps
            \/ UNCHANGED vars \/ Top \/ OnLoop \/ PerformEnd \/ ExitTest \/ Wait \/ Tick
            \/ \E s \in Requests : TransferDone(s)
  <2>1. map' = map
    BY <1>15 DEF Detach, CancelsDone, TakePending, DropCancelled, Admit, LeaveWaiting,
          CompletionsDone, InjectedOne, InjectedDone, ResourceOps, Drain, ApplyOp, OpsDone,
          RequeueRead, RequeueWrite, FailWaiter, PublishEnd, Crash, vars, Top, OnLoop,
          PerformEnd, ExitTest, Wait, Tick, TransferDone, sched
  <2> QED
    BY <1>6, <2>1
<1> QED
  BY <1>7, <1>8, <1>9, <1>11, <1>12, <1>13, <1>14, <1>15
  DEF Next, LoopStep, Scheduler, Completions, Over

\* What is published stays published while it is pinned.
LEMMA PublishedKept ==
    ASSUME table \in [Resources -> NodeRec], req \in [Requests -> RequestRec], Effect,
           NEW id \in Resources, Published(table[id]), table'[id].st # "none"
    PROVE  Published(table'[id])
<1>0. table[id] \in NodeRec
  OBVIOUS
<1>1. CASE table' = table
  BY <1>1
<1>2. CASE \E x \in Resources : NodeStep(x)
  <2>1. PICK x \in Resources : NodeStep(x)
    BY <1>2
  <2>2. CASE x # id
    <3>1. table'[id] = table[id]
      BY <2>1, <2>2 DEF NodeStep
    <3> QED
      BY <3>1
  <2>3. CASE x = id
    <3>1. PICK p : /\ table' = [table EXCEPT ![id] = p]
                   /\ \/ p = ReleaseNode(table[id]) \/ p = AddRefNode(table[id])
                      \/ p = AutoNode(table[id])
                      \/ \E ok, own \in BOOLEAN : p = PublishNode(table[id], ok, own)
      BY <2>1, <2>3 DEF NodeStep
    <3>2. table'[id] = p
      BY <3>1
    <3>3. Published(p) \/ p.st = "none"
      BY <1>0, <3>1, NodePublished
    <3> QED
      BY <3>2, <3>3
  <2> QED
    BY <2>2, <2>3
<1>3. ASSUME NEW r \in Requests, Dies(r) PROVE Published(table'[id])
  <2>1. table'[id] = table[id] \/ table'[id] = DropDep(table[id])
    BY <1>3 DEF Dies, ReleaseDeps
  <2>2. Published(DropDep(table[id])) \/ DropDep(table[id]).st = "none"
    BY <1>0, NodePublished
  <2> QED
    BY <2>1, <2>2
<1>4. ASSUME NEW r \in Requests, Admits(r) PROVE Published(table'[id])
  <2> DEFINE p == IF ~req[r].retained /\ id \in Deps[r] THEN RetainNode(table[id])
                                                         ELSE table[id]
  <2>1. p \in NodeRec /\ (table'[id] = p \/ table'[id] = BlockNode(p, r))
    BY <1>4, AdmittedNode
  <2>2. Published(p)
    BY <1>0, NodePublished
  <2> HIDE DEF p
  <2>3. Published(BlockNode(p, r))
    BY <2>1, <2>2, NodePublished
  <2> QED
    BY <2>1, <2>2, <2>3
<1>5. CASE Gone
  BY <1>5 DEF Gone, NoNode
<1> QED
  BY <1>1, <1>2, <1>3, <1>4, <1>5 DEF Effect

\* A request in flight keeps its dependencies.
LEMMA NextDepsHold ==
    ASSUME EInv, Disciplined, [Next]_vars
    PROVE  DepsHoldInFlight'
<1> SUFFICES ASSUME NEW r \in map'["queued"], NEW id \in Deps[r]
             PROVE  Published(table'[id])
  BY DEF DepsHoldInFlight
<1>0. /\ Effect /\ PlacesOK' /\ PinsOK' /\ AdmittedPin' /\ DepsHoldInFlight
      /\ table \in [Resources -> NodeRec] /\ req \in [Requests -> RequestRec]
      /\ "queued" \in Maps
  BY NextEffect, NextPlaces, NextRefcounts, NextAdmitted, Given DEF EInv, RefsInv, Maps
<1>1. r \in LiveOnes' /\ r \in Requests
  BY <1>0, PlacesLiveNext DEF LiveOnes
<1>2. id \in Resources
  BY <1>1, RequestsAssumption
<1>3. CASE AllReady(r) /\ table' = table
  BY <1>3 DEF AllReady
<1>4. CASE r \in map["queued"]
  <2>1. Published(table[id])
    BY <1>0, <1>4 DEF DepsHoldInFlight
  <2>2. req'[r].retained
    BY <1>0 DEF AdmittedPin
  <2>3. r \in Users(id)'
    BY <1>1, <2>2 DEF Users, LiveOnes
  <2>4. table'[id].st # "none"
    BY <1>0, <1>2, <2>3 DEF PinsOK
  <2> QED
    BY <1>0, <1>2, <2>1, <2>4, PublishedKept
<1> QED
  BY <1>3, <1>4, QueuedFrom

----------------------------------------------------------------------------
(* The inductive invariant. *)

\* It holds of a loop that was just initialised.
LEMMA InitEInv ==
    ASSUME Disciplined, Init
    PROVE  EInv
<1>1. IInv
  BY InitTypes
<1>2. /\ NoNode.st = "none" /\ NoNode.blocked = << >> /\ NoNode.auto = FALSE
      /\ DeclareNode(NoNode).st = "empty" /\ DeclareNode(NoNode).blocked = << >>
      /\ DeclareNode(NoNode).auto = FALSE /\ DeclareNode(NoNode).held = 1
      /\ DeclareNode(NoNode).refcnt = 1
  BY DEF NoNode, DeclareNode
<1>3. \A id \in Resources : /\ table[id].blocked = << >> /\ table[id].auto = FALSE
                            /\ table[id].st # "none" =>
                                   table[id].refcnt = 1 /\ table[id].held = 1
                            /\ id \in Declared => table[id].st # "none"
  BY <1>2 DEF Init
<1>4. \A r \in Requests : req[r].life = "new" /\ ~req[r].retained
  BY DEF Init, NewRequest
<1>5. LiveOnes = {} /\ \A id : Users(id) = {}
  BY <1>4 DEF LiveOnes, Live, Users
<1>6. /\ pending = << >> /\ injected = << >> /\ inbox = << >> /\ msgs = << >>
      /\ work = NoWork /\ cur = NoCur /\ pub = NoPub /\ pc = "idle" /\ todo = Calls
      /\ \A k \in Maps : map[k] = {}
  BY DEF Init
<1>7. /\ NoWork.pending = << >> /\ NoWork.injected = << >> /\ NoWork.ops = << >>
      /\ NoPub.waiters = << >> /\ NoCur.req = None
  BY DEF NoWork, NoPub, NoCur
<1>8. Elements(<< >>) = {} /\ Distinct(<< >>)
  BY DEF Elements, Distinct
<1>9. Unstranded(table)
  BY <1>3 DEF Unstranded, NoStrandedWaiter
<1>10. PlacesInv
  <2>1. \A x \in Lists : Listed[x] = {}
    BY <1>6, <1>7, <1>8, ListedAt DEF Lists
  <2>2. \A p \in Places : Contents[p] = {}
    BY <2>1, <1>3, <1>6, <1>8, SpreadAt DEF Contents
  <2>3. PlacesOK
    BY <2>2, <1>5 DEF PlacesOK, Partition
  <2>4. ListsOK
    BY <1>3, <1>6, <1>7, <1>8 DEF ListsOK
  <2>5. HoldsOK
    BY <1>6, <1>7 DEF HoldsOK, Maps
  <2>6. MsgsOK
    BY <1>6 DEF MsgsOK
  <2>7. FreshOK
    BY <1>4, <1>6, CallsAssumption DEF FreshOK, Submits
  <2> QED
    BY <2>3, <2>4, <2>5, <2>6, <2>7 DEF PlacesInv
<1>11. RefcountExact /\ PinsOK
  <2>1. \A id \in Resources : Users(id) = {} /\ Cardinality(Users(id)) = 0
    BY <1>5, FS_EmptySet
  <2>2. ASSUME NEW id \in Resources, table[id].st # "none"
        PROVE  table[id].refcnt = table[id].held + Cardinality(Users(id))
    BY <1>3, <2>1, <2>2
  <2> QED
    BY <2>1, <2>2 DEF RefcountExact, PinsOK
<1>12. WaitersPin /\ AdmittedPin
  BY <1>3, <1>6, <1>7, <1>8 DEF WaitersPin, AdmittedPin, Publishing
<1>13. OpsOK
  BY <1>6, <1>7, <1>8 DEF OpsOK
<1>14. OwedOK
  <2> SUFFICES ASSUME NEW c \in Due, c.op \in GivesBack
               PROVE  table[c.on].st # "none" /\ table[c.on].held > 0
    BY DEF OwedOK
  <2>1. c \in Calls
    BY <1>6, <1>7, <1>8 DEF Due
  <2>2. c.on \in Declared /\ c.on \in Resources
    BY <2>1, SetsAssumption DEF Disciplined, OwnersRelease
  <2> QED
    BY <1>3, <2>2
<1>15. AutoOK /\ DepsHoldInFlight
  BY <1>3, <1>6 DEF AutoOK, DepsHoldInFlight, Maps
<1> QED
  BY <1>1, <1>9, <1>10, <1>11, <1>12, <1>13, <1>14, <1>15 DEF EInv, RefsInv

\* Every step keeps it.
LEMMA NextEInv ==
    ASSUME EInv, Disciplined, [Next]_vars
    PROVE  EInv'
<1>1. IInv' /\ Unstranded(table)'
  BY NextTypes, NextWaiters DEF EInv
<1>2. PlacesInv'
  BY NextPlacesInv
<1>3. RefsInv'
  BY NextRefcounts, NextWaitersPin, NextAdmitted, NextOps, NextOwed, NextAuto, NextDepsHold
  DEF RefsInv
<1> QED
  BY <1>1, <1>2, <1>3 DEF EInv

\* In every instance whose callers keep the discipline, a live request is in one
\* list, map, node or hand of the loop, and what the loop thread has detached and
\* taken from libcurl is used up before it is overwritten.
THEOREM PlacesHeld ==
    ASSUME Disciplined
    PROVE  Spec => []PlacesInv
<1>1. Init => EInv
  BY InitEInv
<1>2. EInv /\ [Next]_vars => EInv'
  BY NextEInv
<1>3. EInv => PlacesInv
  BY DEF EInv
<1> QED
  BY <1>1, <1>2, <1>3, PTL DEF Spec

\* There, whoever waits for a resource or goes on to use it has pinned it, and
\* whoever is still to give a reference back has one to give.
THEOREM ReferencesHeld ==
    ASSUME Disciplined
    PROVE  Spec => []RefsInv
<1>1. Init => EInv
  BY InitEInv
<1>2. EInv /\ [Next]_vars => EInv'
  BY NextEInv
<1>3. EInv => RefsInv
  BY DEF EInv
<1> QED
  BY <1>1, <1>2, <1>3, PTL DEF Spec

\* In every instance whose callers keep the discipline, the reference count of a
\* resource's node is what its holders hold: curl_resource.c neither leaks a
\* reference nor gives one back twice, on any path by which a request may end.
THEOREM RefcountsExact ==
    ASSUME Disciplined
    PROVE  Spec => []RefcountExact
<1>1. Init => EInv
  BY InitEInv
<1>2. EInv /\ [Next]_vars => EInv'
  BY NextEInv
<1>3. EInv => RefcountExact
  BY DEF EInv, RefsInv
<1> QED
  BY <1>1, <1>2, <1>3, PTL DEF Spec

\* In the same instances no resource a request in flight depends on is erased or
\* loses its publication before the request is answered.
THEOREM DependenciesKept ==
    ASSUME Disciplined
    PROVE  Spec => []DepsHoldInFlight
<1>1. Init => EInv
  BY InitEInv
<1>2. EInv /\ [Next]_vars => EInv'
  BY NextEInv
<1>3. EInv => DepsHoldInFlight
  BY DEF EInv, RefsInv
<1> QED
  BY <1>1, <1>2, <1>3, PTL DEF Spec

----------------------------------------------------------------------------
(* No request is lost and none is in two containers. *)

\* A set whose elements are all the same is counted.
LEMMA CountOne ==
    ASSUME NEW S, \A x, y \in S : x = y
    PROVE  Cardinality(S) = IF S = {} THEN 0 ELSE 1
<1>1. CASE S = {}
  BY <1>1, FS_EmptySet
<1>2. CASE S # {}
  <2>1. PICK x : x \in S
    BY <1>2
  <2>2. S = {x}
    BY <2>1
  <2>3. Cardinality({x}) = 1
    BY FS_Singleton
  <2> QED
    BY <1>2, <2>2, <2>3
<1> QED
  BY <1>1, <1>2

\* So are the occurrences of a request in a list that has it once.
LEMMA OccursOnce ==
    ASSUME NEW s, Distinct(s), NEW r
    PROVE  Occurrences(s, r) = IF r \in Elements(s) THEN 1 ELSE 0
<1> DEFINE S == {i \in DOMAIN s : s[i] = r}
<1>1. \A x, y \in S : x = y
  BY DEF Distinct
<1>2. S = {} <=> r \notin Elements(s)
  BY DEF Elements
<1> HIDE DEF S
<1>3. Cardinality(S) = IF S = {} THEN 0 ELSE 1
  BY <1>1, CountOne
<1> QED
  BY <1>2, <1>3 DEF S, Occurrences

\* No more requests wait for a resource than there are.
LEMMA WaitersFit ==
    ASSUME NEW s \in Seq(Requests), Distinct(s)
    PROVE  DOMAIN s \subseteq 1..Cardinality(Requests)
<1>1. /\ Len(s) \in Nat /\ DOMAIN s = 1..Len(s) /\ s \in [1..Len(s) -> Requests]
      /\ IsFiniteSet(Requests) /\ Cardinality(Requests) \in Nat
  BY SetsAssumption, FS_CardinalityType
<1>2. IsFiniteSet(1..Len(s)) /\ Cardinality(1..Len(s)) = Len(s)
  <2>1. \A n \in Nat : IsFiniteSet(1..n) /\ Cardinality(1..n) = n
    <3> TAKE n \in Nat
    <3>1. IsFiniteSet(1..n) /\ Cardinality(1..n) = IF 1 > n THEN 0 ELSE n - 1 + 1
      BY FS_Interval
    <3> QED
      BY <3>1
  <2> QED
    BY <1>1, <2>1
<1>3. ~(Cardinality(Requests) < Len(s))
  <2> SUFFICES ASSUME Cardinality(Requests) < Len(s) PROVE FALSE
    OBVIOUS
  <2>1. \E x, y \in 1..Len(s) : x # y /\ s[x] = s[y]
    BY <1>1, <1>2, FS_PigeonHole
  <2> QED
    BY <1>1, <2>1 DEF Distinct
<1> QED
  BY <1>1, <1>3

\* A request waits for one resource at most, and in one place of its list.
LEMMA WaitsOnce ==
    ASSUME EInv, NEW r
    PROVE  Waiting(r) = IF \E id \in Resources : r \in Elements(table[id].blocked)
                        THEN 1 ELSE 0
<1> DEFINE W == {p \in Resources \X (1..Cardinality(Requests)) :
                    p[2] \in DOMAIN table[p[1]].blocked /\ table[p[1]].blocked[p[2]] = r}
<1>1. \A id \in Resources : Distinct(table[id].blocked) /\ table[id].blocked \in Seq(Requests)
  BY Given DEF ListsOK, NodeRec
<1>2. \A a, b \in Resources :
          a # b => Elements(table[a].blocked) \cap Elements(table[b].blocked) = {}
  BY Given, Apart
<1>3. ASSUME NEW p \in W, NEW q \in W PROVE p = q
  <2>1. /\ p = <<p[1], p[2]>> /\ q = <<q[1], q[2]>> /\ p[1] \in Resources /\ q[1] \in Resources
        /\ p[2] \in DOMAIN table[p[1]].blocked /\ table[p[1]].blocked[p[2]] = r
        /\ q[2] \in DOMAIN table[q[1]].blocked /\ table[q[1]].blocked[q[2]] = r
    BY <1>3
  <2>2. r \in Elements(table[p[1]].blocked) /\ r \in Elements(table[q[1]].blocked)
    BY <2>1 DEF Elements
  <2>3. p[1] = q[1]
    BY <1>2, <2>1, <2>2
  <2>4. p[2] = q[2]
    BY <1>1, <2>1, <2>3 DEF Distinct
  <2> QED
    BY <2>1, <2>3, <2>4
<1>4. ASSUME NEW id \in Resources, r \in Elements(table[id].blocked) PROVE W # {}
  <2>1. PICK i \in DOMAIN table[id].blocked : table[id].blocked[i] = r
    BY <1>4 DEF Elements
  <2>2. i \in 1..Cardinality(Requests)
    BY <1>1, <2>1, WaitersFit
  <2>3. <<id, i>> \in W
    BY <2>1, <2>2
  <2> QED
    BY <2>3
<1>5. ASSUME NEW p \in W
      PROVE  \E id \in Resources : r \in Elements(table[id].blocked)
  BY <1>5 DEF Elements
<1> HIDE DEF W
<1>6. Cardinality(W) = IF W = {} THEN 0 ELSE 1
  BY <1>3, CountOne
<1> QED
  BY <1>4, <1>5, <1>6 DEF W, Waiting

\* Where the invariant holds a live request is in one container, others in none.
LEMMA PlacesCounted == EInv => OnePlace
<1> SUFFICES ASSUME EInv, NEW r \in Requests
             PROVE  PlaceCount(r) = IF Live(r) THEN 1 ELSE 0
  BY DEF OnePlace
<1> DEFINE K == {k \in Maps : r \in map[k]}
           mapped  == \E k \in Maps : r \in map[k]
           waits   == \E id \in Resources : r \in Elements(table[id].blocked)
           Has(x)  == r \in Listed[x]
<1>1. Partition(Spread(map, Listed, table), LiveOnes)
  BY Given
<1>2. /\ \A a \in Maps : map[a] \subseteq LiveOnes
      /\ \A a \in Lists : Listed[a] \subseteq LiveOnes
      /\ \A a \in Resources : Elements(table[a].blocked) \subseteq LiveOnes
      /\ \A a, b \in Maps : a # b => map[a] \cap map[b] = {}
      /\ \A a, b \in Lists : a # b => Listed[a] \cap Listed[b] = {}
      /\ \A a \in Maps, b \in Lists : map[a] \cap Listed[b] = {}
      /\ \A a \in Maps, b \in Resources : map[a] \cap Elements(table[b].blocked) = {}
      /\ \A a \in Lists, b \in Resources : Listed[a] \cap Elements(table[b].blocked) = {}
      /\ r \in LiveOnes => \/ \E a \in Maps : r \in map[a]
                           \/ \E a \in Lists : r \in Listed[a]
                           \/ \E a \in Resources : r \in Elements(table[a].blocked)
  BY <1>1, Apart
<1>3. Cardinality(K) = IF mapped THEN 1 ELSE 0
  <2>1. \A x, y \in K : x = y
    BY <1>2
  <2>2. K = {} <=> ~mapped
    OBVIOUS
  <2> HIDE DEF K
  <2>3. Cardinality(K) = IF K = {} THEN 0 ELSE 1
    BY <2>1, CountOne
  <2> QED
    BY <2>2, <2>3
<1>4. Waiting(r) = IF waits THEN 1 ELSE 0
  BY WaitsOnce
<1>5. /\ Occurrences(pending, r) = IF Has("pending") THEN 1 ELSE 0
      /\ Occurrences(work.pending, r) = IF Has("taken") THEN 1 ELSE 0
      /\ Occurrences(injected, r) = IF Has("injected") THEN 1 ELSE 0
      /\ Occurrences(work.injected, r) = IF Has("detached") THEN 1 ELSE 0
      /\ Occurrences(pub.waiters, r) = IF Has("woken") THEN 1 ELSE 0
      /\ cur.req = r <=> Has("hand")
  <2>1. /\ Distinct(pending) /\ Distinct(work.pending) /\ Distinct(injected)
        /\ Distinct(work.injected) /\ Distinct(pub.waiters)
    BY Given DEF ListsOK
  <2>2. r # None
    BY SetsAssumption
  <2> QED
    BY <2>1, <2>2, OccursOnce, ListedAt
<1>6. Live(r) <=> r \in LiveOnes
  BY DEF LiveOnes
<1>7. /\ Live(r) <=> mapped \/ waits \/ \E x \in Lists : Has(x)
      /\ ~(mapped /\ waits)
      /\ \A x \in Lists : ~(mapped /\ Has(x)) /\ ~(waits /\ Has(x))
      /\ \A x, y \in Lists : x # y => ~(Has(x) /\ Has(y))
  BY <1>2, <1>6
<1>8. PlaceCount(r) = Cardinality(K) + Waiting(r)
          + Occurrences(pending, r)  + Occurrences(work.pending, r)
          + Occurrences(injected, r) + Occurrences(work.injected, r)
          + Occurrences(pub.waiters, r) + (IF cur.req = r THEN 1 ELSE 0)
  BY DEF PlaceCount
<1> HIDE DEF K, mapped, waits, Has
<1> QED
  BY <1>3, <1>4, <1>5, <1>7, <1>8 DEF Lists

\* In every instance whose callers keep the discipline, a live request is in
\* exactly one container and a destroyed one in none: whatever moves it, a
\* scheduler pass, a publication, a completion, a cancellation or another thread,
\* the loop neither loses it nor can run it twice.
THEOREM OneContainer ==
    ASSUME Disciplined
    PROVE  Spec => []OnePlace
<1>1. Init => EInv
  BY InitEInv
<1>2. EInv /\ [Next]_vars => EInv'
  BY NextEInv
<1>3. EInv => OnePlace
  BY PlacesCounted
<1> QED
  BY <1>1, <1>2, <1>3, PTL DEF Spec

----------------------------------------------------------------------------
(* The end of the loop. *)

\* Destroying the loop leaves nothing alive.
LEMMA TeardownLeavesNone ==
    ASSUME EInv, pc = "idle", Teardown
    PROVE  TeardownComplete'
<1>1. Partition(Spread(map, Listed, table), LiveOnes)
  BY Given
<1>2. work.pending = << >> /\ work.injected = << >> /\ pub.waiters = << >> /\ cur.req = None
  BY Given DEF HoldsOK, Publishing
<1> DEFINE dead == Reached \cup UNION {Blocked(id) : id \in Resources}
<1>3. ASSUME NEW r \in LiveOnes PROVE r \in dead
  <2>1. \/ \E a \in Maps : r \in map[a]
        \/ \E a \in Lists : r \in Listed[a]
        \/ \E a \in Resources : r \in Elements(table[a].blocked)
    BY <1>1, <1>3, Apart
  <2>2. ASSUME NEW a \in Maps, r \in map[a] PROVE r \in Reached
    BY <2>2 DEF Reached
  <2>3. ASSUME NEW a \in Lists, r \in Listed[a] PROVE r \in Reached
    <3>1. a \in {"pending", "injected"}
      BY <1>2, <2>3, ListedAt DEF Lists, Elements
    <3>2. r \in Elements(pending) \/ r \in Elements(injected)
      BY <2>3, <3>1, ListedAt
    <3> QED
      BY <3>2 DEF Reached, Elements
  <2>4. ASSUME NEW a \in Resources, r \in Elements(table[a].blocked) PROVE r \in dead
    <3>1. r \in Blocked(a)
      BY <2>4 DEF Blocked, Elements
    <3> QED
      BY <3>1
  <2> QED
    BY <2>1, <2>2, <2>3, <2>4
<1> HIDE DEF dead
<1>4. ASSUME NEW r \in Requests PROVE ~Live(r)'
  <2>1. req'[r] = IF r \in dead THEN [req[r] EXCEPT !.life = "torn", !.handle = FALSE,
                                                    !.retained = FALSE] ELSE req[r]
    BY DEF Teardown, dead
  <2>2. CASE r \in dead
    <3>1. req[r] \in RequestRec
      BY Given
    <3>2. \A q \in RequestRec : [q EXCEPT !.life = "torn", !.handle = FALSE,
                                          !.retained = FALSE].life = "torn"
      BY DEF RequestRec
    <3>3. req'[r].life = "torn"
      BY <2>1, <2>2, <3>1, <3>2
    <3> QED
      BY <3>3 DEF Live
  <2>3. CASE r \notin dead
    BY <1>3, <2>1, <2>3 DEF LiveOnes, Live
  <2> QED
    BY <2>2, <2>3
<1>5. \A id \in Resources : table'[id].st = "none"
  BY DEF Teardown, NoNode
<1> QED
  BY <1>4, <1>5 DEF TeardownComplete

\* Only destroying the loop ends it.
LEMMA OnlyTeardownEnds ==
    ASSUME EInv, [Next]_vars, pc' = "destroyed"
    PROVE  pc = "destroyed" \/ (pc = "idle" /\ Teardown)
<1>0. pc \in Points /\ pub \in PubRec /\ pub.back \in Callers
  BY Given DEF LocalTypes, PubRec, IInv, TypeOK, ControlTypes
<1>1. CASE UNCHANGED vars \/ Tick \/ \E r \in Requests : TransferDone(r)
  BY <1>1 DEF vars, Tick, TransferDone
<1>2. CASE \E c \in Calls : Call(c)
  BY <1>2 DEF Call, RequestSubmit, LoopSubmit, Enlist, Cancel, Inject, Stop, Post, NodeCall,
        PublishCall, BeginPublish, Run, DestroyLoop, Crash, Goto
<1>3. ~Scheduler
  BY DEF Scheduler, Detach, CancelOne, CancelsDone, TakePending, DropCancelled, Admit,
        Launch, EnterRated, MoveRated, MergeRated, MoveWaiting, LeaveWaiting, Crash, Goto
<1>4. ~Completions
  BY DEF Completions, CompleteOne, CompletionsDone, Finish429, FinishDelay, FinishRetry,
        FinishFinal, InjectedOne, InjectedDone, Finishes, BeginPublish, Crash, Goto
<1>5. ~ResourceOps
  BY <1>0 DEF ResourceOps, Drain, ApplyOp, OpsDone, RequeueRead, RequeueWrite, FailWaiter,
        PublishEnd, BeginPublish, Crash, Goto, Callers
<1>6. ~(Top \/ OnLoop \/ PerformEnd \/ ExitTest \/ Wait)
  BY DEF Top, OnLoop, PerformEnd, ExitTest, Wait, Goto
<1> QED
  BY <1>1, <1>2, <1>3, <1>4, <1>5, <1>6 DEF Next, LoopStep, Over

\* Nobody hands a request to a loop that was destroyed.
LEMMA DestroyedStays ==
    ASSUME NothingAfterDestroy, pc = "destroyed", TeardownComplete, [Next]_vars
    PROVE  TeardownComplete'
<1>1. UNCHANGED <<pc, table>>
  BY OverStill
<1>2. CASE UNCHANGED vars \/ Over
  BY <1>2 DEF vars, Over, sched, TeardownComplete, Live
<1>3. ~LoopStep /\ ~Tick /\ ~\E r \in Requests : TransferDone(r)
  BY NothingRuns
<1>4. ASSUME NEW c \in Calls, Call(c) PROVE req' = req
  <2>1. ~(RequestSubmit(c) \/ LoopSubmit(c) \/ Inject(c) \/ Run(c) \/ DestroyLoop(c))
    BY DEF RequestSubmit, LoopSubmit, Inject, Run, DestroyLoop, Makes, NothingAfterDestroy,
          Submits
  <2>2. ~Cancel(c)
    BY CallsAssumption DEF Cancel, TeardownComplete, Makes
  <2> QED
    BY <1>4, <2>1, <2>2 DEF Call, Stop, Post, NodeCall, PublishCall, sched
<1> QED
  BY <1>1, <1>2, <1>3, <1>4 DEF Next, TeardownComplete, Live

\* In every instance whose callers keep the discipline and hand no request to a
\* loop they destroyed, curl_event_loop_destroy leaves no request and no resource
\* behind, whatever state the stop or the end of the loop left them in.
THEOREM TeardownReachesAll ==
    ASSUME Disciplined, NothingAfterDestroy
    PROVE  Spec => []TeardownComplete
<1>1. Init => EInv /\ TeardownComplete
  <2>1. Init => TeardownComplete
    BY DEF Init, TeardownComplete
  <2> QED
    BY <2>1, InitEInv
<1>2. EInv /\ TeardownComplete /\ [Next]_vars => EInv' /\ TeardownComplete'
  <2> SUFFICES ASSUME EInv, TeardownComplete, [Next]_vars PROVE EInv' /\ TeardownComplete'
    OBVIOUS
  <2>1. EInv'
    BY NextEInv
  <2>2. CASE pc' # "destroyed"
    BY <2>1, <2>2 DEF TeardownComplete
  <2>3. CASE pc' = "destroyed"
    BY <2>1, <2>3, OnlyTeardownEnds, TeardownLeavesNone, DestroyedStays
  <2> QED
    BY <2>2, <2>3
<1> QED
  BY <1>1, <1>2, PTL DEF Spec

----------------------------------------------------------------------------
(* The counters of the maps. *)

Counted == {"queued", "inactive", "refresh"}
Sized(m, n) == \A k \in Counted : n[k] = Cardinality(m[k])
\* Where the counters are still kept they are right, and then nothing runs.
CountsOK == IF pc = "destroyed" THEN map["queued"] = {} ELSE Sized(map, num)

MapsType == [Maps -> SUBSET Requests]
NumsType == [Counters -> Int]

\* A map that gains or loses a request is counted up or down.
LEMMA SizedMove ==
    ASSUME NEW m \in MapsType, NEW n \in NumsType, Sized(m, n), NEW k \in Counted,
           NEW r \in Requests
    PROVE  /\ r \notin m[k] => Sized(Put(m, k, r), [n EXCEPT ![k] = @ + 1])
           /\ r \in m[k] => Sized(Take(m, k, r), [n EXCEPT ![k] = @ - 1])
<1>1. /\ \A x \in Counted : x \in Maps /\ x \in Counters /\ IsFiniteSet(m[x])
      /\ \A x \in Counted : Cardinality(m[x]) = n[x] /\ n[x] \in Int
  <2>1. \A x \in Counted : x \in Maps /\ x \in Counters
    BY DEF Counted, Maps, Counters
  <2>2. \A x \in Counted : m[x] \in SUBSET Requests
    BY <2>1 DEF MapsType
  <2> QED
    BY <2>1, <2>2, FS_Subset, SetsAssumption DEF Sized, NumsType
<1>2. /\ Put(m, k, r)[k] = m[k] \cup {r} /\ Take(m, k, r)[k] = m[k] \ {r}
      /\ \A x \in Counted \ {k} : Put(m, k, r)[x] = m[x] /\ Take(m, k, r)[x] = m[x]
  BY <1>1 DEF Put, Take, MapsType
<1> DEFINE up   == [n EXCEPT ![k] = @ + 1]
           down == [n EXCEPT ![k] = @ - 1]
<1>3. /\ up[k] = n[k] + 1 /\ down[k] = n[k] - 1
      /\ \A x \in Counted \ {k} : up[x] = n[x] /\ down[x] = n[x]
  BY <1>1 DEF NumsType
<1>4. /\ r \notin m[k] => Cardinality(m[k] \cup {r}) = n[k] + 1
      /\ r \in m[k] => Cardinality(m[k] \ {r}) = n[k] - 1
  <2> DEFINE S == m[k]
  <2>1. IsFiniteSet(S) /\ Cardinality(S) = n[k]
    BY <1>1
  <2> HIDE DEF S
  <2>2. Cardinality(S \cup {r}) = IF r \in S THEN Cardinality(S) ELSE Cardinality(S) + 1
    BY <2>1, FS_AddElement
  <2>3. Cardinality(S \ {r}) = IF r \in S THEN Cardinality(S) - 1 ELSE Cardinality(S)
    BY <2>1, FS_RemoveElement
  <2> QED
    BY <2>1, <2>2, <2>3 DEF S
<1> HIDE DEF up, down
<1>5. r \notin m[k] => Sized(Put(m, k, r), up)
  BY <1>1, <1>2, <1>3, <1>4 DEF Sized
<1>6. r \in m[k] => Sized(Take(m, k, r), down)
  BY <1>1, <1>2, <1>3, <1>4 DEF Sized
<1> QED
  BY <1>5, <1>6 DEF up, down

\* The rate limited map, the local root and the count of handles do not matter.
LEMMA SizedElse ==
    ASSUME NEW m \in MapsType, NEW n \in NumsType, Sized(m, n), NEW r
    PROVE  /\ \A k \in {"rated", "root"} : /\ Sized(Put(m, k, r), n)
                                           /\ Sized(Take(m, k, r), n)
           /\ \A i : Sized(m, [n EXCEPT !["multi"] = i])
           /\ Sized(m, Cleaned(n, r))
<1>1. \A k \in {"rated", "root"}, x \in Counted : Put(m, k, r)[x] = m[x] /\ Take(m, k, r)[x] = m[x]
  BY DEF Put, Take, MapsType, Counted, Maps
<1>2. \A i : \A x \in Counted : [n EXCEPT !["multi"] = i][x] = n[x]
  BY DEF NumsType, Counted, Counters
<1>3. \A i : Sized(m, [n EXCEPT !["multi"] = i])
  BY <1>2 DEF Sized
<1>4. \A k \in {"rated", "root"} : Sized(Put(m, k, r), n) /\ Sized(Take(m, k, r), n)
  BY <1>1 DEF Sized
<1>5. Sized(m, Cleaned(n, r))
  BY <1>3 DEF Cleaned
<1> QED
  BY <1>3, <1>4, <1>5

\* What the moves return.
LEMMA MovedTypes ==
    ASSUME NEW m \in MapsType, NEW n \in NumsType, NEW r \in Requests
    PROVE  /\ \A k \in Maps : Put(m, k, r) \in MapsType /\ Take(m, k, r) \in MapsType
           /\ \A k \in Counters, i \in Int : [n EXCEPT ![k] = i] \in NumsType
           /\ \A k \in Counters : n[k] \in Int
           /\ Cleaned(n, r) \in NumsType
<1>1. \A k \in Counters, i \in Int : [n EXCEPT ![k] = i] \in NumsType
  BY DEF NumsType
<1>2. \A k \in Counters : n[k] \in Int
  BY DEF NumsType
<1>3. "multi" \in Counters
  BY DEF Counters
<1>4. Cleaned(n, r) \in NumsType
  BY <1>1, <1>2, <1>3 DEF Cleaned
<1>5. \A k \in Maps : Put(m, k, r) \in MapsType /\ Take(m, k, r) \in MapsType
  BY DEF Put, Take, MapsType
<1> QED
  BY <1>1, <1>2, <1>4, <1>5

\* A request that was taken from its place is started.
LEMMA SizedStart ==
    ASSUME NEW m \in MapsType, NEW n \in NumsType, Sized(m, n),
           NEW r \in Requests, r \notin m["queued"], Start(r, m, n)
    PROVE  Sized(map', num')
<1>1. CASE StartRated(r, m, n)
  BY <1>1, SizedElse DEF StartRated
<1>2. CASE StartUnprepared(r, m, n)
  BY <1>2 DEF StartUnprepared
<1>3. CASE StartTransfer(r, m, n)
  <2> DEFINE i == n["multi"] + 1
             o == [n EXCEPT !["multi"] = i]
  <2>1. map' = Put(m, "queued", r) /\ num' = [o EXCEPT !["queued"] = @ + 1]
    BY <1>3 DEF StartTransfer
  <2>2. "multi" \in Counters /\ i \in Int
    BY DEF Counters, NumsType
  <2> HIDE DEF i
  <2>3. Sized(m, o) /\ o \in NumsType
    BY <2>2, SizedElse, MovedTypes
  <2>4. "queued" \in Counted
    BY DEF Counted
  <2> HIDE DEF o
  <2> QED
    BY <2>1, <2>3, <2>4, SizedMove
<1> QED
  BY <1>1, <1>2, <1>3 DEF Start

\* A request in the loop's hand is in no map.
LEMMA HandUnmapped ==
    ASSUME EInv, cur.req \in Requests
    PROVE  \A k \in Maps : cur.req \notin map[k]
<1>1. Partition(Spread(map, Listed, table), LiveOnes)
  BY Given
<1>2. cur.req \in Listed["hand"] /\ "hand" \in Lists
  BY SetsAssumption, ListedAt DEF Lists
<1>3. \A k \in Maps, x \in Lists : map[k] \cap Listed[x] = {}
  BY <1>1, Apart
<1> QED
  BY <1>2, <1>3

\* A request is in one map only.
LEMMA OneMap ==
    ASSUME EInv, NEW j \in Maps, NEW k \in Maps, j # k, NEW r \in map[j]
    PROVE  r \notin map[k]
<1>1. Partition(Spread(map, Listed, table), LiveOnes)
  BY Given
<1>2. \A a, b \in Maps : a # b => map[a] \cap map[b] = {}
  BY <1>1, Apart
<1> QED
  BY <1>2

\* A request of the rate limited maps, or of one that is counted, moves on.
LEMMA MovedSized ==
    ASSUME EInv, Sized(map, num), NEW j \in {"root", "refresh", "inactive"},
           NEW r \in map[j], NEW n,
           n = IF j = "root" THEN num ELSE [num EXCEPT ![j] = @ - 1],
           Limit(r, j, n) \/ Start(r, Take(map, j, r), n)
    PROVE  Sized(map', num')
<1>0. /\ map \in MapsType /\ num \in NumsType /\ r \in Requests /\ j \in Maps
      /\ "queued" \in Maps
  BY Given DEF MapsType, NumsType, SchedTypes, Maps
<1> DEFINE m == Take(map, j, r)
<1>1. m \in MapsType /\ n \in NumsType /\ Sized(m, n)
  <2>1. CASE j = "root"
    BY <1>0, <2>1, SizedElse, MovedTypes
  <2>2. CASE j \in {"refresh", "inactive"}
    <3>1. j \in Counted /\ j \in Counters /\ n = [num EXCEPT ![j] = @ - 1]
      BY <2>2 DEF Counted, Counters
    <3>2. n \in NumsType
      <4> DEFINE i == num[j] - 1
      <4>0. num[j] \in Int
        BY <1>0, <3>1 DEF NumsType
      <4>1. i \in Int
        BY <4>0
      <4>3. n = [num EXCEPT ![j] = i]
        BY <3>1, Zenon
      <4> HIDE DEF i
      <4>2. [num EXCEPT ![j] = i] \in NumsType
        BY <1>0, <3>1, <4>1, MovedTypes
      <4> QED
        BY <4>2, <4>3
    <3>3. Sized(m, [num EXCEPT ![j] = @ - 1])
      BY <1>0, <3>1, SizedMove
    <3> QED
      BY <1>0, <3>1, <3>2, <3>3, MovedTypes
  <2> QED
    BY <2>1, <2>2
<1>2. r \notin m["queued"]
  <2>1. r \notin map["queued"]
    BY <1>0, OneMap
  <2>2. m["queued"] \subseteq map["queued"]
    BY <1>0 DEF Take, MapsType
  <2> QED
    BY <2>1, <2>2
<1>3. CASE Limit(r, j, n)
  <2>1. map' = Put(m, "rated", r) /\ num' = n
    BY <1>3 DEF Limit
  <2> HIDE DEF m
  <2> QED
    BY <1>1, <2>1, SizedElse
<1>4. CASE Start(r, Take(map, j, r), n)
  <2>1. Start(r, m, n)
    BY <1>4
  <2> HIDE DEF m
  <2> QED
    BY <1>0, <1>1, <1>2, <2>1, SizedStart
<1> QED
  BY <1>3, <1>4

\* The steps of the scheduler.
LEMMA SchedulerSized ==
    ASSUME EInv, Sized(map, num), Scheduler
    PROVE  Sized(map', num')
<1>0. /\ map \in MapsType /\ num \in NumsType /\ HandsOK /\ work.cancelled \in Seq(Requests)
  BY Given DEF MapsType, NumsType, SchedTypes, LocalTypes, WorkRec
<1>1. CASE \/ Detach \/ CancelsDone \/ TakePending \/ Admit
           \/ LeaveWaiting("refresh", "inactive") \/ LeaveWaiting("inactive", "perform")
           \/ Crash
  BY <1>1 DEF Detach, CancelsDone, TakePending, Admit, LeaveWaiting, Crash, sched
<1>2. CASE CancelOne /\ ~Crash
  <2> DEFINE r == Head(work.cancelled)
             k == CancelledFrom(r)
             n == [num EXCEPT ![k] = @ - 1]
  <2>1. r \in map[k] /\ map' = Take(map, k, r) /\ num' = Cleaned(n, r)
    BY <1>2 DEF CancelOne, Destroy
  <2>2. r \in Requests
    BY <1>0, <1>2 DEF CancelOne
  <2>3. k \in Counted /\ k \in Maps /\ k \in Counters
    BY DEF CancelledFrom, Home, Counted, Maps, Counters
  <2> HIDE DEF r, k
  <2>4. Sized(Take(map, k, r), n) /\ Take(map, k, r) \in MapsType
    BY <1>0, <2>1, <2>2, <2>3, SizedMove, MovedTypes
  <2>5. n \in NumsType
    BY <1>0, <2>2, <2>3, MovedTypes
  <2> HIDE DEF n
  <2> QED
    BY <2>1, <2>4, <2>5, SizedElse
<1>3. CASE DropCancelled
  <2>1. map' = map /\ num' = Cleaned(num, cur.req)
    BY <1>3 DEF DropCancelled, Destroy
  <2> QED
    BY <1>0, <2>1, SizedElse
<1>4. CASE Launch
  <2> DEFINE r == cur.req
  <2>1. r \in Requests /\ \A k \in Maps : r \notin map[k]
    BY <1>0, <1>4, HandUnmapped DEF Launch, HandsOK, Handling
  <2>2. Home(r) \in Counted /\ Home(r) \in Maps /\ "queued" \in Maps
    BY DEF Home, Counted, Maps
  <2>3. \/ Start(r, map, num)
        \/ map' = Put(map, Home(r), r) /\ num' = [num EXCEPT ![Home(r)] = @ + 1]
    BY <1>4 DEF Launch
  <2> HIDE DEF r
  <2>4. CASE Start(r, map, num)
    BY <1>0, <2>1, <2>2, <2>4, SizedStart
  <2>5. CASE map' = Put(map, Home(r), r) /\ num' = [num EXCEPT ![Home(r)] = @ + 1]
    BY <1>0, <2>1, <2>2, <2>5, SizedMove
  <2> QED
    BY <2>3, <2>4, <2>5
<1>5. CASE EnterRated \/ MergeRated
  <2>1. num' = num /\ \A x \in Counted : map'[x] = map[x]
    BY <1>0, <1>5 DEF EnterRated, MergeRated, Counted, MapsType, Maps
  <2> QED
    BY <2>1 DEF Sized
<1>6. CASE MoveRated
  <2>1. \E r \in map["root"] : Limit(r, "root", num) \/ Start(r, Take(map, "root", r), num)
    BY <1>6 DEF MoveRated, Firsts
  <2> QED
    BY <2>1, MovedSized
<1>7. ASSUME NEW k \in {"refresh", "inactive"}, MoveWaiting(k) PROVE Sized(map', num')
  <2> DEFINE n == [num EXCEPT ![k] = @ - 1]
  <2>1. \E r \in map[k] : Limit(r, k, n) \/ Start(r, Take(map, k, r), n)
    BY <1>7 DEF MoveWaiting, Firsts
  <2>2. n = IF k = "root" THEN num ELSE [num EXCEPT ![k] = @ - 1]
    OBVIOUS
  <2> HIDE DEF n
  <2> QED
    BY <2>1, <2>2, MovedSized
<1> QED
  BY <1>1, <1>2, <1>3, <1>4, <1>5, <1>6, <1>7 DEF Scheduler

\* The message that is read is about a request in the queue.
LEMMA ReadQueued ==
    ASSUME EInv, msgs # << >>
    PROVE  Head(msgs).req \in map["queued"] /\ Head(msgs).req \in Requests
<1>1. msgs \in Seq(MsgRec) /\ MsgsOK /\ map["queued"] \subseteq Requests
  BY Given DEF SchedTypes, Maps
<1>2. 1 \in DOMAIN msgs /\ Head(msgs) = msgs[1]
  BY <1>1
<1> QED
  BY <1>1, <1>2 DEF MsgsOK

\* A finished request goes back to its map.
LEMMA RequeuedSized ==
    ASSUME EInv, Sized(map, num), cur.req \in Requests, NEW q, Requeue(cur.req, q)
    PROVE  Sized(map', num')
<1> DEFINE r == cur.req
           n == Cleaned(num, r)
<1>1. /\ map \in MapsType /\ num \in NumsType /\ \A k \in Maps : r \notin map[k]
  BY Given, HandUnmapped DEF MapsType, NumsType, SchedTypes
<1>2. Home(r) \in Counted /\ Home(r) \in Maps
  BY DEF Home, Counted, Maps
<1>3. map' = Put(map, Home(r), r) /\ num' = [n EXCEPT ![Home(r)] = @ + 1] /\ r \in Requests
  BY DEF Requeue, Requeued
<1> HIDE DEF r
<1>4. n \in NumsType /\ Sized(map, n)
  BY <1>1, <1>3, SizedElse, MovedTypes
<1> HIDE DEF n
<1> QED
  BY <1>1, <1>2, <1>3, <1>4, SizedMove

\* The steps of the completions.
LEMMA CompletionSized ==
    ASSUME EInv, Sized(map, num), Completions
    PROVE  Sized(map', num')
<1>0. map \in MapsType /\ num \in NumsType /\ HandsOK
  BY Given DEF MapsType, NumsType, SchedTypes
<1>1. CASE CompletionsDone \/ InjectedOne \/ InjectedDone \/ Crash
  BY <1>1 DEF CompletionsDone, InjectedOne, InjectedDone, Crash, sched
<1>2. CASE CompleteOne
  <2> DEFINE r == Head(msgs).req
  <2>1. /\ r \in map["queued"] /\ r \in Requests /\ map' = Take(map, "queued", r)
        /\ num' = [num EXCEPT !["queued"] = @ - 1]
    BY <1>2, ReadQueued DEF CompleteOne
  <2>2. "queued" \in Counted
    BY DEF Counted
  <2> HIDE DEF r
  <2> QED
    BY <1>0, <2>1, <2>2, SizedMove
<1>3. pc = "finish" => cur.req \in Requests
  BY <1>0 DEF HandsOK, Handling
<1>4. CASE Finish429
  <2>1. map' = Put(map, "rated", cur.req) /\ num' = num
    BY <1>4 DEF Finish429
  <2> QED
    BY <1>0, <2>1, SizedElse
<1>5. CASE FinishDelay \/ (FinishRetry /\ ~Crash) \/ FinishFinal
  <2>1. pc = "finish"
    BY <1>5 DEF FinishDelay, FinishRetry, FinishFinal, Finishes
  <2>2. \/ \E q : Requeue(cur.req, q)
        \/ map' = map /\ num' = Cleaned(num, cur.req)
    BY <1>5 DEF FinishDelay, FinishRetry, RetryLater, FinishFinal, Destroy
  <2> QED
    BY <1>0, <1>3, <2>1, <2>2, RequeuedSized, SizedElse
<1> QED
  BY <1>1, <1>2, <1>4, <1>5 DEF Completions

\* Every step keeps the counters right.
LEMMA NextCounts ==
    ASSUME EInv, [Next]_vars, CountsOK
    PROVE  CountsOK'
<1>0. map \in MapsType /\ num \in NumsType
  BY Given DEF MapsType, NumsType, SchedTypes
<1>1. CASE pc = "destroyed"
  <2>1. pc' = pc /\ map' = map
    BY <1>1, OverStill
  <2> QED
    BY <1>1, <2>1 DEF CountsOK
<1>2. CASE pc # "destroyed" /\ pc' = "destroyed"
  <2>1. Teardown
    BY <1>2, OnlyTeardownEnds
  <2> QED
    BY <1>2, <2>1 DEF Teardown, CountsOK, Maps
<1>3. CASE pc # "destroyed" /\ pc' # "destroyed"
  <2>0. Sized(map, num)
    BY <1>3 DEF CountsOK
  <2> SUFFICES Sized(map', num')
    BY <1>3 DEF CountsOK
  <2>1. CASE Scheduler \/ Completions
    BY <2>0, <2>1, SchedulerSized, CompletionSized
  <2>2. CASE ResourceOps
    <3>1. map' = map /\ (num' = num \/ \E r : num' = Cleaned(num, r))
      BY <2>2 DEF ResourceOps, Drain, ApplyOp, OpsDone, RequeueRead, RequeueWrite,
            FailWaiter, PublishEnd, Destroy, Crash, sched
    <3> QED
      BY <1>0, <2>0, <3>1, SizedElse
  <2>3. CASE \E c \in Calls : Call(c)
    <3>1. map' = map /\ num' = num
      BY <1>3, <2>3 DEF Call, RequestSubmit, LoopSubmit, Enlist, Cancel, Inject, Stop, Post,
            NodeCall, PublishCall, Run, DestroyLoop, Teardown, Crash, Goto, sched
    <3> QED
      BY <2>0, <3>1
  <2>4. CASE \/ UNCHANGED vars \/ Top \/ OnLoop \/ PerformEnd \/ ExitTest \/ Wait \/ Tick
             \/ \E r \in Requests : TransferDone(r)
    <3>1. map' = map /\ num' = num
      BY <2>4 DEF vars, Top, OnLoop, PerformEnd, ExitTest, Wait, Tick, TransferDone, sched
    <3> QED
      BY <2>0, <3>1
  <2> QED
    BY <2>1, <2>2, <2>3, <2>4 DEF Next, LoopStep, Over
<1> QED
  BY <1>1, <1>2, <1>3

\* The counters of a loop that was just initialised.
LEMMA InitCounts == Init => CountsOK
<1> SUFFICES ASSUME Init PROVE CountsOK
  OBVIOUS
<1>1. \A k \in Counted : map[k] = {} /\ num[k] = 0
  BY DEF Init, Counted, Maps, Counters
<1>2. Cardinality({}) = 0
  BY FS_EmptySet
<1>3. Sized(map, num)
  BY <1>1, <1>2 DEF Sized
<1> QED
  BY <1>3 DEF Init, CountsOK

\* In every instance whose callers keep the discipline, num_queued_requests,
\* num_inactive_requests and num_refresh_requests, by which the scheduler decides,
\* are the sizes of the maps they stand for, on every path that moves a request.
THEOREM CountersTrue ==
    ASSUME Disciplined
    PROVE  Spec => []CountersMatch
<1>1. Init => EInv /\ CountsOK
  BY InitEInv, InitCounts
<1>2. EInv /\ CountsOK /\ [Next]_vars => EInv' /\ CountsOK'
  BY NextEInv, NextCounts
<1>3. CountsOK => CountersMatch
  BY DEF CountsOK, Sized, Counted, CountersMatch
<1> QED
  BY <1>1, <1>2, <1>3, PTL DEF Spec

\* In the same instances no more than max_concurrent_requests transfers are in
\* flight at a time: the counter is bounded, and it is the number of transfers.
THEOREM TransfersBounded ==
    ASSUME Disciplined
    PROVE  Spec => []ConcurrencyLimit
<1>1. Init => EInv /\ CountsOK
  BY InitEInv, InitCounts
<1>2. EInv /\ CountsOK /\ [Next]_vars => EInv' /\ CountsOK'
  BY NextEInv, NextCounts
<1>3. Spec => []QueuedBounded
  BY AdmissionBounded
<1>4. CountsOK /\ QueuedBounded => ConcurrencyLimit
  <2> SUFFICES ASSUME CountsOK, QueuedBounded PROVE ConcurrencyLimit
    OBVIOUS
  <2>1. CASE pc = "destroyed"
    <3>1. map["queued"] = {} /\ Cardinality({}) = 0
      BY <2>1, FS_EmptySet DEF CountsOK
    <3> QED
      BY <3>1, BoundsAssumption DEF ConcurrencyLimit
  <2>2. CASE pc # "destroyed"
    BY <2>2 DEF CountsOK, Sized, Counted, QueuedBounded, ConcurrencyLimit
  <2> QED
    BY <2>1, <2>2
<1> QED
  BY <1>1, <1>2, <1>3, <1>4, PTL DEF Spec
=============================================================================
