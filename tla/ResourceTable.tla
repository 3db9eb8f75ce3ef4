---------------------------- MODULE ResourceTable ----------------------------
(***************************************************************************)
(* The node of a shared resource (curl_event_res_t, src/src/               *)
(* curl_resource.c) and what each operation of that file does to one node. *)
(* The operators are pure: EventLoop keeps the table of nodes and says     *)
(* when they are applied.                                                  *)
(*                                                                         *)
(* st folds payload and failed into one value: "none" there is no node,    *)
(* "empty" no payload and not failed, "ready" a payload, "failed" the      *)
(* resource was published with a NULL payload.  held is specification-only *)
(* state: how many of the references belong to the application (declare,   *)
(* register, addref) and were not given back yet.                          *)
(***************************************************************************)
EXTENDS Integers, Sequences

NodeStates == {"none", "empty", "ready", "failed"}

NoNode == [st |-> "none", refcnt |-> 0, auto |-> FALSE, held |-> 0,
           blocked |-> << >>]

\* res_get_or_create: a placeholder has no reference until someone takes one.
GetOrCreate(n) == IF n.st = "none" THEN [NoNode EXCEPT !.st = "empty"] ELSE n

\* curl_event_res_declare: a fresh node, one reference, the application's.
DeclareNode(n) == [NoNode EXCEPT !.st = "empty", !.refcnt = 1, !.held = 1]

\* curl_event_res_addref.
AddRefNode(n) == LET m == GetOrCreate(n)
                 IN  [m EXCEPT !.refcnt = @ + 1, !.held = @ + 1]

\* curl_event_res_autorelease_owner with enable = true.
AutoNode(n) == [GetOrCreate(n) EXCEPT !.auto = TRUE]

\* One step of curl_resource_retain_request_deps.
RetainNode(n) == [GetOrCreate(n) EXCEPT !.refcnt = @ + 1]

\* curl_event_res_release: the node is erased when the count reaches zero.
ReleaseNode(n) ==
    IF n.st = "none" THEN n
    ELSE IF n.refcnt = 1 THEN NoNode
    ELSE [n EXCEPT !.refcnt = @ - 1, !.held = IF @ > 0 THEN @ - 1 ELSE 0]

\* Mutant of MaybeAutorelease: off by one.
AutoreleaseEarly(n) ==
    IF n.auto /\ n.refcnt <= 2 /\ n.blocked = << >> THEN NoNode ELSE n
\* maybe_autorelease_owner.
MaybeAutorelease(n) ==
    IF n.auto /\ n.refcnt = 1 /\ n.blocked = << >> THEN ReleaseNode(n) ELSE n

\* One step of curl_resource_release_request_deps: the count stops at zero and
\* the node stays, unless the owner's reference is released automatically.
DropDep(n) ==
    IF n.st = "none" THEN n
    ELSE MaybeAutorelease([n EXCEPT !.refcnt = IF @ > 0 THEN @ - 1 ELSE 0])

\* Mutant of BlockNode: the waiters that were there are lost.
BlockOnly(n, r) == [GetOrCreate(n) EXCEPT !.blocked = <<r>>]
\* block_request_on_res behind curl_resource_block_on_id.
BlockNode(n, r) == LET m == GetOrCreate(n)
                   IN  [m EXCEPT !.blocked = Append(@, r)]

\* Mutant of PublishNode: the waiters are not detached.
PublishKeepingWaiters(n, ok, registers) ==
    LET m == GetOrCreate(n) IN
    [m EXCEPT !.st   = IF ok THEN "ready" ELSE "failed",
              !.refcnt = IF @ = 0 THEN 1 ELSE @,
              !.held = IF @ = 0 /\ (m.refcnt = 0 \/ registers) THEN 1 ELSE @]
\* Mutant of PublishNode: publishing starts the count anew.
PublishAnew(n, ok, registers) ==
    [GetOrCreate(n) EXCEPT !.st = IF ok THEN "ready" ELSE "failed",
                           !.refcnt = 1, !.held = 1, !.blocked = << >>]
\* The part of curl_event_res_publish before its loop over the detached waiters.
\* registers: the call came from a register, which hands the caller a reference.
PublishNode(n, ok, registers) ==
    LET m == GetOrCreate(n) IN
    [m EXCEPT !.st      = IF ok THEN "ready" ELSE "failed",
              !.refcnt  = IF @ = 0 THEN 1 ELSE @,
              !.held    = IF @ = 0 /\ (m.refcnt = 0 \/ registers) THEN 1 ELSE @,
              !.blocked = << >>]

\* The readiness test of curl_resource_all_ready_list for one node.
Published(n) == n.st \in {"ready", "failed"}
=============================================================================
