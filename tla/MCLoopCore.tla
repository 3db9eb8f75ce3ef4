------------------------------ MODULE MCLoopCore ------------------------------
(***************************************************************************)
(* Three kinds of request on one loop with room for one transfer: a plain  *)
(* one that is retried and cancelled, one behind a rate limit that meets a *)
(* 429, one that refreshes.                                                *)
(***************************************************************************)
EXTENDS EventLoopInv

CONSTANTS plain, rated, fresh, none

MCRequests  == {plain, rated, fresh}
MCResources == {}
MCDeps      == [r \in MCRequests |-> {}]
MCMaxRetries == [r \in MCRequests |-> IF r = plain THEN 1 ELSE 0]
MCPriority   == [r \in MCRequests |-> IF r = plain THEN 1 ELSE 0]
MCOutcomes   == [r \in MCRequests |->
                    CASE r = rated -> {"ok", "error", "429"}
                      [] r = fresh -> {"ok"}
                      [] OTHER     -> {"ok", "error"}]
MCReturns    == [r \in MCRequests |->
                    [o \in {"ok", "fail"} |->
                        CASE r = plain /\ o = "fail" -> {-1, 1}
                          [] r = rated /\ o = "fail" -> {-1, 0}
                          [] OTHER -> {0}]]
MCPast       == -1
MCPublishes  == [r \in MCRequests |-> None]

On(op, x) == [op |-> op, on |-> x, ok |-> TRUE]
MCCalls == {On("run", None), On("submit", plain), On("submit", rated),
            On("loop_submit", fresh), On("cancel", plain), On("cancel", fresh)}

(* A submission touches nothing the loop looks at but pending_requests, which *)
(* is read at "detach" and "exit": these windows have a point between any two *)
(* of those, and a point inside the completions for a callback that submits.  *)
(* A cancellation falls between two iterations, where the requests it names   *)
(* do not move: after the completions of one, before the next detaches.       *)
MCWindow == [op \in Operations |->
                CASE op = "cancel"  -> {"onloop", "exit", "wait"}
                  [] op = "run"     -> {"idle"}
                  [] op \in LoopThread -> {}
                  [] OTHER          -> {"idle", "onloop", "finish", "wait"}]

(* The callers of this instance submit, cancel, retry and destroy as the     *)
(* theorems about the loop suppose.                                          *)
ASSUME CallersAssumption == CancelsPlainly /\ NothingAfterDestroy
=============================================================================
