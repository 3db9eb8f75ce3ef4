------------------------------ MODULE MCLoopDeps ------------------------------
(***************************************************************************)
(* A token flow: login publishes the token that user and both depend on;   *)
(* both also needs a key that another thread publishes and releases; a     *)
(* synthetic completion publishes the token once more.                     *)
(***************************************************************************)
EXTENDS EventLoopInv

CONSTANTS login, user, both, synth, token, key, none

MCRequests  == {login, user, both, synth}
MCResources == {token, key}
MCDeps      == [r \in MCRequests |-> CASE r = user -> {token}
                                       [] r = both -> {token, key}
                                       [] OTHER    -> {}]
MCMaxRetries == [r \in MCRequests |-> 0]
MCPriority   == [r \in MCRequests |-> 0]
MCPast       == -1
MCOutcomes   == [r \in MCRequests |-> IF r = login THEN {"ok", "error"} ELSE {"ok"}]
MCReturns    == [r \in MCRequests |-> [o \in {"ok", "fail"} |-> {0}]]
MCPublishes  == [r \in MCRequests |-> IF r \in {login, synth} THEN token ELSE None]

On(op, x) == [op |-> op, on |-> x, ok |-> TRUE]
MCCalls == {On("run", None), On("submit", login), On("submit", user),
            On("submit", both), On("inject", synth), On("autorelease", token),
            On("publish_async", key), On("release_async", key)}

(* The threads post between the reset of the inbox at the top of an iteration *)
(* and its drain, and submit outside the loop over a resource's waiters.      *)
MCWindow == [op \in Operations |->
                CASE op = "run"         -> {"idle"}
                  [] op = "autorelease" -> {"idle", "finish"}
                  [] op \in {"publish_async", "release_async"} ->
                         {"onloop", "drain"}
                  [] OTHER -> {"idle", "onloop"}]

(* The callers of this instance submit, cancel, retry and destroy as the     *)
(* theorems about the loop suppose, and no 429 keeps a handle in the multi.  *)
ASSUME CallersAssumption == CancelsPlainly /\ NothingAfterDestroy /\ Throttled = {}
=============================================================================
