------------------------------ MODULE MCLoopLive ------------------------------
(***************************************************************************)
(* Liveness, and the end: login publishes the token, or NULL when it fails; *)
(* user waits for it and retries once; fresh is run again for ever; another *)
(* thread registers a key and may stop the loop.  Whenever that is not     *)
(* running the application may fail the token or destroy the loop, with    *)
(* whatever is then pending, in flight, refreshing, waiting for a retry or *)
(* for the token.  Room for two transfers: fresh may keep one for itself.  *)
(***************************************************************************)
EXTENDS EventLoopInv

CONSTANTS login, user, fresh, token, key, none

MCRequests   == {login, user, fresh}
MCResources  == {token, key}
MCDeps       == [r \in MCRequests |-> IF r = user THEN {token} ELSE {}]
MCMaxRetries == [r \in MCRequests |-> IF r = user THEN 1 ELSE 0]
MCPriority   == [r \in MCRequests |-> 0]
MCPast       == -1
MCOutcomes   == [r \in MCRequests |-> IF r = fresh THEN {"ok"} ELSE {"ok", "error"}]
MCReturns    == [r \in MCRequests |->
                    [o \in {"ok", "fail"} |->
                        IF r = user /\ o = "fail" THEN {-1} ELSE {0}]]
MCPublishes  == [r \in MCRequests |-> IF r = login THEN token ELSE None]

On(op, x)   == [op |-> op, on |-> x, ok |-> TRUE]
Null(op, x) == [op |-> op, on |-> x, ok |-> FALSE]
MCCalls == {On("run", None), On("stop", None), On("destroy", None),
            On("submit", login), On("submit", user), On("loop_submit", fresh),
            On("register_async", key), Null("publish", token)}

(* A stop is seen at "top" only: "onloop" and "finish" have no sleep between   *)
(* them and it, "wait" has.  A submission in "wait" is seen when one made by   *)
(* the next "onloop" is.                                                      *)
MCWindow == [op \in Operations |->
                CASE op \in {"run", "destroy", "loop_submit", "publish"}
                                           -> {"idle"}
                  [] op = "register_async" -> {"onloop", "drain"}
                  [] op = "submit"         -> {"idle", "onloop", "finish"}
                  [] op = "stop"           -> {"onloop", "finish", "wait"}
                  [] OTHER -> {}]

(* The callers of this instance submit, cancel, retry and destroy as the     *)
(* theorems about the loop suppose, and no 429 keeps a handle in the multi.  *)
ASSUME CallersAssumption == CancelsPlainly /\ NothingAfterDestroy /\ Throttled = {}
=============================================================================
