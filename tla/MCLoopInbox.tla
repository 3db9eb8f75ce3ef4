------------------------------ MODULE MCLoopInbox -----------------------------
(***************************************************************************)
(* A thread publishes a key to the running loop, at any moment.            *)
(***************************************************************************)
EXTENDS EventLoopProps

CONSTANTS user, key, none

MCRequests   == {user}
MCResources  == {key}
MCDeps       == [r \in MCRequests |-> {key}]
MCMaxRetries == [r \in MCRequests |-> 0]
MCPriority   == [r \in MCRequests |-> 0]
MCPast       == -1
MCOutcomes   == [r \in MCRequests |-> {"ok"}]
MCReturns    == [r \in MCRequests |-> [o \in {"ok", "fail"} |-> {0}]]
MCPublishes  == [r \in MCRequests |-> None]

On(op, x) == [op |-> op, on |-> x, ok |-> TRUE]
MCCalls == {On("run", None), On("submit", user), On("publish_async", key)}

MCWindow == [op \in Operations |->
                CASE op \in {"run", "submit"} -> {"idle"}
                  [] op \in LoopThread -> {}
                  [] OTHER -> Points \ {"idle", "destroyed", "crashed"}]
=============================================================================
