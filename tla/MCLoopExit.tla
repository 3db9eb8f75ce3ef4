------------------------------ MODULE MCLoopExit ------------------------------
(***************************************************************************)
(* One rate limited request: refused by its bucket or answered with a 429, *)
(* it is moved to the rate limited map, which the exit test does not see.  *)
(***************************************************************************)
EXTENDS EventLoopProps

CONSTANTS rated, none

MCRequests   == {rated}
MCResources  == {}
MCDeps       == [r \in MCRequests |-> {}]
MCMaxRetries == [r \in MCRequests |-> 0]
MCPriority   == [r \in MCRequests |-> 0]
MCPast       == -1
MCOutcomes   == [r \in MCRequests |-> {"429", "ok"}]
MCReturns    == [r \in MCRequests |-> [o \in {"ok", "fail"} |-> {0}]]
MCPublishes  == [r \in MCRequests |-> None]

On(op, x) == [op |-> op, on |-> x, ok |-> TRUE]
MCCalls == {On("run", None), On("submit", rated)}

MCWindow == [op \in Operations |->
                CASE op \in {"run", "submit"} -> {"idle"}
                  [] op \in LoopThread -> {}
                  [] OTHER -> {}]
=============================================================================
