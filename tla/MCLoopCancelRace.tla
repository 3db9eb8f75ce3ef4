--------------------------- MODULE MCLoopCancelRace ---------------------------
(***************************************************************************)
(* Two requests in flight; one is cancelled while libcurl performs or polls.*)
(***************************************************************************)
EXTENDS EventLoopProps

CONSTANTS plain, other, none

MCRequests   == {plain, other}
MCResources  == {}
MCDeps       == [r \in MCRequests |-> {}]
MCMaxRetries == [r \in MCRequests |-> 0]
MCPriority   == [r \in MCRequests |-> 0]
MCPast       == -1
MCOutcomes   == [r \in MCRequests |-> {"ok"}]
MCReturns    == [r \in MCRequests |-> [o \in {"ok", "fail"} |-> {0}]]
MCPublishes  == [r \in MCRequests |-> None]

On(op, x) == [op |-> op, on |-> x, ok |-> TRUE]
MCCalls == {On("run", None), On("submit", plain), On("submit", other),
            On("cancel", plain)}

MCWindow == [op \in Operations |->
                CASE op \in {"run", "submit"} -> {"idle"}
                  [] op \in LoopThread -> {}
                  [] OTHER -> {"perform", "wait"}]
=============================================================================
