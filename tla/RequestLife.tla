----------------------------- MODULE RequestLife ------------------------------
(***************************************************************************)
(* What the loop promises of a request, without its containers, lists and  *)
(* counters: an accepted request waits, runs while there is room and its   *)
(* dependencies are there, is answered by one callback for each time it    *)
(* ran, and ends once.                                                     *)
(***************************************************************************)
EXTENDS Naturals, FiniteSets

CONSTANTS
    Requests,
    Deps,          \* [Requests -> sets of resources]
    Repeats,       \* the requests that may run more than once
    MaxConcurrent

VARIABLES
    phase,         \* "new", "waiting", "running", "answered" or "ended"
    available,     \* the published resources
    marked         \* the cancelled requests

life == <<phase, available, marked>>

Running == {r \in Requests : phase[r] = "running"}

Init == /\ phase = [r \in Requests |-> "new"]
        /\ available = {} /\ marked = {}

Moves(r, from, to) == phase[r] = from /\ phase' = [phase EXCEPT ![r] = to]

Accept(r) == Moves(r, "new", "waiting")

\* A cancelled request is not started.
Begin(r) ==
    /\ Cardinality(Running) < MaxConcurrent /\ r \notin marked
    /\ Moves(r, "waiting", "running")

\* Its callback runs: only then is a request that ran done with.
Answer(r) == Moves(r, "running", "answered")

Repeat(r) == r \in Repeats /\ Moves(r, "answered", "waiting")

\* A request that ran is ended by its answer, or unanswered if it is cancelled.
End(r) ==
    \/ Moves(r, "answered", "ended")
    \/ Moves(r, "waiting", "ended")
    \/ r \in marked /\ Moves(r, "running", "ended")

\* The loop is destroyed.
EndAll == phase' = [r \in Requests |-> IF phase[r] = "new" THEN "new" ELSE "ended"]

\* A step of a request may publish or withdraw resources, but none that a
\* running request depends on; a cancellation is never taken back.
Next ==
    /\ \/ \E r \in Requests : Accept(r) \/ Begin(r) \/ Answer(r) \/ Repeat(r) \/ End(r)
       \/ EndAll
       \/ UNCHANGED phase
    /\ marked \subseteq marked'
    /\ \A r \in Requests : phase'[r] = "running" => Deps[r] \subseteq available'

Spec == Init /\ [][Next]_life
=============================================================================
