------------------------------- MODULE WorkBag -------------------------------
(***************************************************************************)
(* What a pool of workers promises to those who give it work: every item   *)
(* is begun once, in the order of submission, at most Limit are under way  *)
(* at a time, every item is finished, and the pool closes only when it has *)
(* nothing left to do.                                                     *)
(***************************************************************************)
EXTENDS Naturals, Sequences, FiniteSets

CONSTANTS
    Work,   \* the items
    Limit   \* how many may be under way at a time

VARIABLES
    line,   \* submitted and not begun, the oldest first
    busy,   \* under way
    over,   \* finished
    gate    \* "open", "closing" (told to close), "closed"

bag == <<line, busy, over, gate>>

Known == {line[n] : n \in DOMAIN line} \cup busy \cup over

BagInit == line = << >> /\ busy = {} /\ over = {} /\ gate = "open"

Submit(i) ==
    /\ i \notin Known
    /\ gate # "closed"
    /\ line' = Append(line, i)
    /\ UNCHANGED <<busy, over, gate>>

Begin ==
    /\ line # << >>
    /\ Cardinality(busy) < Limit
    /\ line' = Tail(line)
    /\ busy' = busy \cup {Head(line)}
    /\ UNCHANGED <<over, gate>>

Complete(i) ==
    /\ i \in busy
    /\ busy' = busy \ {i}
    /\ over' = over \cup {i}
    /\ UNCHANGED <<line, gate>>

BeginClose == gate = "open" /\ gate' = "closing" /\ UNCHANGED <<line, busy, over>>

Close ==
    /\ gate = "closing" /\ line = << >> /\ busy = {}
    /\ gate' = "closed"
    /\ UNCHANGED <<line, busy, over>>

BagNext ==
    \/ Begin \/ BeginClose \/ Close
    \/ \E i \in Work : Submit(i) \/ Complete(i)

BagSafety == BagInit /\ [][BagNext]_bag
BagSpec ==
    /\ BagSafety
    /\ WF_bag(Begin) /\ WF_bag(Close)
    /\ \A i \in Work : WF_bag(Complete(i))
=============================================================================
