----------------------------- MODULE TokenBucket -----------------------------
(***************************************************************************)
(* What a limit of so many requests per second means: tokens drip into a   *)
(* bucket that holds one second's worth, and a request draws one.  An      *)
(* observer adds up what is drawn in a window that it opens when it likes. *)
(***************************************************************************)
EXTENDS Integers

CONSTANTS
    Token,    \* what a request draws, in units
    Second,   \* ticks in a second
    Rates,    \* the limits that may be set, in units per tick
    Horizon   \* bound: the longest window, in ticks

VARIABLES
    drip,     \* units per tick; 0 when there is no limit
    level,    \* units in the bucket
    age,      \* ticks since the observer opened its window
    drawn     \* units drawn since then

bucket == <<drip, level, age, drawn>>

Least(a, b) == IF a < b THEN a ELSE b

BucketInit ==
    /\ drip \in Rates \cup {0} /\ level = drip * Second
    /\ age = 0 /\ drawn = 0

\* A limit that is set, or removed, starts over with a full bucket.
Reset(q) ==
    /\ drip' = q /\ level' = q * Second
    /\ age' = 0 /\ drawn' = 0

Draw ==
    /\ level >= Token
    /\ level' = level - Token /\ drawn' = drawn + Token
    /\ UNCHANGED <<drip, age>>

\* A window closes at its horizon and the next one opens.
Drip ==
    /\ level' = Least(drip * Second, level + drip)
    /\ IF age < Horizon THEN age' = age + 1 /\ drawn' = drawn
                        ELSE age' = 0 /\ drawn' = 0
    /\ UNCHANGED drip

Open == age' = 0 /\ drawn' = 0 /\ UNCHANGED <<drip, level>>

BucketNext == Draw \/ Drip \/ Open \/ \E q \in Rates \cup {0} : Reset(q)
BucketSpec == BucketInit /\ [][BucketNext]_bucket

\* In any window, no more is drawn than one second's worth and what has dripped
\* in since the window opened.
WindowLaw == drawn <= drip * Second + drip * age
=============================================================================
