----------------------------- MODULE RateManager -----------------------------
(***************************************************************************)
(* rate_manager.c, for one key, as the event loops use it: every request   *)
(* is in a loop of its own, and the loops share the manager.  Each call    *)
(* holds the mutex once; between two calls any other thread may come.      *)
(* Tokens are counted in units, so that a refill is a whole number: Token  *)
(* is 1.0 token, and a limit of max_rps is max_rps * Token / Second units  *)
(* per tick.  Times are relative to now and no longer than can be told     *)
(* apart.                                                                  *)
(***************************************************************************)
EXTENDS Integers, FiniteSets

CONSTANTS
    Requests,    \* the requests with this rate_limit key
    High,        \* those with rate_limit_high_priority
    Refreshing,  \* those with should_refresh: run again when they are done
    Token,       \* units in a token
    Second,      \* ticks in a second: a tick is the nanosecond of the code
    Rates,       \* the limits the application sets, in units per tick
    BackoffCap,  \* the longest backoff in seconds: 60 in the code
    MaxCalls,    \* bound: calls of set_limit and destroy, peeks and 429s
    MaxHigh,     \* bound: high_priority_requests is counted up to this value
    Horizon      \* bound: the longest window the observer looks at

ASSUME RateAssumption ==
    /\ IsFiniteSet(Requests) /\ High \subseteq Requests /\ Refreshing \subseteq Requests
    /\ Token \in Nat \ {0} /\ Second \in Nat \ {0} /\ Rates \subseteq Nat \ {0}
    /\ BackoffCap \in Nat \ {0} /\ MaxCalls \in Nat /\ Horizon \in Nat
    /\ MaxHigh \in Nat \ {0}

VARIABLES
    rate,      \* max_rps; 0 when the key has no limit
    tokens,    \* tokens, as of the last refill
    idle,      \* time since last_refill, up to a second
    quiet,     \* time since last_success, up to two seconds
    current,   \* current_requests
    high,      \* high_priority_requests
    backoff,   \* backoff_seconds
    where,     \* where each request is: "waiting" in a map of its loop,
               \* "checked" once (request_is_rate_limited, or never, when it
               \* comes from the pending list), "cleared" to start, "running",
               \* "noted" (handle_429 has unlocked), "ended"
    due,       \* next_retry_at of a waiting request, relative to now
    counted,   \* specification-only: the requests whose run drew a token and
               \* of whose end the manager has not heard
    calls,     \* specification-only: the calls made, see MaxCalls
    age,       \* specification-only: the observer's window, see TokenBucket
    drawn      \* specification-only: what was drawn in it

bucketVars == <<rate, tokens, idle>>
countVars  == <<quiet, current, high, backoff>>
window     == <<age, drawn>>
vars == <<bucketVars, countVars, where, due, counted, calls, window>>

Min2(a, b) == IF a < b THEN a ELSE b
Never == -1     \* a due time in the far future
Huge  == -2     \* a wait so long that adding it to the clock wraps around

Init ==
    /\ rate \in Rates \cup {0} /\ tokens = rate * Second /\ idle = 0
    /\ quiet = 0 /\ current = 0 /\ high = 0 /\ backoff = 1
    /\ where = [r \in Requests |-> "checked"]
    /\ due = [r \in Requests |-> 0]
    /\ counted = {} /\ calls = 0 /\ age = 0 /\ drawn = 0

\* The refill at the head of can_proceed and start_request.
\* Mutant of Refilled: no fmin.
RefilledUncapped == tokens + idle * rate
Refilled == Min2(rate * Second, tokens + idle * rate)
\* Mutant of Refill: last_refill stays, and the same time is added again.
RefillSameTime(taken) == tokens' = Refilled - taken /\ UNCHANGED <<idle, rate>>
Refill(taken) == tokens' = Refilled - taken /\ idle' = 0 /\ UNCHANGED rate

\* Mutant of Waits: the wait in whole seconds.
WaitsInSeconds == {(Token - Refilled) \div (rate * Second)}
\* The wait until there is a whole token, in ticks, as the conversion to uint64_t
\* makes it.  With more than a token in the bucket the double is negative: beyond
\* -1 the conversion is undefined and gives 0 or wraps.
Waits ==
    IF Refilled <= Token THEN {(Token - Refilled) \div rate}
    ELSE IF Refilled - Token < rate THEN {0} ELSE {0, Huge}

\* Mutant of Allowed: no precedence.
AllowedInTurn(r) == Refilled >= Token
\* Both can_proceed and start_request let a request through on these terms.
Allowed(r) == Refilled >= Token /\ (r \in High \/ high = 0)

\* rate_manager_can_proceed; the answer is a wait, 0 to proceed.
Answers(r) == IF rate = 0 \/ Allowed(r) THEN {0} ELSE Waits
CanProceed(r) ==
    /\ Refill(0)
    /\ high' = IF rate # 0 /\ r \in High /\ Refilled < Token
               THEN Min2(high + 1, MaxHigh) ELSE high
    /\ UNCHANGED <<quiet, current, backoff>>

Goto(r, place, when) ==
    /\ where' = [where EXCEPT ![r] = place]
    /\ due' = [due EXCEPT ![r] = when]

\* request_is_rate_limited for the head of a map; now + Huge is in the past.
Check(r) ==
    /\ where[r] = "waiting" /\ due[r] = 0
    /\ CanProceed(r)
    /\ \E w \in Answers(r) :
          Goto(r, IF w = 0 THEN "checked" ELSE "waiting", IF w = Huge THEN 0 ELSE w)
    /\ UNCHANGED <<counted, calls, window>>

\* request_ready asks again.
Confirm(r) ==
    /\ where[r] = "checked"
    /\ CanProceed(r)
    /\ \E w \in Answers(r) : Goto(r, IF w = 0 THEN "cleared" ELSE "waiting", 0)
    /\ UNCHANGED <<counted, calls, window>>

\* calculate_next_timer_expiry asks for a request that it leaves where it is.
Peek(r) ==
    /\ where[r] = "waiting" /\ calls < MaxCalls
    /\ CanProceed(r)
    /\ calls' = calls + 1
    /\ UNCHANGED <<where, due, counted, window>>

\* rate_manager_start_request draws a token.
StartCounted(r) ==
    /\ where[r] = "cleared" /\ rate # 0 /\ Allowed(r)
    /\ Refill(Token)
    /\ current' = current + 1
    /\ high' = IF r \in High /\ high > 0 THEN high - 1 ELSE high
    /\ Goto(r, "running", 0)
    /\ counted' = counted \cup {r} /\ drawn' = drawn + Token
    /\ UNCHANGED <<quiet, backoff, calls, age>>

\* It answers 0 without one.
StartUncounted(r) ==
    /\ where[r] = "cleared"
    /\ rate = 0 \/ ~Allowed(r)
    /\ 0 \in Answers(r)
    /\ Refill(0)
    /\ Goto(r, "running", 0)
    /\ UNCHANGED <<countVars, counted, calls, window>>

\* It answers a wait, which the loop stores as the time itself: long past.
StartRefused(r) ==
    /\ where[r] = "cleared" /\ rate # 0 /\ ~Allowed(r)
    /\ Refill(0)
    /\ \E w \in Waits \ {0} : Goto(r, "waiting", IF w = Huge THEN Never ELSE 0)
    /\ UNCHANGED <<countVars, counted, calls, window>>

\* Mutant of GiveBack: the slot is kept.
KeepSlot == UNCHANGED current
\* The slot that request_done and handle_429 give back.
GiveBack == current' = IF current > 0 THEN current - 1 ELSE current

\* rate_manager_request_done after a transfer, whatever its outcome.
Done(r) ==
    /\ where[r] = "running"
    /\ IF rate = 0 THEN UNCHANGED countVars
                   ELSE GiveBack /\ quiet' = 0 /\ backoff' = 1 /\ UNCHANGED high
    /\ Goto(r, IF r \in Refreshing THEN "waiting" ELSE "ended", 0)
    /\ counted' = counted \ {r}
    /\ UNCHANGED <<bucketVars, calls, window>>

\* rate_manager_handle_429 up to the unlock; without a limit it returns 0.
Handle429(r) ==
    /\ where[r] = "running" /\ calls < MaxCalls
    /\ IF rate = 0
       THEN UNCHANGED countVars /\ Goto(r, "waiting", 0)
       ELSE /\ GiveBack
            /\ backoff' = IF quiet < 2 * Second THEN 1 ELSE Min2(backoff * 2, BackoffCap)
            /\ UNCHANGED <<quiet, high>>
            /\ Goto(r, "noted", 0)
    /\ counted' = counted \ {r} /\ calls' = calls + 1
    /\ UNCHANGED <<bucketVars, window>>

\* It reads backoff_seconds after the unlock, and the loop waits that long.
ReturnBackoff(r) ==
    /\ where[r] = "noted"
    /\ Goto(r, "waiting", backoff * Second)
    /\ UNCHANGED <<bucketVars, countVars, counted, calls, window>>

\* The loop destroys a request: cancelled while it waits or runs, not prepared when
\* it has just been started, or with the loop.  The manager does not hear of it.
Abandon(r) ==
    /\ where[r] \in {"waiting", "checked", "running"}
    /\ Goto(r, "ended", 0)
    /\ UNCHANGED <<bucketVars, countVars, counted, calls, window>>

\* rate_manager_set_limit: a new key counts from zero, an existing one goes on.
SetLimit(q) ==
    /\ calls < MaxCalls
    /\ rate' = q /\ tokens' = q * Second /\ idle' = 0
    /\ quiet' = 0 /\ backoff' = 1
    /\ IF rate = 0 THEN current' = 0 /\ high' = 0 ELSE UNCHANGED <<current, high>>
    /\ calls' = calls + 1 /\ age' = 0 /\ drawn' = 0
    /\ UNCHANGED <<where, due, counted>>

\* rate_manager_destroy, by a caller who knows that no thread is inside a call.
Destroy ==
    /\ calls < MaxCalls /\ rate # 0
    /\ \A r \in Requests : where[r] # "noted"
    /\ rate' = 0 /\ tokens' = 0 /\ idle' = 0
    /\ quiet' = 0 /\ current' = 0 /\ high' = 0 /\ backoff' = 1
    /\ calls' = calls + 1 /\ age' = 0 /\ drawn' = 0
    /\ UNCHANGED <<where, due, counted>>

\* Time passes.
Tick ==
    /\ idle' = IF rate = 0 THEN 0 ELSE Min2(idle + 1, Second)
    /\ quiet' = IF rate = 0 THEN 0 ELSE Min2(quiet + 1, 2 * Second)
    /\ due' = [r \in Requests |-> IF due[r] > 0 THEN due[r] - 1 ELSE due[r]]
    /\ IF age < Horizon THEN age' = age + 1 /\ drawn' = drawn
                        ELSE age' = 0 /\ drawn' = 0
    /\ UNCHANGED <<rate, tokens, current, high, backoff, where, counted, calls>>

\* The observer opens a window.
Observe == age' = 0 /\ drawn' = 0
           /\ UNCHANGED <<bucketVars, countVars, where, due, counted, calls>>

Start(r) == StartCounted(r) \/ StartUncounted(r) \/ StartRefused(r)
Finish(r) == Done(r) \/ Handle429(r)

Next ==
    \/ Tick \/ Observe \/ Destroy
    \/ \E q \in Rates : SetLimit(q)
    \/ \E r \in Requests : \/ Check(r) \/ Confirm(r) \/ Peek(r) \/ Start(r)
                           \/ Finish(r) \/ ReturnBackoff(r) \/ Abandon(r)

\* The loops run, transfers end and time passes.
Fairness ==
    /\ WF_vars(Tick)
    /\ \A r \in Requests :
          /\ WF_vars(Check(r)) /\ WF_vars(Confirm(r)) /\ WF_vars(Start(r))
          /\ WF_vars(Done(r))  /\ WF_vars(ReturnBackoff(r))
SafetySpec == Init /\ [][Next]_vars
Spec == SafetySpec /\ Fairness

----------------------------------------------------------------------------
(* Properties. *)

Running == {r \in Requests : where[r] = "running"}

TypeOK ==
    /\ rate \in Rates \cup {0} /\ tokens \in Nat /\ idle \in 0..Second
    /\ quiet \in Nat /\ current \in Nat /\ high \in Nat /\ backoff \in Nat
    /\ where \in [Requests -> {"waiting", "checked", "cleared", "running",
                              "noted", "ended"}]
    /\ due \in [Requests -> Int]
    /\ tokens <= rate * Second
    /\ counted \subseteq Requests /\ calls \in Nat
    /\ age \in 0..Horizon /\ drawn \in Nat

\* The lazy refill is a bucket that fills as time passes.
Bucket == INSTANCE TokenBucket WITH
              drip <- rate, level <- Refilled

\* The counted starts draw from a token bucket of max_rps, whatever the loops ask
\* and however their calls interleave: the refill at each call adds nothing twice.
ImplementsBucket == Bucket!BucketSpec

\* In any window, the counted starts keep to max_rps with a burst of a second.
RateLaw == drawn <= rate * Second + rate * age

\* A request starts without drawing a token only if the key has no limit or less
\* than a tick is missing.  This speaks of high priority requests, and of normal
\* ones while none of those is pending; the other case is the next property.
StartsAreCounted ==
    [][\A r \in Requests :
          r \in Running' \ (Running \cup counted') /\ (r \in High \/ high = 0) =>
              rate = 0 \/ (Refilled < Token /\ Token - Refilled < rate)]_vars

\* What the comments of rate_manager_can_proceed say of normal requests: they are
\* blocked, and must wait, while a high priority request is pending.
NormalWaitsBehindHigh ==
    [][\A r \in Requests \ High :
          r \in Running' \ Running => rate = 0 \/ high = 0]_vars

\* A slot is given back by the end of every counted run, 429s included, also when
\* the limit was set again or destroyed meanwhile.  Those that stay taken belong to
\* requests the loop destroyed while they ran.
CurrentNeverOver == current <= Cardinality(counted)

\* A high priority request is counted as pending.  (With two of them, the start of
\* one uncounts the other.)
Pending(r) == where[r] = "waiting" /\ high > 0
Served(r)  == where[r] \in {"running", "ended"} \/ high = 0
\* The limit is below one request per second, so that the bucket, which is capped
\* at max_rps, never holds a whole token.
FractionOfOne == rate # 0 /\ rate * Second < Token

\* With a limit of one request per second or more, a high priority request that
\* was refused once is served, unless its loop destroys it: until then no normal
\* request draws a token, however many there are.
HighServed == \A r \in High :
    Pending(r) /\ ~FractionOfOne ~> Served(r) \/ FractionOfOne

\* The same of every limit: rate_manager.h allows fractional values, and the test
\* of the precedence waits for this at half a request per second.
HighServedAtAnyLimit == \A r \in High : Pending(r) ~> Served(r)
=============================================================================
