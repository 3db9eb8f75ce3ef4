--------------------------- MODULE RateManagerProofs ---------------------------
(***************************************************************************)
(* Theorems about the rate manager, for any number of requests, any limits *)
(* and any grain of time.                                                  *)
(***************************************************************************)
EXTENDS RateManager, FiniteSetTheorems, TLAPS

----------------------------------------------------------------------------
(* What a bucket holds. *)

\* A refill adds something and stays within a second's worth.
LEMMA RefillTypes ==
    ASSUME TypeOK
    PROVE  /\ rate \in Nat /\ rate * Second \in Nat /\ idle * rate \in Nat
           /\ Refilled \in Nat /\ Refilled <= rate * Second /\ tokens <= Refilled
           /\ rate = 0 => Refilled = 0
<1>1. rate \in Nat /\ Second \in Nat /\ idle \in Nat /\ tokens \in Nat
  BY RateAssumption DEF TypeOK
<1>2. \A a, b \in Nat : a * b \in Nat
  OBVIOUS
<1>3. rate * Second \in Nat /\ idle * rate \in Nat
  BY <1>1, <1>2
<1>4. rate = 0 => rate * Second = 0
  BY <1>1
<1>5. tokens <= rate * Second
  BY DEF TypeOK
<1> HIDE DEF TypeOK
<1> QED
  BY <1>1, <1>3, <1>4, <1>5 DEF Refilled, Min2

\* After a call that refilled and took some, the bucket holds what is left.
LEMMA RefilledAfter ==
    ASSUME TypeOK, NEW n \in Nat, n <= Refilled, Refill(n)
    PROVE  /\ Refilled' = Refilled - n /\ tokens' = Refilled - n
           /\ rate' = rate /\ idle' = 0
<1>1. /\ Refilled \in Nat /\ Refilled <= rate * Second /\ rate \in Nat
      /\ rate * Second \in Nat
  BY RefillTypes
<1>2. rate' = rate /\ idle' = 0 /\ tokens' = Refilled - n
  BY DEF Refill
<1>3. Refilled' = Min2(rate * Second, (Refilled - n) + 0 * rate)
  BY <1>2 DEF Refilled
<1>4. 0 * rate = 0
  BY <1>1
<1> QED
  BY <1>1, <1>2, <1>3, <1>4 DEF Min2

\* A wait is a number of ticks, or the one that wraps.
LEMMA WaitTypes ==
    ASSUME TypeOK, rate # 0
    PROVE  Waits \subseteq Nat \cup {Huge}
<1>1. rate \in Nat \ {0} /\ Refilled \in Nat /\ Token \in Nat
  BY RefillTypes, RateAssumption
<1>2. \A a \in Nat, b \in Nat \ {0} : a \div b \in Nat
  OBVIOUS
<1>3. Refilled <= Token => Token - Refilled \in Nat
  BY <1>1
<1> QED
  BY <1>1, <1>2, <1>3 DEF Waits

----------------------------------------------------------------------------
(* The types. *)

\* The invariant holds at the start.
LEMMA TypeStarts == Init => TypeOK
<1> SUFFICES ASSUME Init PROVE TypeOK
  OBVIOUS
<1>1. rate \in Nat /\ Second \in Nat
  BY RateAssumption DEF Init
<1>2. rate * Second \in Nat
  BY <1>1
<1>3. tokens \in Nat /\ tokens <= rate * Second
  BY <1>2 DEF Init
<1>4. 0 \in 0..Second /\ 0 \in 0..Horizon
  BY RateAssumption
<1> QED
  BY <1>3, <1>4 DEF Init, TypeOK

\* The bucket after a refill.
BucketTypes ==
    /\ rate \in Rates \cup {0} /\ tokens \in Nat /\ idle \in 0..Second
    /\ tokens <= rate * Second
LEMMA RefillKeepsTypes ==
    ASSUME TypeOK, NEW n \in Nat, n <= Refilled, Refill(n)
    PROVE  BucketTypes'
<1>1. /\ Refilled' = Refilled - n /\ tokens' = Refilled - n
      /\ rate' = rate /\ idle' = 0
  BY RefilledAfter
<1>2. Refilled \in Nat /\ Refilled <= rate * Second /\ rate * Second \in Nat
  BY RefillTypes
<1>3. rate \in Rates \cup {0} /\ 0 \in 0..Second
  BY RateAssumption DEF TypeOK
<1> QED
  BY <1>1, <1>2, <1>3 DEF BucketTypes

\* The calls of a loop that ask: two of them move the request.
LEMMA AskTypes ==
    ASSUME TypeOK, NEW r \in Requests, Check(r) \/ Confirm(r) \/ Peek(r)
    PROVE  TypeOK'
<1>1. CanProceed(r) /\ UNCHANGED <<counted, window>>
  BY DEF Check, Confirm, Peek
<1>2. BucketTypes'
  BY <1>1, RefillTypes, RefillKeepsTypes DEF CanProceed
<1>3. quiet' \in Nat /\ current' \in Nat /\ high' \in Nat /\ backoff' \in Nat
  BY <1>1, RateAssumption DEF CanProceed, TypeOK, Min2
<1>4. Answers(r) \subseteq Nat \cup {Huge}
  BY WaitTypes DEF Answers
<1>5. /\ where' \in [Requests -> {"waiting", "checked", "cleared", "running",
                                 "noted", "ended"}]
      /\ due' \in [Requests -> Int] /\ calls' \in Nat
  <2>1. CASE Check(r)
    <3>1. PICK w \in Answers(r) :
             Goto(r, IF w = 0 THEN "checked" ELSE "waiting", IF w = Huge THEN 0 ELSE w)
      BY <2>1 DEF Check
    <3>2. (IF w = Huge THEN 0 ELSE w) \in Int
      BY <1>4, <3>1
    <3>3. calls' = calls
      BY <2>1 DEF Check
    <3> QED
      BY <3>1, <3>2, <3>3 DEF Goto, TypeOK
  <2>2. CASE Confirm(r)
    <3>1. PICK w \in Answers(r) : Goto(r, IF w = 0 THEN "cleared" ELSE "waiting", 0)
      BY <2>2 DEF Confirm
    <3>2. calls' = calls
      BY <2>2 DEF Confirm
    <3> QED
      BY <3>1, <3>2 DEF Goto, TypeOK
  <2>3. CASE Peek(r)
    BY <2>3 DEF Peek, TypeOK
  <2> QED
    BY <2>1, <2>2, <2>3
<1>6. age' \in 0..Horizon /\ drawn' \in Nat /\ counted' \subseteq Requests
  BY <1>1 DEF TypeOK, window
<1> QED
  BY <1>2, <1>3, <1>5, <1>6 DEF TypeOK, BucketTypes

\* The start of a request.
LEMMA StartTypes ==
    ASSUME TypeOK, NEW r \in Requests, Start(r)
    PROVE  TypeOK'
<1>0. Token \in Nat /\ Never \in Int /\ Refilled \in Nat
  BY RateAssumption, RefillTypes DEF Never
<1>1. CASE StartCounted(r)
  <2>1. Refill(Token) /\ Token <= Refilled
    BY <1>0, <1>1 DEF StartCounted, Allowed
  <2>2. BucketTypes'
    BY <1>0, <2>1, RefillKeepsTypes
  <2>3. high' \in Nat /\ current' \in Nat /\ drawn' \in Nat
    BY <1>0, <1>1 DEF StartCounted, TypeOK
  <2> QED
    BY <1>1, <2>2, <2>3 DEF StartCounted, Goto, TypeOK, BucketTypes
<1>2. CASE StartUncounted(r)
  <2>1. BucketTypes'
    BY <1>0, <1>2, RefillKeepsTypes DEF StartUncounted
  <2> QED
    BY <1>2, <2>1 DEF StartUncounted, Goto, TypeOK, BucketTypes, countVars, window
<1>3. CASE StartRefused(r)
  <2>1. BucketTypes'
    BY <1>0, <1>3, RefillKeepsTypes DEF StartRefused
  <2>2. PICK w \in Waits \ {0} : Goto(r, "waiting", IF w = Huge THEN Never ELSE 0)
    BY <1>3 DEF StartRefused
  <2> QED
    BY <1>0, <1>3, <2>1, <2>2 DEF StartRefused, Goto, TypeOK, BucketTypes, countVars, window
<1> QED
  BY <1>1, <1>2, <1>3 DEF Start

\* The end of a transfer, of a 429 and of a request.
LEMMA FinishTypes ==
    ASSUME TypeOK, NEW r \in Requests, Finish(r) \/ ReturnBackoff(r) \/ Abandon(r)
    PROVE  TypeOK'
<1>0. /\ Second \in Nat /\ BackoffCap \in Nat /\ backoff * Second \in Int
      /\ Min2(backoff * 2, BackoffCap) \in Nat
  BY RateAssumption DEF Min2, TypeOK
<1>1. CASE Done(r)
  <2>1. quiet' \in Nat /\ current' \in Nat /\ high' \in Nat /\ backoff' \in Nat
    BY <1>1 DEF Done, GiveBack, countVars, TypeOK
  <2> QED
    BY <1>1, <2>1 DEF Done, Goto, TypeOK, bucketVars, window
<1>2. CASE Handle429(r)
  <2>1. quiet' \in Nat /\ current' \in Nat /\ high' \in Nat /\ backoff' \in Nat
    <3>1. CASE rate = 0
      BY <1>2, <3>1 DEF Handle429, countVars, TypeOK
    <3>2. CASE rate # 0
      <4>1. backoff' \in {1, Min2(backoff * 2, BackoffCap)}
        BY <1>2, <3>2 DEF Handle429
      <4>2. current' \in Nat /\ quiet' = quiet /\ high' = high
        BY <1>2, <3>2 DEF Handle429, GiveBack, TypeOK
      <4> QED
        BY <1>0, <4>1, <4>2 DEF TypeOK
    <3> QED
      BY <3>1, <3>2
  <2>2. Goto(r, "waiting", 0) \/ Goto(r, "noted", 0)
    BY <1>2 DEF Handle429
  <2> QED
    BY <1>2, <2>1, <2>2 DEF Handle429, Goto, TypeOK, bucketVars, window
<1>3. CASE ReturnBackoff(r)
  BY <1>0, <1>3 DEF ReturnBackoff, Goto, TypeOK, bucketVars, countVars, window
<1>4. CASE Abandon(r)
  BY <1>4 DEF Abandon, Goto, TypeOK, bucketVars, countVars, window
<1> QED
  BY <1>1, <1>2, <1>3, <1>4 DEF Finish

\* The application's calls, the observer and the clock.
LEMMA OtherTypes ==
    ASSUME TypeOK, Tick \/ Observe \/ Destroy \/ \E q \in Rates : SetLimit(q)
    PROVE  TypeOK'
<1>0. Second \in Nat \ {0} /\ Horizon \in Nat /\ Rates \subseteq Nat
  BY RateAssumption
<1>1. CASE Tick
  <2>1. /\ idle' \in 0..Second /\ quiet' \in Nat /\ age' \in 0..Horizon
        /\ drawn' \in Nat
    BY <1>0, <1>1 DEF Tick, Min2, TypeOK
  <2>2. due' \in [Requests -> Int]
    BY <1>1 DEF Tick, TypeOK
  <2> QED
    BY <1>1, <2>1, <2>2 DEF Tick, TypeOK
<1>2. CASE Observe
  BY <1>0, <1>2 DEF Observe, TypeOK, bucketVars, countVars
<1>3. CASE Destroy
  <2>1. 0 * Second = 0
    BY <1>0
  <2> QED
    BY <1>0, <1>3, <2>1 DEF Destroy, TypeOK
<1>4. ASSUME NEW q \in Rates, SetLimit(q) PROVE TypeOK'
  <2>1. q \in Nat /\ q * Second \in Nat
    BY <1>0
  <2>2. current' \in Nat /\ high' \in Nat
    BY <1>4 DEF SetLimit, TypeOK
  <2> QED
    BY <1>0, <1>4, <2>1, <2>2 DEF SetLimit, TypeOK
<1> QED
  BY <1>1, <1>2, <1>3, <1>4

\* Every step keeps the types.
LEMMA TypeKept == TypeOK /\ [Next]_vars => TypeOK'
<1>1. TypeOK /\ UNCHANGED vars => TypeOK'
  BY DEF TypeOK, vars, bucketVars, countVars, window
<1> QED
  BY <1>1, AskTypes, StartTypes, FinishTypes, OtherTypes DEF Next

\* Every variable keeps its type; in particular the bucket is never overdrawn and
\* holds no more than a second's worth, and no count goes below zero.
THEOREM TypeCorrect == Spec => []TypeOK
<1> QED
  BY TypeStarts, TypeKept, PTL DEF Spec, SafetySpec

----------------------------------------------------------------------------
(* The refill at each call is a bucket that fills as time passes. *)

\* A new limit is a full bucket.
LEMMA BucketStarts == Init => Bucket!BucketInit
<1> SUFFICES ASSUME Init PROVE Bucket!BucketInit
  OBVIOUS
<1>1. rate \in Nat /\ Second \in Nat
  BY RateAssumption DEF Init
<1>2. rate * Second \in Nat /\ 0 * rate = 0
  BY <1>1
<1>3. Refilled = rate * Second
  BY <1>2 DEF Init, Refilled, Min2
<1> QED
  BY <1>3 DEF Init, Bucket!BucketInit

\* A tick adds a tick's worth.
LEMMA TickDrips ==
    ASSUME TypeOK, Tick
    PROVE  Bucket!Drip
<1>1. /\ rate \in Nat /\ rate * Second \in Nat /\ idle * rate \in Nat /\ tokens \in Nat
      /\ tokens <= rate * Second /\ idle \in Nat /\ idle <= Second /\ Second \in Nat \ {0}
  BY RefillTypes, RateAssumption DEF TypeOK
<1>2. rate' = rate /\ tokens' = tokens
  BY DEF Tick
<1>3. Refilled' = Min2(rate * Second, tokens + idle' * rate)
  BY <1>2 DEF Refilled
<1>4. Refilled' = Min2(rate * Second, Refilled + rate)
  <2>1. CASE rate = 0
    <3>1. rate * Second = 0 /\ idle' * rate = 0 /\ idle * rate = 0
      <4>1. idle' = 0
        BY <2>1 DEF Tick
      <4> QED
        BY <1>1, <2>1, <4>1
    <3> QED
      BY <1>1, <1>3, <2>1, <3>1 DEF Refilled, Min2
  <2>2. CASE rate # 0 /\ idle < Second
    <3>1. idle' = idle + 1
      BY <1>1, <2>2 DEF Tick, Min2
    <3>2. idle' * rate = idle * rate + rate
      BY <1>1, <3>1
    <3> QED
      BY <1>1, <1>3, <3>2 DEF Refilled, Min2
  <2>3. CASE rate # 0 /\ idle = Second
    <3>1. idle' = Second
      BY <1>1, <2>3 DEF Tick, Min2
    <3>2. idle' * rate = rate * Second /\ idle * rate = rate * Second
      BY <1>1, <2>3, <3>1
    <3> QED
      BY <1>1, <1>3, <3>2 DEF Refilled, Min2
  <2> QED
    BY <1>1, <2>1, <2>2, <2>3
<1> QED
  BY <1>2, <1>4 DEF Tick, Bucket!Drip, Bucket!Least, Min2

\* Every step of the manager is a step of the bucket, or none.
LEMMA BucketStep == TypeOK /\ [Next]_vars => [Bucket!BucketNext]_(Bucket!bucket)
<1> SUFFICES ASSUME TypeOK, [Next]_vars
             PROVE  [Bucket!BucketNext]_(Bucket!bucket)
  OBVIOUS
<1>0. Refilled \in Nat /\ Second \in Nat /\ Rates \subseteq Nat /\ Token \in Nat
  BY RefillTypes, RateAssumption
<1>1. Refill(0) => Refilled' = Refilled /\ rate' = rate
  BY <1>0, RefilledAfter
<1>2. UNCHANGED bucketVars => Refilled' = Refilled /\ rate' = rate
  BY DEF bucketVars, Refilled
<1>3. CASE UNCHANGED vars
  BY <1>2, <1>3 DEF vars, window, Bucket!bucket
<1>4. ASSUME NEW r \in Requests,
             Check(r) \/ Confirm(r) \/ Peek(r) \/ StartUncounted(r) \/ StartRefused(r)
      PROVE  UNCHANGED Bucket!bucket
  <2>1. Refill(0) /\ UNCHANGED window
    BY <1>4 DEF Check, Confirm, Peek, StartUncounted, StartRefused, CanProceed
  <2> QED
    BY <1>1, <2>1 DEF window, Bucket!bucket
<1>5. ASSUME NEW r \in Requests, Finish(r) \/ ReturnBackoff(r) \/ Abandon(r)
      PROVE  UNCHANGED Bucket!bucket
  <2>1. UNCHANGED bucketVars /\ UNCHANGED window
    BY <1>5 DEF Finish, Done, Handle429, ReturnBackoff, Abandon
  <2> QED
    BY <1>2, <2>1 DEF window, Bucket!bucket
<1>6. ASSUME NEW r \in Requests, StartCounted(r)
      PROVE  Bucket!Draw
  <2>1. Refill(Token) /\ Token <= Refilled /\ drawn' = drawn + Token /\ age' = age
    BY <1>0, <1>6 DEF StartCounted, Allowed
  <2>2. Refilled' = Refilled - Token /\ rate' = rate
    BY <1>0, <2>1, RefilledAfter
  <2> QED
    BY <1>0, <2>1, <2>2 DEF Bucket!Draw
<1>7. CASE Tick
  BY <1>7, TickDrips DEF Bucket!BucketNext
<1>8. CASE Observe
  BY <1>2, <1>8 DEF Observe, Bucket!Open, Bucket!BucketNext
<1>9. ASSUME NEW q \in Rates \cup {0},
             rate' = q, tokens' = q * Second, idle' = 0, age' = 0, drawn' = 0
      PROVE  Bucket!Reset(q)
  <2>1. q \in Nat /\ q * Second \in Nat /\ 0 * q = 0
    BY <1>0
  <2>2. Refilled' = q * Second
    BY <1>9, <2>1 DEF Refilled, Min2
  <2> QED
    BY <1>9, <2>2 DEF Bucket!Reset
<1>10. CASE Destroy
  <2>1. tokens' = 0 * Second /\ rate' = 0 /\ idle' = 0 /\ age' = 0 /\ drawn' = 0
    BY <1>0, <1>10 DEF Destroy
  <2>2. Bucket!Reset(0)
    BY <1>9, <2>1
  <2> QED
    BY <2>2 DEF Bucket!BucketNext
<1>11. CASE \E q \in Rates : SetLimit(q)
  <2>1. PICK q \in Rates : SetLimit(q)
    BY <1>11
  <2>2. Bucket!Reset(q)
    BY <1>9, <2>1 DEF SetLimit
  <2> QED
    BY <2>2 DEF Bucket!BucketNext
<1>12. CASE \E r \in Requests : Check(r) \/ Confirm(r) \/ Peek(r) \/ Start(r)
                                \/ Finish(r) \/ ReturnBackoff(r) \/ Abandon(r)
  BY <1>4, <1>5, <1>6, <1>12 DEF Start, Bucket!BucketNext
<1> QED
  BY <1>3, <1>7, <1>8, <1>10, <1>11, <1>12 DEF Next

\* However the calls of the loops interleave, what the counted starts draw is drawn
\* from a token bucket: a refill adds the time since the last one, once, and never
\* fills the bucket beyond a second's worth.
THEOREM ManagerIsABucket == Spec => ImplementsBucket
<1> QED
  BY BucketStarts, BucketStep, TypeCorrect, PTL
     DEF Spec, SafetySpec, ImplementsBucket, Bucket!BucketSpec

----------------------------------------------------------------------------
(* The law of the window, for every bucket and so for the manager. *)

\* What was drawn in the window and what is left never exceed a second's worth and
\* what has dripped in since: RateLaw alone is not inductive, since what is left
\* may still be drawn.
LawInv == drawn + Refilled <= rate * Second + rate * age

\* What the types say of the bucket, in this state and in the next.
Bounds ==
    /\ rate \in Nat /\ Refilled \in Nat /\ Refilled <= rate * Second
    /\ age \in Nat /\ drawn \in Nat /\ rate * Second \in Nat
LEMMA BoundsHold == TypeOK => Bounds
BY RefillTypes, RateAssumption DEF TypeOK, Bounds
LEMMA BoundsNext == TypeOK' => Bounds'
BY BoundsHold, PTL

\* A tick lets in as much as it allows to be drawn.
LEMMA TickArithmetic ==
    ASSUME NEW q \in Nat, NEW a \in Nat, NEW d \in Nat, NEW l \in Nat, NEW m \in Nat,
           NEW c \in Nat, d + l <= c + q * a, m <= l + q
    PROVE  d + m <= c + q * (a + 1)
<1>1. q * a \in Nat /\ q * (a + 1) = q * a + q
  OBVIOUS
<1>2. \A x \in Nat : d + l <= c + x => d + m <= c + (x + q)
  OBVIOUS
<1> QED
  BY <1>1, <1>2

\* A number times nothing.
LEMMA TimesZero == \A n \in Nat : n * 0 = 0
OBVIOUS

\* A window that opens holds nothing yet.
LEMMA OpenArithmetic ==
    ASSUME NEW q \in Nat, NEW l \in Nat, NEW c \in Nat, l <= c
    PROVE  0 + l <= c + q * 0
<1>1. q * 0 = 0
  OBVIOUS
<1> QED
  BY <1>1

\* A new limit has its full bucket and nothing drawn.
LEMMA LawStarts == Init => LawInv
<1> SUFFICES ASSUME Init PROVE LawInv
  OBVIOUS
<1>1. Bounds
  BY TypeStarts, BoundsHold
<1>2. rate * age = 0
  BY <1>1, TimesZero DEF Init, Bounds
<1> QED
  BY <1>1, <1>2 DEF Init, LawInv, Bounds

\* Every step of the bucket keeps the law.
LEMMA LawKept ==
    ASSUME TypeOK, TypeOK', LawInv, [Bucket!BucketNext]_(Bucket!bucket)
    PROVE  LawInv'
<1>1. Bounds /\ Bounds' /\ Second \in Nat /\ Token \in Nat /\ rate * age \in Nat
  <2>1. rate * age \in Nat
    BY BoundsHold DEF Bounds
  <2> QED
    BY <2>1, BoundsHold, BoundsNext, RateAssumption
<1>2. age' = 0 /\ drawn' = 0 => LawInv'
  <2> SUFFICES ASSUME age' = 0, drawn' = 0 PROVE LawInv'
    OBVIOUS
  <2>1. 0 + Refilled' <= rate' * Second + rate' * 0
    BY <1>1, OpenArithmetic DEF Bounds
  <2> QED
    BY <2>1, Zenon DEF LawInv
<1>3. CASE UNCHANGED Bucket!bucket
  BY <1>3 DEF Bucket!bucket, LawInv
<1>4. CASE Bucket!Draw
  <2>1. /\ Refilled' = Refilled - Token /\ drawn' = drawn + Token
        /\ rate' = rate /\ age' = age
    BY <1>4 DEF Bucket!Draw
  <2>2. drawn' + Refilled' = drawn + Refilled
    BY <1>1, <2>1 DEF Bounds
  <2> QED
    BY <2>1, <2>2 DEF LawInv
<1>5. CASE Bucket!Open \/ \E q \in Rates \cup {0} : Bucket!Reset(q)
  BY <1>2, <1>5 DEF Bucket!Open, Bucket!Reset
<1>6. CASE Bucket!Drip
  <2>1. rate' = rate /\ Refilled' <= Refilled + rate
    BY <1>1, <1>6 DEF Bucket!Drip, Bucket!Least, Bounds
  <2>2. CASE age < Horizon
    <3>1. age' = age + 1 /\ drawn' = drawn
      BY <1>6, <2>2 DEF Bucket!Drip
    <3>2. drawn + Refilled' <= rate * Second + rate * (age + 1)
      BY <1>1, <2>1, TickArithmetic DEF Bounds, LawInv
    <3> QED
      BY <2>1, <3>1, <3>2 DEF LawInv
  <2>3. CASE ~(age < Horizon)
    BY <1>2, <1>6, <2>3 DEF Bucket!Drip
  <2> QED
    BY <2>2, <2>3
<1> QED
  BY <1>3, <1>4, <1>5, <1>6 DEF Bucket!BucketNext

\* In any window of any length, the counted starts of all loops together draw no
\* more than max_rps allows, with a burst of one second's worth.
THEOREM RateHonoured == Spec => []RateLaw
<1>1. TypeOK /\ LawInv => RateLaw
  <2> SUFFICES ASSUME TypeOK, LawInv PROVE RateLaw
    OBVIOUS
  <2>1. Bounds
    BY BoundsHold
  <2>2. rate * age \in Nat
    BY <2>1 DEF Bounds
  <2> QED
    BY <2>1, <2>2 DEF LawInv, RateLaw, Bounds
<1>2. TypeOK /\ TypeOK' /\ LawInv /\ [Bucket!BucketNext]_(Bucket!bucket) => LawInv'
  BY LawKept
<1> QED
  BY <1>1, <1>2, LawStarts, TypeCorrect, ManagerIsABucket, PTL
     DEF Spec, SafetySpec, ImplementsBucket, Bucket!BucketSpec

----------------------------------------------------------------------------
(* What follows from the cap of the bucket. *)

\* Every limit that is set is below one request per second.
Fractional == \A q \in Rates : q * Second < Token

\* Then the bucket never holds a whole token.
LEMMA NoWholeToken ==
    ASSUME Fractional, TypeOK
    PROVE  Refilled < Token
<1>1. Refilled \in Nat /\ Refilled <= rate * Second /\ rate * Second \in Nat
      /\ (rate = 0 => Refilled = 0) /\ Token \in Nat \ {0}
  BY RefillTypes, RateAssumption
<1>2. rate = 0 \/ rate * Second < Token
  BY DEF TypeOK, Fractional
<1> QED
  BY <1>1, <1>2

\* The bucket is capped at max_rps tokens: when every limit set is below one per
\* second, no start ever draws a token, although rate_manager.h allows fractional
\* values of max_rps.
THEOREM FractionNeverGrants == Spec => [](Fractional => counted = {})
<1>1. Init => (Fractional => counted = {})
  BY DEF Init
<1>2. TypeOK /\ [Next]_vars /\ (Fractional => counted = {})
          => (Fractional => counted = {})'
  <2> SUFFICES ASSUME TypeOK, [Next]_vars, Fractional, counted = {} PROVE counted' = {}
    BY DEF Fractional
  <2>1. \A r \in Requests : ~Allowed(r)
    <3>1. Refilled < Token /\ Refilled \in Nat /\ Token \in Nat
      BY NoWholeToken, RefillTypes, RateAssumption
    <3> QED
      BY <3>1 DEF Allowed
  <2> QED
    BY <2>1 DEF Next, vars, Check, Confirm, Peek, Start, StartCounted, StartUncounted,
          StartRefused, Finish, Done, Handle429, ReturnBackoff, Abandon, Tick, Observe,
          Destroy, SetLimit
<1> QED
  BY <1>1, <1>2, TypeCorrect, PTL DEF Spec, SafetySpec

----------------------------------------------------------------------------
(* Starts that draw no token. *)

\* A whole number of ticks is none when less than a tick is missing.
LEMMA NoWait == \A a \in Nat, b \in Nat \ {0} : a \div b = 0 => a < b
OBVIOUS

\* What it takes for start_request to answer 0 without drawing a token.
LEMMA WavedThrough ==
    ASSUME TypeOK, NEW r \in Requests, StartUncounted(r)
    PROVE  \/ rate = 0
           \/ r \notin High /\ high > 0 /\ Refilled >= Token
           \/ Refilled < Token /\ Token - Refilled < rate
<1> SUFFICES ASSUME rate # 0
             PROVE  \/ r \notin High /\ high > 0 /\ Refilled >= Token
                    \/ Refilled < Token /\ Token - Refilled < rate
  OBVIOUS
<1>1. ~Allowed(r) /\ 0 \in Waits
  BY DEF StartUncounted, Answers
<1>2. rate \in Nat \ {0} /\ Refilled \in Nat /\ Token \in Nat /\ high \in Nat
  BY RefillTypes, RateAssumption DEF TypeOK
<1>3. CASE Refilled >= Token
  BY <1>1, <1>2, <1>3 DEF Allowed
<1>4. CASE Refilled < Token
  <2>1. Waits = {(Token - Refilled) \div rate}
    BY <1>2, <1>4 DEF Waits
  <2>2. Token - Refilled \in Nat
    BY <1>2, <1>4
  <2> QED
    BY <1>1, <1>2, <1>4, <2>1, <2>2, NoWait
<1> QED
  BY <1>2, <1>3, <1>4

\* Only a start that is let through makes a request run.
LEMMA OnlyStartsRun ==
    ASSUME TypeOK, [Next]_vars, NEW r \in Requests,
           where[r] # "running", where'[r] = "running"
    PROVE  StartCounted(r) \/ StartUncounted(r)
<1>0. ASSUME NEW q \in Requests, NEW place, place # "running"
      PROVE  where' # [where EXCEPT ![q] = place]
  BY <1>0 DEF TypeOK
<1>1. ASSUME NEW q \in Requests, Check(q) \/ Confirm(q) PROVE FALSE
  <2>1. PICK place \in {"checked", "cleared", "waiting"} :
           where' = [where EXCEPT ![q] = place]
    BY <1>1 DEF Check, Confirm, Goto
  <2> QED
    BY <1>0, <2>1
<1>2. ASSUME NEW q \in Requests, StartRefused(q) \/ Finish(q) \/ ReturnBackoff(q)
                                \/ Abandon(q)
      PROVE  FALSE
  <2>1. PICK place \in {"noted", "ended", "waiting"} :
           where' = [where EXCEPT ![q] = place]
    BY <1>2 DEF StartRefused, Finish, Done, Handle429, ReturnBackoff, Abandon, Goto
  <2> QED
    BY <1>0, <2>1
<1>3. ASSUME NEW q \in Requests, StartCounted(q) \/ StartUncounted(q) PROVE q = r
  <2>1. where' = [where EXCEPT ![q] = "running"]
    BY <1>3 DEF StartCounted, StartUncounted, Goto
  <2> QED
    BY <2>1 DEF TypeOK
<1>4. ~(UNCHANGED vars \/ Tick \/ Observe \/ Destroy \/ (\E q \in Rates : SetLimit(q))
        \/ (\E q \in Requests : Peek(q)))
  BY DEF vars, Tick, Observe, Destroy, SetLimit, Peek
<1> QED
  BY <1>1, <1>2, <1>3, <1>4 DEF Next, Start

\* A start that no pending high priority request concerns is counted, unless the
\* key has no limit or it is less than a tick early.
THEOREM UncountedExplained == Spec => StartsAreCounted
<1> DEFINE Explained(r) ==
             r \in Running' \ (Running \cup counted') /\ (r \in High \/ high = 0) =>
                 rate = 0 \/ (Refilled < Token /\ Token - Refilled < rate)
<1>1. ASSUME TypeOK, [Next]_vars, NEW r \in Requests PROVE Explained(r)
  <2> SUFFICES ASSUME r \in Running' \ (Running \cup counted'), r \in High \/ high = 0
               PROVE  rate = 0 \/ (Refilled < Token /\ Token - Refilled < rate)
    OBVIOUS
  <2>1. StartCounted(r) \/ StartUncounted(r)
    BY <1>1, OnlyStartsRun DEF Running
  <2>2. ~StartCounted(r)
    BY DEF StartCounted
  <2>3. ~(r \notin High /\ high > 0)
    OBVIOUS
  <2> QED
    BY <1>1, <2>1, <2>2, <2>3, WavedThrough
<1>2. TypeOK /\ [Next]_vars => \A r \in Requests : Explained(r)
  BY <1>1
<1>3. (\A r \in Requests : Explained(r)) =>
        [\A r \in Requests : Explained(r)]_vars
  OBVIOUS
<1> QED
  BY <1>2, TypeCorrect, PTL DEF Spec, SafetySpec, StartsAreCounted

----------------------------------------------------------------------------
(* The slots. *)

\* Counted runs are running or were destroyed, and what was destroyed does not run
\* again; without a limit no slot is taken.
Begun == {r \in Requests : where[r] \in {"running", "ended"}}
CountInv == CurrentNeverOver /\ counted \subseteq Begun /\ (rate = 0 => current = 0)

\* Every step keeps that.
LEMMA CountKept ==
    ASSUME TypeOK, CountInv, [Next]_vars
    PROVE  CountInv'
<1>1. /\ IsFiniteSet(counted) /\ Cardinality(counted) \in Nat /\ current \in Nat
      /\ current <= Cardinality(counted) /\ counted \subseteq Begun
  BY RateAssumption, FS_Subset, FS_CardinalityType DEF TypeOK, CountInv, CurrentNeverOver
<1>2. ASSUME NEW r \in Requests, StartCounted(r) PROVE CountInv'
  <2>1. r \notin counted
    BY <1>1, <1>2 DEF StartCounted, Begun
  <2>2. Cardinality(counted') = Cardinality(counted) + 1
    BY <1>1, <1>2, <2>1, FS_AddElement DEF StartCounted
  <2>3. counted' \subseteq Begun'
    BY <1>1, <1>2 DEF StartCounted, Begun, Goto, TypeOK
  <2> QED
    BY <1>1, <1>2, <2>2, <2>3 DEF StartCounted, CountInv, CurrentNeverOver, Refill
<1>3. ASSUME NEW r \in Requests, Finish(r) PROVE CountInv'
  <2>1. counted' = counted \ {r} /\ rate' = rate
    BY <1>3 DEF Finish, Done, Handle429, bucketVars
  <2>2. /\ Cardinality(counted') \in Nat
        /\ Cardinality(counted') >= Cardinality(counted) - 1
    <3>1. Cardinality(counted') = IF r \in counted THEN Cardinality(counted) - 1
                                                   ELSE Cardinality(counted)
      BY <1>1, <2>1, FS_RemoveElement
    <3>2. Cardinality(counted') \in Nat
      BY <1>1, <2>1, FS_RemoveElement, FS_CardinalityType
    <3> QED
      BY <1>1, <3>1, <3>2
  <2>3. counted' \subseteq Begun'
    <3>1. \A q \in Requests \ {r} : where'[q] = where[q]
      BY <1>3 DEF Finish, Done, Handle429, Goto, TypeOK
    <3> QED
      BY <1>1, <2>1, <3>1 DEF Begun
  <2>4. IF rate = 0 THEN current' = current ELSE GiveBack
    BY <1>3 DEF Finish, Done, Handle429, countVars
  <2>5. current' <= Cardinality(counted') /\ (rate' = 0 => current' = 0)
    BY <1>1, <2>1, <2>2, <2>4 DEF CountInv, GiveBack
  <2> QED
    BY <2>3, <2>5 DEF CountInv, CurrentNeverOver
<1>4. ASSUME NEW r \in Requests,
             Check(r) \/ Confirm(r) \/ Peek(r) \/ StartUncounted(r) \/ StartRefused(r)
             \/ ReturnBackoff(r) \/ Abandon(r)
      PROVE  CountInv'
  <2>1. counted' = counted /\ current' = current /\ rate' = rate
    BY <1>4 DEF Check, Confirm, Peek, StartUncounted, StartRefused, ReturnBackoff,
          Abandon, CanProceed, Refill, countVars, bucketVars
  <2>2. \A q \in Requests : q \in Begun => where'[q] \in {"running", "ended"}
    BY <1>4 DEF Check, Confirm, Peek, StartUncounted, StartRefused, ReturnBackoff,
          Abandon, Goto, TypeOK, Begun
  <2>3. counted' \subseteq Begun'
    BY <1>1, <2>1, <2>2 DEF Begun
  <2> QED
    BY <2>1, <2>3 DEF CountInv, CurrentNeverOver
<1>5. CASE UNCHANGED vars \/ Tick \/ Observe \/ Destroy \/ \E q \in Rates : SetLimit(q)
  <2>1. counted' = counted /\ where' = where
    BY <1>5 DEF vars, Tick, Observe, Destroy, SetLimit
  <2>2. current' \in {current, 0} /\ (rate' = 0 => current' = 0)
    BY <1>5, RateAssumption DEF vars, Tick, Observe, Destroy, SetLimit, bucketVars,
          countVars, CountInv
  <2> QED
    BY <1>1, <2>1, <2>2 DEF CountInv, CurrentNeverOver, Begun
<1> QED
  BY <1>2, <1>3, <1>4, <1>5 DEF Next, Start

\* current_requests never exceeds the counted runs of whose end the manager has not
\* heard, through 429s, uncounted starts, new limits and destroy.
THEOREM SlotsGivenBack == Spec => []CurrentNeverOver
<1>1. Init => CountInv
  BY FS_EmptySet DEF Init, CountInv, CurrentNeverOver
<1>2. TypeOK /\ CountInv /\ [Next]_vars => CountInv'
  BY CountKept
<1>3. CountInv => CurrentNeverOver
  BY DEF CountInv
<1> QED
  BY <1>1, <1>2, <1>3, TypeCorrect, PTL DEF Spec, SafetySpec
=============================================================================
