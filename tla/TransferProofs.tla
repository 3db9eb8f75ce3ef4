---------------------------- MODULE TransferProofs ----------------------------
(***************************************************************************)
(* What holds of every request, whatever its settings, the bodies the      *)
(* server sends and the number of attempts.                                *)
(***************************************************************************)
EXTENDS Transfer, TLAPS

Flying == pc \in {"headers", "body"}

TypeOK ==
    /\ setup \in SetupType
    /\ pc \in {"waiting", "headers", "body", "done", "ended", "crashed"}
    /\ attempt \in Nat /\ got \in Nat /\ arrived \in Nat /\ taken \in Nat
    /\ sink \in SinkType
    /\ told \in [ok : Nat, failed : Nat]

\* The store never has more of an attempt than bytes_downloaded says.
CountedInv ==
    /\ taken <= got
    /\ setup.max > 0 => got <= setup.max

\* As long as an attempt may still succeed nothing of it is missing; without one
\* nothing has been delivered.
WholeInv ==
    /\ Flying \/ (pc = "done" /\ result = "ok") => taken = arrived
    /\ Flying \/ pc = "done" => attempt > 0
    /\ attempt = 0 => taken = 0 /\ arrived = 0

Balanced(s) == s.opens = s.frees + (IF s.open THEN 1 ELSE 0)

\* Why an initialised sink may have no store while its request lives.
Explained(s, t) == s.open \/ s.opens = 0 \/ (setup.sink = "memory" /\ t.failed > 0)

StoreInv ==
    /\ Balanced(sink)
    /\ ~sink.initialized => ~sink.open /\ sink.opens = 0
    /\ pc = "ended" => ~sink.open
    /\ pc # "ended" => Explained(sink, told)
    /\ MissingStoreExplained

\* What the application has heard of: every attempt but the one under way or cut
\* short, and a request that is answered without one.
ToldInv ==
    ~setup.own =>
        /\ pc = "waiting" => told.ok + told.failed = attempt
        /\ Flying \/ pc = "done" => told.ok + told.failed + 1 = attempt
        /\ pc = "ended" => \/ told.ok + told.failed \in {attempt - 1, attempt}
                           \/ attempt = 0 /\ told.ok + told.failed = 1
        /\ ~setup.refresh /\ ~setup.limited =>
              /\ told.ok + told.failed <= 1
              /\ pc = "waiting" => attempt = 0
              /\ Flying \/ pc = "done" => attempt = 1

IInv == TypeOK /\ CountedInv /\ WholeInv /\ StoreInv /\ ToldInv

-----------------------------------------------------------------------------
(* Lemmas about the sink. *)

\* The updates of Freed and Initialized give a sink.
LEMMA SinkFields ==
    ASSUME NEW s \in SinkType
    PROVE  /\ \A n \in Nat, b \in BOOLEAN :
                 [s EXCEPT !.frees = n, !.open = b] \in SinkType
           /\ \A n \in Nat, a, b \in BOOLEAN, v \in SUBSET Nat :
                 [s EXCEPT !.initialized = a, !.body = v, !.open = b, !.opens = n]
                     \in SinkType
  BY DEF SinkType

\* Freeing a store leaves none, frees what was open and nothing else.
LEMMA FreedFacts ==
    ASSUME NEW s \in SinkType, Balanced(s)
    PROVE  /\ Freed(s) \in SinkType /\ Balanced(Freed(s)) /\ ~Freed(s).open
           /\ Freed(s).opens = s.opens
           /\ Freed(s).initialized = s.initialized
  <1>1. CASE s.open
    <2>1. Freed(s) = [s EXCEPT !.frees = s.frees + 1, !.open = FALSE]
      BY <1>1 DEF Freed
    <2>2. Freed(s) \in SinkType
      <3>1. s.frees + 1 \in Nat
        BY DEF SinkType
      <3>2. [s EXCEPT !.frees = s.frees + 1, !.open = FALSE] \in SinkType
        BY <3>1, SinkFields
      <3> QED
        BY <2>1, <3>2, Zenon
    <2>3. Freed(s).open = FALSE
      BY <2>1 DEF SinkType
    <2>4. ~Freed(s).open
      BY <2>3, Zenon
    <2>5. Freed(s).frees = s.frees + 1 /\ Freed(s).opens = s.opens
      BY <2>1 DEF SinkType
    <2>6. Freed(s).initialized = s.initialized
      BY <2>1 DEF SinkType
    <2>7. Balanced(Freed(s))
      BY <1>1, <2>4, <2>5 DEF SinkType, Balanced
    <2> QED
      BY <2>2, <2>4, <2>5, <2>6, <2>7
  <1>2. CASE ~s.open
    BY <1>2 DEF Freed
  <1> QED
    BY <1>1, <1>2

\* After the callbacks' test the sink is initialised, its books balance, and if it
\* has no store then because of this very initialisation or for the reason it had.
LEMMA InitializedFacts ==
    ASSUME NEW s \in SinkType, Balanced(s), NEW t \in Initialized(s),
           ~s.initialized => ~s.open /\ s.opens = 0
    PROVE  /\ t \in SinkType /\ Balanced(t) /\ t.initialized
           /\ t.open \/ t.opens = 0 \/ (t.open = s.open /\ t.opens = s.opens)
  <1>1. CASE s.initialized
    BY <1>1 DEF Initialized
  <1>2. CASE ~s.initialized
    <2>1. Freed(s) = s
      BY <1>2 DEF Freed
    <2>2. PICK open \in BOOLEAN :
            t = [s EXCEPT !.initialized = TRUE, !.body = {}, !.open = open,
                          !.opens = IF open THEN @ + 1 ELSE @]
      BY <1>2, <2>1 DEF Initialized
    <2>3. t \in SinkType
      <3>1. {} \in SUBSET Nat /\ TRUE \in BOOLEAN
        OBVIOUS
      <3>2. (IF open THEN s.opens + 1 ELSE s.opens) \in Nat
        BY DEF SinkType
      <3>3. \A n \in Nat, a, b \in BOOLEAN, v \in SUBSET Nat :
               [s EXCEPT !.initialized = a, !.body = v, !.open = b, !.opens = n]
                   \in SinkType
        BY SinkFields
      <3>4. [s EXCEPT !.initialized = TRUE, !.body = {}, !.open = open,
                      !.opens = IF open THEN s.opens + 1 ELSE s.opens] \in SinkType
        BY <3>1, <3>2, <3>3, Zenon
      <3> QED
        BY <2>2, <3>4, Zenon
    <2>4. t.open = open
      BY <2>2 DEF SinkType
    <2>5. t.initialized = TRUE
      BY <2>2 DEF SinkType
    <2>6. t.initialized /\ (t.open <=> open)
      BY <2>4, <2>5, Zenon
    <2>7. t.frees = s.frees /\ t.opens = IF open THEN s.opens + 1 ELSE s.opens
      BY <2>2 DEF SinkType
    <2> QED
      BY <1>2, <2>3, <2>6, <2>7 DEF SinkType, Balanced
  <1> QED
    BY <1>1, <1>2

\* The store a failed attempt leaves behind.
LEMMA FailedFacts ==
    ASSUME NEW s \in SinkType, Balanced(s)
    PROVE  /\ Failed(s) \in SinkType /\ Balanced(Failed(s))
           /\ Failed(s).initialized = s.initialized
           /\ setup.sink # "memory" => Failed(s) = s
  BY FreedFacts DEF Failed

-----------------------------------------------------------------------------
(* The steps. *)

\* The initial states satisfy the invariant.
LEMMA InitInv == Init => IInv
  BY TransferAssumption
     DEF Init, IInv, TypeOK, CountedInv, WholeInv, StoreInv, ToldInv, Flying, SetupType,
         SinkType, Balanced, Explained, MissingStoreExplained

\* A start resets the counts and changes nothing of the sink.
LEMMA StartInv == IInv /\ StartAttempt => IInv'
  BY DEF IInv, TypeOK, StartAttempt, CountedInv, WholeInv, StoreInv, ToldInv, Flying,
         SetupType, SinkType, Balanced, Explained, MissingStoreExplained

\* Headers and the end of an attempt change nothing the invariant counts.
LEMMA PassInv == IInv /\ (Headers \/ End) => IInv'
  <1> SUFFICES ASSUME IInv, Headers \/ End PROVE IInv'
    OBVIOUS
  <1>1. /\ UNCHANGED <<setup, attempt, got, arrived, taken, sink, told>>
        /\ Flying /\ pc' \in {"body", "done"}
    BY DEF Headers, End, Flying
  <1> QED
    BY <1>1 DEF IInv, TypeOK, CountedInv, WholeInv, StoreInv, ToldInv, Flying,
         Balanced, Explained, MissingStoreExplained

\* The sink as the next callback finds it.
LEMMA FoundSink ==
    ASSUME IInv, pc # "ended", NEW s \in Initialized(sink)
    PROVE  s \in SinkType /\ Balanced(s) /\ s.initialized /\ Explained(s, told)
  BY InitializedFacts DEF IInv, TypeOK, StoreInv, Explained

\* What a chunk may put into the store: at most the chunk, and no more than the
\* limit leaves.
LEMMA AllowedBound ==
    ASSUME TypeOK, CountedInv, NEW n \in Nat
    PROVE  /\ Allowed(n) \in Nat /\ Allowed(n) <= n
           /\ setup.max > 0 => got + Allowed(n) <= setup.max
           /\ Fits(n) => Allowed(n) = n
  BY DEF TypeOK, CountedInv, Allowed, Fits, SetupType

\* A chunk with nothing left to hand on ends the attempt.
LEMMA RefusedInv ==
    ASSUME IInv, NEW n \in 1 .. MaxBody, ChunkRefused(n)
    PROVE  IInv'
  BY TransferAssumption
     DEF IInv, TypeOK, ChunkRefused, Arrives, CountedInv, WholeInv, StoreInv, ToldInv, Flying,
         Balanced, Explained, MissingStoreExplained

\* A chunk that reaches the store.
LEMMA WrittenInv ==
    ASSUME IInv, NEW n \in 1 .. MaxBody, ChunkWritten(n)
    PROVE  IInv'
  <1>1. PICK s \in Initialized(sink), w \in Written(Allowed(n)) :
           /\ s.open
           /\ sink' = [s EXCEPT !.body = IF w > 0 THEN @ \cup {attempt} ELSE @]
           /\ taken' = taken + w
           /\ got' = got + (IF Fits(n) THEN n ELSE w)
           /\ IF Accepted(n, w) THEN UNCHANGED <<pc, result>>
              ELSE pc' = "done" /\ result' = "error"
    BY DEF ChunkWritten
  <1>2. /\ pc = "body" /\ arrived' = arrived + n
        /\ UNCHANGED <<setup, attempt, status, retries, wait, told>>
    BY DEF ChunkWritten, Arrives
  <1>3. n \in Nat
    BY TransferAssumption
  <1>4. /\ s \in SinkType /\ Balanced(s) /\ s.initialized /\ Explained(s, told)
    BY <1>2, FoundSink
  <1>5. /\ w \in Nat /\ w <= Allowed(n) /\ Allowed(n) \in Nat /\ Allowed(n) <= n
        /\ setup.max > 0 => got + Allowed(n) <= setup.max
        /\ Fits(n) => Allowed(n) = n
    BY <1>3, AllowedBound DEF IInv, Written
  <1>6. TypeOK'
    <2>1. sink' \in SinkType
      BY <1>1, <1>4 DEF SinkType, IInv, TypeOK
    <2> QED
      BY <1>1, <1>2, <1>3, <1>5, <2>1 DEF IInv, TypeOK
  <1>7. CountedInv'
    BY <1>1, <1>2, <1>3, <1>5 DEF IInv, TypeOK, CountedInv, SetupType
  <1>8. WholeInv'
    BY <1>1, <1>2, <1>3 DEF IInv, TypeOK, WholeInv, Flying, Accepted
  <1>9. /\ sink'.open = s.open /\ sink'.opens = s.opens /\ sink'.frees = s.frees
        /\ sink'.initialized = s.initialized
    BY <1>1, <1>4 DEF SinkType
  <1>10. StoreInv'
    BY <1>1, <1>2, <1>4, <1>9 DEF StoreInv, Balanced, Explained, MissingStoreExplained
  <1>11. ToldInv'
    BY <1>1, <1>2 DEF IInv, ToldInv, Flying
  <1> QED
    BY <1>6, <1>7, <1>8, <1>10, <1>11 DEF IInv

\* A chunk that finds no store.
LEMMA CrashInv ==
    ASSUME IInv, NEW n \in 1 .. MaxBody, ChunkCrash(n)
    PROVE  IInv'
  <1>1. PICK s \in Initialized(sink) : ~s.open /\ sink' = s
    BY DEF ChunkCrash
  <1>2. /\ pc = "body" /\ arrived' = arrived + n /\ pc' = "crashed"
        /\ UNCHANGED <<setup, attempt, status, retries, wait, told, result, got, taken>>
    BY DEF ChunkCrash, Arrives
  <1>3. s \in SinkType /\ Balanced(s) /\ s.initialized /\ Explained(s, told)
    BY <1>2, FoundSink
  <1>4. StoreInv'
    BY <1>1, <1>2, <1>3 DEF StoreInv, Balanced, Explained, MissingStoreExplained
  <1> QED
    BY <1>1, <1>2, <1>3, <1>4, TransferAssumption
       DEF IInv, TypeOK, CountedInv, WholeInv, ToldInv, Flying

-----------------------------------------------------------------------------
(* Completion. *)

\* Whether the request is destroyed or runs again, the sink's books balance.
LEMMA FinalFacts ==
    ASSUME NEW s \in SinkType, Balanced(s), s.initialized, Explained(s, told'),
           UNCHANGED setup, Final(s)
    PROVE  /\ sink' \in SinkType /\ StoreInv'
           /\ pc' = IF setup.refresh THEN "waiting" ELSE "ended"
  <1>1. CASE setup.refresh
    BY <1>1 DEF Final, Refreshed, StoreInv, Balanced, Explained, MissingStoreExplained
  <1>2. CASE ~setup.refresh
    <2>1. pc' = "ended" /\ sink' = Freed(s)
      BY <1>2 DEF Final, Destroyed
    <2> QED
      BY <1>2, <2>1, FreedFacts DEF StoreInv, Balanced, MissingStoreExplained
  <1> QED
    BY <1>1, <1>2

\* The same for a sink that could not be notified.
LEMMA UnnotifiedFacts ==
    ASSUME NEW s \in SinkType, Balanced(s), s.initialized, Explained(s, told),
           ~Notifiable(s), UNCHANGED <<setup, told>>, pc' = "crashed", sink' = s
    PROVE  sink' \in SinkType /\ StoreInv'
  BY DEF StoreInv, Balanced, Explained, MissingStoreExplained, Notifiable

\* What every completion leaves alone.
LEMMA CompleteFrame ==
    ASSUME IInv, Complete
    PROVE  /\ pc = "done" /\ CountedInv'
           /\ UNCHANGED <<setup, attempt, status, result, got, arrived, taken>>
  BY DEF Complete, IInv, CountedInv

\* A success is told once and the request runs again or is destroyed.
LEMMA CompletedInv ==
    ASSUME IInv, Complete, Completed
    PROVE  IInv'
  <1>1. PICK s \in Initialized(sink) :
           \/ /\ Notifiable(s)
              /\ told' = [told EXCEPT !.ok = @ + 1]
              /\ Final(s)
           \/ /\ ~Notifiable(s)
              /\ pc' = "crashed" /\ sink' = s /\ UNCHANGED <<told, retries, wait>>
    BY DEF Completed, Unnotified
  <1>2. /\ pc = "done" /\ CountedInv'
        /\ UNCHANGED <<setup, attempt, status, result, got, arrived, taken>>
    BY CompleteFrame
  <1>3. s \in SinkType /\ Balanced(s) /\ s.initialized /\ Explained(s, told)
    BY <1>2, FoundSink
  <1>4. CASE ~Notifiable(s)
    <2>1. pc' = "crashed" /\ UNCHANGED told /\ sink' = s
      BY <1>1, <1>4
    <2>2. sink' \in SinkType /\ StoreInv'
      BY <1>2, <1>3, <1>4, <2>1, UnnotifiedFacts
    <2> QED
      BY <1>2, <2>1, <2>2 DEF IInv, TypeOK, WholeInv, ToldInv, Flying
  <1>5. CASE Notifiable(s)
    <2>1. told' = [told EXCEPT !.ok = @ + 1] /\ Final(s)
      BY <1>1, <1>5
    <2>2. /\ told'.ok = told.ok + 1 /\ told'.failed = told.failed
          /\ told' \in [ok : Nat, failed : Nat]
      BY <2>1 DEF IInv, TypeOK
    <2>3. Explained(s, told')
      BY <1>3, <2>2 DEF Explained
    <2>4. /\ sink' \in SinkType /\ StoreInv'
          /\ pc' = IF setup.refresh THEN "waiting" ELSE "ended"
      BY <1>2, <1>3, <2>1, <2>3, FinalFacts
    <2>5. TypeOK' /\ WholeInv'
      BY <1>2, <2>2, <2>4 DEF IInv, TypeOK, WholeInv, Flying
    <2>6. ToldInv'
      BY <1>2, <2>2, <2>4 DEF IInv, TypeOK, ToldInv, Flying
    <2> QED
      BY <1>2, <2>4, <2>5, <2>6 DEF IInv
  <1> QED
    BY <1>4, <1>5

\* A failure is told once; a 429 and a refresh run again, the rest is destroyed.
LEMMA FailedAttemptInv ==
    ASSUME IInv, Complete, FailedAttempt
    PROVE  IInv'
  <1>1. PICK s \in Initialized(sink) :
           \/ /\ Notifiable(s)
              /\ told' = [told EXCEPT !.failed = @ + 1]
              /\ IF Is429 THEN Again429(Failed(s)) ELSE Final(Failed(s))
           \/ /\ ~Notifiable(s)
              /\ pc' = "crashed" /\ sink' = s /\ UNCHANGED <<told, retries, wait>>
    BY DEF FailedAttempt, Unnotified
  <1>2. /\ pc = "done" /\ CountedInv'
        /\ UNCHANGED <<setup, attempt, status, result, got, arrived, taken>>
    BY CompleteFrame
  <1>3. s \in SinkType /\ Balanced(s) /\ s.initialized /\ Explained(s, told)
    BY <1>2, FoundSink
  <1>4. CASE ~Notifiable(s)
    <2>1. pc' = "crashed" /\ UNCHANGED told /\ sink' = s
      BY <1>1, <1>4
    <2>2. sink' \in SinkType /\ StoreInv'
      BY <1>2, <1>3, <1>4, <2>1, UnnotifiedFacts
    <2> QED
      BY <1>2, <2>1, <2>2 DEF IInv, TypeOK, WholeInv, ToldInv, Flying
  <1>5. CASE Notifiable(s)
    <2>1. /\ told' = [told EXCEPT !.failed = @ + 1]
          /\ IF Is429 THEN Again429(Failed(s)) ELSE Final(Failed(s))
      BY <1>1, <1>5
    <2>2. /\ told'.ok = told.ok /\ told'.failed = told.failed + 1
          /\ told' \in [ok : Nat, failed : Nat] /\ told'.failed > 0
      BY <2>1 DEF IInv, TypeOK
    <2>3. /\ Failed(s) \in SinkType /\ Balanced(Failed(s)) /\ Failed(s).initialized
          /\ Explained(Failed(s), told')
      BY <1>3, <2>2, FailedFacts DEF Explained
    <2>4. /\ sink' \in SinkType /\ StoreInv'
          /\ pc' = IF setup.refresh \/ Is429 THEN "waiting" ELSE "ended"
      <3>1. CASE Is429
        BY <1>2, <2>1, <2>3, <3>1
           DEF Again429, StoreInv, Balanced, Explained, MissingStoreExplained
      <3>2. CASE ~Is429
        <4>1. Final(Failed(s))
          BY <2>1, <3>2
        <4> QED
          BY <1>2, <2>3, <3>2, <4>1, FinalFacts
      <3> QED
        BY <3>1, <3>2
    <2>5. TypeOK' /\ WholeInv'
      BY <1>2, <2>2, <2>4 DEF IInv, TypeOK, WholeInv, Flying
    <2>6. ToldInv'
      BY <1>2, <2>2, <2>4 DEF IInv, TypeOK, ToldInv, Flying, Is429, SetupType
    <2> QED
      BY <1>2, <2>4, <2>5, <2>6 DEF IInv
  <1> QED
    BY <1>4, <1>5

\* The application's own verdict leaves the sink to a rerun or to the destruction.
LEMMA OwnFailureInv ==
    ASSUME IInv, Complete, OwnFailure
    PROVE  IInv'
  <1>1. /\ pc = "done" /\ CountedInv'
        /\ UNCHANGED <<setup, attempt, status, result, got, arrived, taken>>
    BY CompleteFrame
  <1>2. setup.own /\ UNCHANGED told
    BY DEF OwnFailure
  <1>3. CASE pc' = "waiting" /\ UNCHANGED sink
    BY <1>1, <1>2, <1>3
       DEF IInv, TypeOK, WholeInv, StoreInv, ToldInv, Flying, Balanced, Explained,
           MissingStoreExplained
  <1>4. CASE pc' = "crashed" /\ UNCHANGED sink /\ Traps(retries')
    <2>1. Traps(retries)'
      BY <1>1, <1>4 DEF Traps, CapMs, Raw, Wraps
    <2> QED
      BY <1>1, <1>2, <1>4, <2>1
         DEF IInv, TypeOK, WholeInv, StoreInv, ToldInv, Flying, Balanced, Explained,
             MissingStoreExplained
  <1>5. CASE Final(sink)
    <2>1. /\ pc' = IF setup.refresh THEN "waiting" ELSE "ended"
          /\ sink' = IF setup.refresh THEN sink ELSE Freed(sink)
      BY <1>5 DEF Final, Refreshed, Destroyed
    <2>2. sink' \in SinkType /\ StoreInv'
      BY <1>1, <1>2, <2>1, FreedFacts
         DEF IInv, TypeOK, StoreInv, Balanced, Explained, MissingStoreExplained
    <2> QED
      BY <1>1, <1>2, <2>1, <2>2 DEF IInv, TypeOK, WholeInv, ToldInv, Flying
  <1> QED
    BY <1>3, <1>4, <1>5 DEF OwnFailure, Again429

\* A request destroyed before it is finished.
LEMMA AbandonInv == IInv /\ Abandon => IInv'
  <1> SUFFICES ASSUME IInv, Abandon PROVE IInv'
    OBVIOUS
  <1>1. /\ pc' = "ended" /\ sink' = Freed(sink)
        /\ UNCHANGED <<setup, attempt, status, result, got, arrived, taken, told>>
    BY DEF Abandon, Destroyed
  <1>2. /\ Freed(sink) \in SinkType /\ Balanced(Freed(sink)) /\ ~Freed(sink).open
        /\ Freed(sink).opens = sink.opens /\ Freed(sink).initialized = sink.initialized
    BY FreedFacts DEF IInv, TypeOK, StoreInv
  <1>3. StoreInv'
    BY <1>1, <1>2 DEF IInv, StoreInv, Balanced, Explained, MissingStoreExplained
  <1>4. ToldInv'
    <2>1. pc = "waiting" \/ Flying
      BY DEF Abandon, Flying
    <2>2. attempt \in Nat /\ told.ok \in Nat /\ told.failed \in Nat
      BY DEF IInv, TypeOK
    <2>3. CASE setup.own
      BY <1>1, <2>3 DEF ToldInv
    <2>4. CASE ~setup.own
      <3> DEFINE heard == told.ok + told.failed
      <3>1. /\ heard \in Nat /\ heard \in {attempt - 1, attempt}
            /\ ~setup.refresh /\ ~setup.limited => heard <= 1
        BY <2>1, <2>2, <2>4 DEF IInv, ToldInv
      <3>2. pc' = "ended" /\ UNCHANGED <<setup, attempt, told>> /\ ~Flying'
        BY <1>1 DEF Flying
      <3> QED
        BY <3>1, <3>2 DEF ToldInv
    <2> QED
      BY <2>3, <2>4
  <1> QED
    BY <1>1, <1>2, <1>3, <1>4 DEF IInv, TypeOK, CountedInv, WholeInv, Flying

\* The sink of a request that is answered without an attempt.
LEMMA AnsweredSink ==
    ASSUME IInv, pc # "ended", NEW s \in SinkType, Balanced(s),
           ~s.initialized => ~s.open /\ s.opens = 0,
           pc' = "ended", sink' = Freed(s)
    PROVE  sink' \in SinkType /\ StoreInv'
  BY FreedFacts DEF StoreInv, Balanced, Explained, MissingStoreExplained

\* A request failed by its resource, or by the destruction of the loop while it
\* is blocked, is told so once.
LEMMA FailBlockedInv == IInv /\ FailBlocked => IInv'
  <1> SUFFICES ASSUME IInv, FailBlocked PROVE IInv'
    OBVIOUS
  <1>1. /\ pc = "waiting" /\ attempt = 0
        /\ UNCHANGED <<setup, attempt, status, result, got, arrived, taken>>
    BY DEF FailBlocked
  <1>2. CountedInv'
    BY <1>1 DEF IInv, CountedInv
  <1>3. CASE setup.own /\ Destroyed(sink) /\ UNCHANGED told
    <2>1. pc' = "ended" /\ sink' = Freed(sink)
      BY <1>3 DEF Destroyed
    <2>2. sink' \in SinkType /\ StoreInv'
      BY <1>1, <2>1, AnsweredSink DEF IInv, TypeOK, StoreInv
    <2> QED
      BY <1>1, <1>2, <1>3, <2>1, <2>2 DEF IInv, TypeOK, WholeInv, ToldInv, Flying
  <1>4. ASSUME NEW s \in Initialized(sink), Unnotified(s)
        PROVE  IInv'
    <2>1. /\ ~Notifiable(s) /\ pc' = "crashed" /\ sink' = s /\ UNCHANGED told
      BY <1>4 DEF Unnotified
    <2>2. s \in SinkType /\ Balanced(s) /\ s.initialized /\ Explained(s, told)
      BY <1>1, FoundSink
    <2>3. sink' \in SinkType /\ StoreInv'
      BY <1>1, <2>1, <2>2, UnnotifiedFacts
    <2> QED
      BY <1>1, <1>2, <2>1, <2>3 DEF IInv, TypeOK, WholeInv, ToldInv, Flying
  <1>5. ASSUME NEW s \in Initialized(sink),
               told' = [told EXCEPT !.failed = @ + 1], Destroyed(Failed(s))
        PROVE  IInv'
    <2>1. pc' = "ended" /\ sink' = Freed(Failed(s))
      BY <1>5 DEF Destroyed
    <2>2. /\ told'.ok = told.ok /\ told'.failed = told.failed + 1
          /\ told' \in [ok : Nat, failed : Nat]
      BY <1>5 DEF IInv, TypeOK
    <2>3. Failed(s) \in SinkType /\ Balanced(Failed(s)) /\ Failed(s).initialized
      BY <1>1, FoundSink, FailedFacts
    <2>4. sink' \in SinkType /\ StoreInv'
      BY <1>1, <2>1, <2>3, AnsweredSink
    <2> QED
      BY <1>1, <1>2, <2>1, <2>2, <2>4 DEF IInv, TypeOK, WholeInv, ToldInv, Flying
  <1> QED
    BY <1>3, <1>4, <1>5 DEF FailBlocked

\* An injected request is told of its success once.
LEMMA AnswerInjectedInv == IInv /\ AnswerInjected => IInv'
  <1> SUFFICES ASSUME IInv, AnswerInjected PROVE IInv'
    OBVIOUS
  <1>1. /\ pc = "waiting" /\ attempt = 0
        /\ UNCHANGED <<setup, attempt, status, result, got, arrived, taken>>
    BY DEF AnswerInjected
  <1>2. CountedInv'
    BY <1>1 DEF IInv, CountedInv
  <1>3. PICK s \in Initialized(sink) :
           \/ Notifiable(s) /\ told' = [told EXCEPT !.ok = @ + 1] /\ Destroyed(s)
           \/ Unnotified(s)
    BY DEF AnswerInjected
  <1>4. s \in SinkType /\ Balanced(s) /\ s.initialized /\ Explained(s, told)
    BY <1>1, FoundSink
  <1>5. CASE Unnotified(s)
    <2>1. /\ ~Notifiable(s) /\ pc' = "crashed" /\ sink' = s /\ UNCHANGED told
      BY <1>5 DEF Unnotified
    <2>2. sink' \in SinkType /\ StoreInv'
      BY <1>1, <1>4, <2>1, UnnotifiedFacts
    <2> QED
      BY <1>1, <1>2, <2>1, <2>2 DEF IInv, TypeOK, WholeInv, ToldInv, Flying
  <1>6. CASE told' = [told EXCEPT !.ok = @ + 1] /\ Destroyed(s)
    <2>1. pc' = "ended" /\ sink' = Freed(s)
      BY <1>6 DEF Destroyed
    <2>2. /\ told'.ok = told.ok + 1 /\ told'.failed = told.failed
          /\ told' \in [ok : Nat, failed : Nat]
      BY <1>6 DEF IInv, TypeOK
    <2>3. sink' \in SinkType /\ StoreInv'
      BY <1>1, <1>4, <2>1, AnsweredSink
    <2> QED
      BY <1>1, <1>2, <2>1, <2>2, <2>3 DEF IInv, TypeOK, WholeInv, ToldInv, Flying
  <1> QED
    BY <1>3, <1>5, <1>6

\* Every step preserves the invariant.
LEMMA StepInv == IInv /\ [Next]_vars => IInv'
  <1> SUFFICES ASSUME IInv, [Next]_vars PROVE IInv'
    OBVIOUS
  <1>1. CASE StartAttempt
    BY <1>1, StartInv
  <1>2. CASE Headers \/ End
    BY <1>2, PassInv
  <1>3. CASE Chunk
    <2>1. PICK n \in 1 .. MaxBody : ChunkRefused(n) \/ ChunkWritten(n) \/ ChunkCrash(n)
      BY <1>3 DEF Chunk
    <2> QED
      BY <2>1, RefusedInv, WrittenInv, CrashInv
  <1>4. CASE Complete
    <2>1. Completed \/ FailedAttempt \/ OwnFailure
      BY <1>4 DEF Complete
    <2> QED
      BY <1>4, <2>1, CompletedInv, FailedAttemptInv, OwnFailureInv
  <1>5. CASE Abandon
    BY <1>5, AbandonInv
  <1>6. CASE FailBlocked \/ AnswerInjected
    BY <1>6, FailBlockedInv, AnswerInjectedInv
  <1>7. CASE UNCHANGED vars
    <2>1. Traps(retries)' = Traps(retries)
      BY <1>7 DEF vars, Traps, CapMs, Raw, Wraps
    <2> QED
      BY <1>7, <2>1
         DEF vars, IInv, TypeOK, CountedInv, WholeInv, StoreInv, ToldInv, Flying,
             Balanced, Explained, MissingStoreExplained
  <1> QED
    BY <1>1, <1>2, <1>3, <1>4, <1>5, <1>6, <1>7 DEF Next

\* The inductive invariant holds of every reachable state.
THEOREM TransferInvariant == Spec => []IInv
  BY InitInv, StepInv, PTL DEF Spec

\* The limit of max_download_size bounds what one attempt leaves in the store.
THEOREM LimitKept == Spec => []DownloadBounded
  <1>1. IInv => DownloadBounded
    BY DEF IInv, TypeOK, CountedInv, DownloadBounded, SetupType
  <1> QED
    BY <1>1, TransferInvariant, PTL

\* A store is freed once, and before the request is gone.
THEOREM StoreFreedOnce == Spec => []FreedOnce
  <1>1. IInv => FreedOnce
    BY DEF IInv, StoreInv, Balanced, FreedOnce
  <1> QED
    BY <1>1, TransferInvariant, PTL

\* A NULL store is used only for the reasons named.
THEOREM CrashesExplained == Spec => []MissingStoreExplained
  <1>1. IInv => MissingStoreExplained
    BY DEF IInv, StoreInv
  <1> QED
    BY <1>1, TransferInvariant, PTL

\* Every attempt that comes to an end is told once, and so is every request that
\* is answered without one.
THEOREM AttemptsTold == Spec => []ToldOnce
  <1>1. IInv => ToldOnce
    BY DEF IInv, TypeOK, ToldInv, ToldOnce
  <1> QED
    BY <1>1, TransferInvariant, PTL

\* Nothing of a successful body is missing from the store.
THEOREM SuccessWhole == Spec => SuccessIsWhole
  <1>1. IInv /\ [Next]_vars => [told'.ok > told.ok => taken = arrived]_vars
    <2> SUFFICES ASSUME IInv, Next, told'.ok > told.ok PROVE taken = arrived
      OBVIOUS
    <2>1. told.ok \in Nat
      BY DEF IInv, TypeOK
    <2>2. CASE Complete /\ Completed
      BY <2>2 DEF Complete, Completed, Success, IInv, WholeInv
    <2>3. CASE (Complete /\ FailedAttempt) \/ FailBlocked
      <3>1. told'.ok = told.ok
        BY <2>3 DEF FailedAttempt, FailBlocked, Unnotified, IInv, TypeOK
      <3> QED
        BY <2>1, <3>1
    <2>4. CASE AnswerInjected
      BY <2>4 DEF AnswerInjected, IInv, WholeInv
    <2>5. CASE OwnFailure \/ ~(Complete \/ FailBlocked \/ AnswerInjected)
      <3>1. UNCHANGED told
        BY <2>5 DEF Next, Complete, OwnFailure, StartAttempt, Headers, End, Chunk,
                    ChunkRefused, ChunkWritten, ChunkCrash, Arrives, Abandon
      <3> QED
        BY <2>1, <3>1
    <2> QED
      BY <2>2, <2>3, <2>4, <2>5 DEF Complete
  <1> QED
    BY <1>1, TransferInvariant, PTL DEF Spec, SuccessIsWhole
=============================================================================
