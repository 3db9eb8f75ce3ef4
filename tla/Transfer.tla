------------------------------- MODULE Transfer -------------------------------
(***************************************************************************)
(* The data path of one request over its attempts: the header and body     *)
(* callbacks given to libcurl (curl_event_request.c), the default callbacks *)
(* on top of a memory or file sink (sinks/memory.c, sinks/file.c), the     *)
(* backoff of the default retry policy, and what the completion handler of *)
(* the loop does with the request.  EventLoop has the containers a request *)
(* is in; here it waits, transfers, or has ended.                          *)
(***************************************************************************)
EXTENDS Integers

CONSTANTS
    Setups,       \* the requests considered: see SetupType
    MaxBody,      \* bound: the bytes of a body
    MaxAttempts,  \* bound: the attempts of a request
    Word,         \* the values of a uint64_t: 0 .. Word - 1
    Step,         \* the base unit of the backoff, in milliseconds
    Ns,           \* nanoseconds in a millisecond
    Pause         \* the wait, in ns, the rate manager answers to a 429

\* What the application has set on a request before it submits it.
SetupType ==
    [sink    : {"memory", "file"},
     own     : BOOLEAN,      \* on_failure is NULL or its own, and the verdict -1
     refresh : BOOLEAN,      \* should_refresh
     limited : BOOLEAN,      \* rate_limit # NULL
     max     : Nat,          \* max_download_size, 0 for none
     retries : Nat \cup {-1}, factor : Nat, floor : Nat, ceiling : Nat,
     full    : BOOLEAN]      \* full_jitter

\* Without retries on_retry is NULL, and -1 from on_failure calls it: EventLoop.
ASSUME TransferAssumption ==
    /\ Setups \subseteq SetupType
    /\ \A s \in Setups : s.own => s.retries # 0
    /\ MaxBody \in Nat /\ MaxAttempts \in Nat
    /\ Word \in Nat \ {0} /\ Step \in Nat \ {0} /\ Ns \in Nat \ {0} /\ Pause \in Nat

VARIABLES
    setup,      \* the request's settings
    pc,         \* "waiting" in a container, "headers" and "body" in libcurl,
                \* "done" with its message read, "ended" when it is destroyed,
                \* "crashed" after undefined behaviour
    attempt,    \* specification-only: how often it has been started
    status,     \* the response code
    result,     \* the CURLcode
    got,        \* bytes_downloaded
    arrived,    \* specification-only: the bytes of this attempt libcurl delivered
    taken,      \* specification-only: those of them that are in the store
    sink,       \* see SinkType
    retries,    \* current_retries
    wait,       \* next_retry_at when it was set, less the time it was then
    told        \* specification-only: how often the sink's callback was called

vars == <<setup, pc, attempt, status, result, got, arrived, taken, sink,
          retries, wait, told>>

SinkType ==
    [initialized : BOOLEAN,      \* sink_initialized
     open  : BOOLEAN,            \* the buffer or FILE is not NULL
     body  : SUBSET Nat,         \* the attempts whose bytes are in the store
     opens : Nat, frees : Nat]   \* specification-only

Init ==
    /\ setup \in Setups
    /\ pc = "waiting" /\ attempt = 0 /\ status = "none" /\ result = "ok"
    /\ got = 0 /\ arrived = 0 /\ taken = 0 /\ retries = 0 /\ wait = 0
    /\ sink = [initialized |-> FALSE, open |-> FALSE, body |-> {},
               opens |-> 0, frees |-> 0]
    /\ told = [ok |-> 0, failed |-> 0]

\* The store is freed, by fclose or aml_buffer_destroy.
\* Mutant of Freed: the pointer is not cleared.
FreedNotCleared(s) == IF s.open THEN [s EXCEPT !.frees = @ + 1] ELSE s
Freed(s) == IF s.open THEN [s EXCEPT !.frees = @ + 1, !.open = FALSE] ELSE s

\* What the default callbacks do before anything else: the first of them
\* initialises the sink, which frees a store it has and gets an empty one.
\* The file may not open, the buffer not be allocated; nobody looks.
Initialized(s) ==
    IF s.initialized THEN {s}
    ELSE {[Freed(s) EXCEPT !.initialized = TRUE, !.body = {}, !.open = open,
                           !.opens = IF open THEN @ + 1 ELSE @] : open \in BOOLEAN}

-----------------------------------------------------------------------------
(* Attempts. *)

\* curl_event_loop_request_start and setup_curl_handle.
StartAttempt ==
    /\ pc = "waiting" /\ attempt < MaxAttempts
    /\ pc' = "headers" /\ attempt' = attempt + 1
    /\ status' = "none" /\ result' = "ok"
    /\ got' = 0 /\ arrived' = 0 /\ taken' = 0
    /\ UNCHANGED <<setup, sink, retries, wait, told>>

\* header_callback, installed only if there is a limit.  "length" is what it reads
\* as Content-Length: -1 if there is none, and any number if the one sent
\* overflows a long.  It says nothing of the body, which may be compressed.
Headers ==
    /\ pc = "headers"
    /\ status' \in {"200", "429", "other"}
    /\ \E length \in -1 .. MaxBody :
          IF setup.max > 0 /\ length > setup.max
          THEN pc' = "done" /\ result' = "error"
          ELSE pc' = "body" /\ UNCHANGED result
    /\ UNCHANGED <<setup, attempt, got, arrived, taken, sink, retries, wait, told>>

\* libcurl ends the attempt: whole, or with an error of its own.
End ==
    /\ \/ pc = "body" /\ result' \in {"ok", "error"}
       \/ pc = "headers" /\ result' = "error"
    /\ pc' = "done"
    /\ UNCHANGED <<setup, attempt, status, got, arrived, taken, sink, retries, wait, told>>

\* Mutant of Fits: the bytes that arrive now are not counted.
FitsLate(n) == setup.max > 0 => got <= setup.max
Fits(n)     == setup.max > 0 => got + n <= setup.max

\* How many of n bytes write_thunk hands to the write callback.
Allowed(n) ==
    IF Fits(n) THEN n ELSE IF setup.max > got THEN setup.max - got ELSE 0

\* Mutant of Accepted: what lies beyond the limit is dropped silently.
AcceptedClamped(n, w) == w = Allowed(n)
\* libcurl goes on only if write_thunk returns n; beyond the limit it returns 0.
Accepted(n, w) == Fits(n) /\ w = n

\* What the sink's write returns for m bytes: fwrite may fall short.
Written(m) == IF setup.sink = "file" THEN 0 .. m ELSE {m}

Arrives(n) == /\ pc = "body" /\ n <= MaxBody - arrived
              /\ arrived' = arrived + n
              /\ UNCHANGED <<setup, attempt, status, retries, wait, told>>

\* write_thunk with no byte left to hand on: the write callback is not called.
ChunkRefused(n) ==
    /\ Arrives(n) /\ Allowed(n) = 0
    /\ pc' = "done" /\ result' = "error"
    /\ UNCHANGED <<got, taken, sink>>

\* write_thunk, default_on_write and the sink's write.
ChunkWritten(n) ==
    /\ Arrives(n) /\ Allowed(n) > 0
    /\ \E s \in Initialized(sink), w \in Written(Allowed(n)) :
          /\ s.open
          /\ sink' = [s EXCEPT !.body = IF w > 0 THEN @ \cup {attempt} ELSE @]
          /\ taken' = taken + w
          /\ got' = got + (IF Fits(n) THEN n ELSE w)
          /\ IF Accepted(n, w) THEN UNCHANGED <<pc, result>>
             ELSE pc' = "done" /\ result' = "error"

\* The same with a store that is NULL.
ChunkCrash(n) ==
    /\ Arrives(n) /\ Allowed(n) > 0
    /\ \E s \in Initialized(sink) : ~s.open /\ sink' = s
    /\ pc' = "crashed"
    /\ UNCHANGED <<result, got, taken>>

Chunk == \E n \in 1 .. MaxBody : ChunkRefused(n) \/ ChunkWritten(n) \/ ChunkCrash(n)

-----------------------------------------------------------------------------
(* The backoff of the default retry policy. *)

Raw(n) == Step * (IF setup.factor > 0 THEN setup.factor ELSE 2) ^ n

\* (uint64_t)raw_ms: out of range it is 0 or the largest number, by platform.
CapMs(n) == IF Raw(n) < Word THEN {Raw(n)} ELSE {0, Word - 1}

\* The addition in cap_ms + 1 wraps to zero, and the remainder is by zero: it
\* leaves the dividend on one platform and traps on another.
Wraps(cap) == setup.full /\ cap = Word - 1

Jitters(cap) ==
    IF Wraps(cap) THEN 0 .. Word - 1 ELSE 0 .. (IF setup.full THEN cap ELSE cap \div 2)

\* Mutant of Spread: equal jitter without its fixed half.
SpreadFromZero(cap, jitter) == jitter
Spread(cap, jitter) == IF setup.full THEN jitter ELSE cap \div 2 + jitter

Clamped(delay) ==
    LET floored == IF setup.floor > delay THEN setup.floor ELSE delay
    IN  IF setup.ceiling > 0 /\ floored > setup.ceiling THEN setup.ceiling ELSE floored

\* compute_backoff_ms
Backoffs(n) == UNION {{Clamped(Spread(cap, j)) : j \in Jitters(cap)} : cap \in CapMs(n)}
Traps(n)    == \E cap \in CapMs(n) : Wraps(cap)

-----------------------------------------------------------------------------
(* Completion: process_completed_requests, with the default callbacks.  The  *)
(* first operators give the sink as the callback leaves it.                  *)

Success == result = "ok" /\ status = "200"

\* memory_complete and memory_failure read the buffer; file_* leave the file.
Notifiable(s) == setup.sink = "file" \/ s.open

\* A sink that cannot be notified: the callback reads a buffer that is not there.
Unnotified(s) ==
    ~Notifiable(s) /\ pc' = "crashed" /\ sink' = s /\ UNCHANGED <<told, retries, wait>>

\* memory_failure frees the buffer, file_failure keeps the file open.
Failed(s) == IF setup.sink = "memory" THEN Freed(s) ELSE s

\* curl_event_request_destroy, with the sink's destroy.
Destroyed(s) == pc' = "ended" /\ sink' = Freed(s) /\ UNCHANGED <<retries, wait>>

\* A 429 of a rate limited request.
Again429(s) ==
    pc' = "waiting" /\ sink' = s /\ wait' = Pause /\ UNCHANGED retries

\* should_refresh: it keeps the due time it has.
Refreshed(s) == pc' = "waiting" /\ sink' = s /\ retries' = 0 /\ UNCHANGED wait

\* Mutants of Final: a refresh cleans up its sink; a failure is tried again.
FinalCleaned(s)   == IF setup.refresh THEN Refreshed(Freed(s)) ELSE Destroyed(s)
FinalTransient(s) == IF setup.refresh \/ ~Success THEN Refreshed(s) ELSE Destroyed(s)
Final(s) == IF setup.refresh THEN Refreshed(s) ELSE Destroyed(s)

Is429 == setup.limited /\ status = "429"
MayRetry == setup.retries = -1 \/ retries < setup.retries

Completed ==
    /\ Success
    /\ \E s \in Initialized(sink) :
          \/ /\ Notifiable(s)
             /\ told' = [told EXCEPT !.ok = @ + 1]
             /\ Final(s)
          \/ Unnotified(s)

\* default_on_failure, which returns 0.
FailedAttempt ==
    /\ ~Success /\ ~setup.own
    /\ \E s \in Initialized(sink) :
          \/ /\ Notifiable(s)
             /\ told' = [told EXCEPT !.failed = @ + 1]
             /\ IF Is429 THEN Again429(Failed(s)) ELSE Final(Failed(s))
          \/ Unnotified(s)

\* The application's own on_failure, which returns -1 and leaves the sink alone.
OwnFailure ==
    /\ ~Success /\ setup.own /\ UNCHANGED told
    /\ \/ Is429 /\ Again429(sink)
       \/ /\ ~Is429 /\ MayRetry
          /\ retries' = retries + 1 /\ UNCHANGED sink
          /\ \/ pc' = "waiting" /\ \E ms \in Backoffs(retries') : wait' = (ms * Ns) % Word
             \/ pc' = "crashed" /\ Traps(retries') /\ UNCHANGED wait
       \/ ~Is429 /\ ~MayRetry /\ Final(sink)

Complete ==
    /\ pc = "done"
    /\ Completed \/ FailedAttempt \/ OwnFailure
    /\ UNCHANGED <<setup, attempt, status, result, got, arrived, taken>>

-----------------------------------------------------------------------------
(* Ends without a completion.  Only the first admission of a request blocks  *)
(* it on a resource, and an injected request is never started: both kinds    *)
(* have no attempt behind them.                                              *)

\* Mutant of FailBlocked: the request is told of the failure, and kept.
FailBlockedKept ==
    /\ pc = "waiting" /\ attempt = 0 /\ ~setup.own
    /\ \E s \in Initialized(sink) :
          /\ Notifiable(s)
          /\ told' = [told EXCEPT !.failed = @ + 1]
          /\ Refreshed(Failed(s))
    /\ UNCHANGED <<setup, attempt, status, result, got, arrived, taken>>
\* A blocked request whose resource is published as NULL, or that still waits when
\* the loop is destroyed: on_failure is called, its answer ignored, and the request
\* is destroyed.
FailBlocked ==
    /\ pc = "waiting" /\ attempt = 0
    /\ \/ setup.own /\ Destroyed(sink) /\ UNCHANGED told
       \/ /\ ~setup.own
          /\ \E s \in Initialized(sink) :
                \/ /\ Notifiable(s)
                   /\ told' = [told EXCEPT !.failed = @ + 1]
                   /\ Destroyed(Failed(s))
                \/ Unnotified(s)
    /\ UNCHANGED <<setup, attempt, status, result, got, arrived, taken>>

\* An injected request: on_complete is called with no transfer behind it.
AnswerInjected ==
    /\ pc = "waiting" /\ attempt = 0
    /\ \E s \in Initialized(sink) :
          \/ /\ Notifiable(s)
             /\ told' = [told EXCEPT !.ok = @ + 1]
             /\ Destroyed(s)
          \/ Unnotified(s)
    /\ UNCHANGED <<setup, attempt, status, result, got, arrived, taken>>

\* The loop destroys a request and calls nobody: cancelled, not prepared, or in a
\* map or list of a loop that is destroyed.
Abandon ==
    /\ pc \in {"waiting", "headers", "body"}
    /\ Destroyed(sink)
    /\ UNCHANGED <<setup, attempt, status, result, got, arrived, taken, told>>

Next == \/ StartAttempt \/ Headers \/ End \/ Chunk \/ Complete
        \/ FailBlocked \/ AnswerInjected \/ Abandon

Spec == Init /\ [][Next]_vars

-----------------------------------------------------------------------------
(* Properties. *)

\* max_download_size is honoured during the body: whatever the chunks, however
\* little the sink takes of them and whatever Content-Length says, no attempt
\* puts more bytes than the limit into the store (write_thunk).
DownloadBounded == setup.max > 0 => taken <= setup.max

\* A success is whole: when the callback hears of one, every byte libcurl
\* delivered in this attempt is in the store.  A body cut at the limit or a
\* write that fell short must have ended as a failure (write_thunk, file_write).
SuccessIsWhole == [][told'.ok > told.ok => taken = arrived]_vars

\* A NULL store is used only if opening it failed, or if a memory sink has heard
\* of a failure before: its buffer is gone and a rerun does not get a new one.
\* Otherwise only the remainder by zero of a backoff that left the word traps.
MissingStoreExplained ==
    pc = "crashed" =>
        \/ sink.opens = 0
        \/ setup.sink = "memory" /\ told.failed > 0
        \/ setup.own /\ Traps(retries)

\* Every store that was opened is freed exactly once, at the latest when the
\* request is destroyed, over any number of reruns, failures and clean-ups.
FreedOnce ==
    /\ sink.opens = sink.frees + (IF sink.open THEN 1 ELSE 0)
    /\ pc = "ended" => ~sink.open

\* With the default callbacks the application hears once of every attempt that
\* came to an end, 429s included, and once of a request that is answered without
\* one (its resource failed, the loop was destroyed while it was blocked, it was
\* injected); only the attempt a destruction cuts short is not heard of.  A
\* request that is neither repeated nor rate limited is heard of at most once.
ToldOnce ==
    ~setup.own =>
        LET heard == told.ok + told.failed
        IN  /\ pc = "waiting" => heard = attempt
            /\ pc = "ended" => \/ heard \in {attempt - 1, attempt}
                               \/ attempt = 0 /\ heard = 1
            /\ ~setup.refresh /\ ~setup.limited => heard <= 1

\* A retry is due neither too soon nor too late: with equal jitter it waits at
\* least half of the exponential step, or the ceiling if that is lower, and never
\* longer than the step, the floor or the ceiling allow.  It holds as long as
\* the step fits a word, and the wait in nanoseconds does: past that the wait
\* may be nothing at all (compute_backoff_ms, default_calculate_retry_enhanced).
RetryPaced ==
    [][ LET step == Raw(retries')
        IN  /\ retries' > retries /\ pc' = "waiting"
            /\ step < Word /\ Clamped(step) * Ns < Word
            => /\ setup.full \/ wait' >= Clamped(step \div 2) * Ns
               /\ wait' <= Clamped(step) * Ns ]_vars

\* What the comment in file_init promises, "for retries": the store is started anew,
\* so a success is about the bytes of its own attempt only.
BodyIsOneAttempt == [][told'.ok > told.ok => sink.body \subseteq {attempt}]_vars
=============================================================================
