------------------------------ MODULE MCTransfer ------------------------------
(***************************************************************************)
(* Every kind of request, with a word of sixteen values: the third retry   *)
(* with factor three leaves it, the wait in nanoseconds leaves it earlier. *)
(***************************************************************************)
EXTENDS Transfer

Plain == [sink |-> "memory", own |-> FALSE, refresh |-> FALSE, limited |-> FALSE,
          max |-> 0, retries |-> 0, factor |-> 2, floor |-> 0, ceiling |-> 0,
          full |-> TRUE]

\* Default callbacks, with and without a limit, repeated or rate limited.
Defaults == {[Plain EXCEPT !.sink = s, !.max = m, !.refresh = f, !.limited = l] :
                s \in {"memory", "file"}, m \in {0, 2}, f \in BOOLEAN, l \in BOOLEAN}

\* The application's own on_failure and the default retry policy.
Retried == {[Plain EXCEPT !.sink = s, !.own = TRUE, !.max = 2, !.factor = 3,
                          !.retries = r, !.floor = b[1], !.ceiling = b[2], !.full = j] :
                s \in {"memory", "file"}, r \in {-1, 2}, j \in BOOLEAN,
                b \in {<<0, 0>>, <<2, 6>>, <<5, 4>>}}

Mixed == {[Plain EXCEPT !.own = TRUE, !.factor = 0, !.retries = 1, !.refresh = TRUE,
                        !.limited = TRUE]}

MCSetups == Defaults \cup Retried \cup Mixed
=============================================================================
