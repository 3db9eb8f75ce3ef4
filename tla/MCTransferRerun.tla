--------------------------- MODULE MCTransferRerun ----------------------------
(***************************************************************************)
(* A download into a file, repeated after it succeeds (should_refresh).    *)
(***************************************************************************)
EXTENDS Transfer

MCSetups ==
    {[sink |-> "file", own |-> FALSE, refresh |-> TRUE, limited |-> FALSE,
      max |-> 0, retries |-> 0, factor |-> 2, floor |-> 0, ceiling |-> 0,
      full |-> TRUE]}
=============================================================================
