--------------------------- MODULE MCAsyncStream ---------------------------
(* AsyncStream for TLC.                                                    *)
EXTENDS AsyncStream, TLC

\* Each kind of response before and behind each other one, in the order the
\* gateway likes; the lock of a terminal succeeds as the first command, and
\* fails as the third.
MCKinds == (1 :> {"text", "binary"}) @@ (2 :> {"binary"}) @@ (3 :> {"error"})
============================================================================
