----------------------------- MODULE MCAsyncFgc -----------------------------
(* Instances of AsyncFgc for TLC: three sessions on two gateways.          *)
EXTENDS AsyncFgc, TLC

CONSTANTS s1, s2, s3, g1, g2, p1, p2, p3

MCGateways == {g1, g2}
MCSessions == {s1, s2, s3}
\* One connection for each session: more are never opened.
MCProtocols == {p1, p2, p3}
MCTokenHolders == {s1, s2}
============================================================================
