----------------------------- MODULE MCSyncFgc -----------------------------
(* Instances of SyncFgc for TLC: two sessions on two fgcs of one gateway, or *)
(* on one of them and on a serial port.                                     *)
EXTENDS SyncFgc, TLC

CONSTANTS s1, s2, c1, c2

MCSessions == {s1, s2}
TwoChannels == {c1, c2}
\* Enough for one gateway where time is short: one connection is open at a time,
\* and its identity is free again when it is closed.
OneChannel == {c1}
MCTargets == {[gw |-> "gw1", type |-> "sync", fgc |-> f] : f \in {"f1", "f2"}}
MixedTargets == {[gw |-> "gw1", type |-> "sync", fgc |-> "f1"],
                 [gw |-> "SERIAL_f3", type |-> "serial", fgc |-> "f3"]}
MCSharedTypes == {"sync", "async"}
BothSessions == {s1, s2}
OneSession == {s1}
\* A token, its renewal and a command; a session without a token.
Requests31 == (s1 :> 3) @@ (s2 :> 1)
============================================================================
