--------------------------- MODULE ChannelLeases ---------------------------
(***************************************************************************)
(* What channel_manager promises its callers, without targets, counters or *)
(* a lock.  Sessions lease lines of pools: a pool is everything that has   *)
(* to go through one connection (a gateway's sync sessions, or one serial  *)
(* port).  The first lease of a pool opens a line, every other shares it,  *)
(* and the line is closed with the last lease, never before.               *)
(***************************************************************************)
CONSTANTS Pools, Sessions, Channels, NoChannel

VARIABLES
    leases,   \* the sessions that hold a lease of each pool
    line,     \* the channel the pool goes through, NoChannel without leases
    open,     \* the channels that are connected
    using     \* the channel a session was handed, NoChannel if none

vars == <<leases, line, open, using>>

Init ==
    /\ leases = [p \in Pools |-> {}]
    /\ line = [p \in Pools |-> NoChannel]
    /\ open = {}
    /\ using = [s \in Sessions |-> NoChannel]

\* get_channel: the caller is counted before it is handed the channel.
Lease(s, p) ==
    /\ \A q \in Pools : s \notin leases[q]
    /\ leases' = [leases EXCEPT ![p] = @ \cup {s}]
    /\ \/ /\ line[p] # NoChannel
          /\ UNCHANGED <<line, open>>
       \/ /\ line[p] = NoChannel
          /\ \E c \in Channels \ open :
               /\ \A r \in Sessions : using[r] # c
               /\ line' = [line EXCEPT ![p] = c]
               /\ open' = open \cup {c}
    /\ UNCHANGED using

\* get_channel returns: always the line of the pool.
Hand(s, p) ==
    /\ s \in leases[p]
    /\ using[s] = NoChannel
    /\ using' = [using EXCEPT ![s] = line[p]]
    /\ UNCHANGED <<leases, line, open>>

\* free_channel: the line goes with the last lease.
Release(s, p) ==
    /\ s \in leases[p]
    /\ using[s] = line[p]
    /\ leases' = [leases EXCEPT ![p] = @ \ {s}]
    /\ IF leases[p] = {s}
       THEN /\ line' = [line EXCEPT ![p] = NoChannel]
            /\ open' = open \ {line[p]}
       ELSE UNCHANGED <<line, open>>
    /\ using' = [using EXCEPT ![s] = NoChannel]

Next ==
    \E s \in Sessions, p \in Pools : Lease(s, p) \/ Hand(s, p) \/ Release(s, p)

Spec == Init /\ [][Next]_vars
===========================================================================
