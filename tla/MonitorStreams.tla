---------------------------- MODULE MonitorStreams ----------------------------
(***************************************************************************)
(* What MonitorLoop promises to whom subscribes: one stream per session,   *)
(* shared by its subscribers, and a thread that goes round with those it   *)
(* found active.  A stream is in a round only while somebody is subscribed *)
(* to it, or just about to be; the last one to leave takes it out.         *)
(*                                                                         *)
(* MonitorLoop implements this, MonitorSessions is built on it.            *)
(***************************************************************************)
CONSTANTS
    Subscribers,
    Stream(_),   \* of a subscriber
    Ports        \* streams that cannot time out

VARIABLES
    joining,     \* whose session is there, but not yet its handler
    subscribed,
    thread,      \* where the thread is in its round
    watched,     \* streams that were active when the round began
    timeout_sessions, \* of these, the ones that may have timed out
    recv_socks   \* those with something to receive

users == <<joining, subscribed>>
vars == <<users, thread, watched, timeout_sessions, recv_socks>>

StreamsOf(S) == {Stream(h) : h \in S}

Init ==
    /\ joining = {}
    /\ subscribed = {}
    /\ thread = "sockets"
    /\ watched = {}
    /\ timeout_sessions = {}
    /\ recv_socks = {}

---------------------------------------------------------------------------
(* Subscribers, one at a time.                                             *)

Begin(h) ==
    /\ joining = {}
    /\ h \notin subscribed
    /\ joining' = {h}
    /\ UNCHANGED <<subscribed, thread, watched, timeout_sessions, recv_socks>>

Subscribe(h) ==
    /\ h \in joining
    /\ joining' = joining \ {h}
    /\ subscribed' = subscribed \cup {h}
    /\ UNCHANGED <<thread, watched, timeout_sessions, recv_socks>>

\* The round goes on with the streams that are left.
Unsubscribe(h) ==
    /\ joining = {}
    /\ h \in subscribed
    /\ subscribed' = subscribed \ {h}
    /\ LET gone == {Stream(h)} \ StreamsOf(subscribed \ {h})
       IN  /\ watched' = watched \ gone
           /\ timeout_sessions' = timeout_sessions \ gone
           /\ recv_socks' = recv_socks \ gone
    /\ UNCHANGED <<joining, thread>>

---------------------------------------------------------------------------
(* The thread.                                                             *)

Step(from, to) == thread = from /\ thread' = to

TakeSockets ==
    /\ Step("sockets", "handlers")
    /\ watched' \in SUBSET StreamsOf(subscribed \cup joining)
    /\ UNCHANGED <<users, timeout_sessions, recv_socks>>

TakeHandlers ==
    /\ Step("handlers", "select")
    /\ timeout_sessions' = watched \ Ports
    /\ UNCHANGED <<users, watched, recv_socks>>

Select ==
    /\ Step("select", "timeouts")
    /\ recv_socks' \in SUBSET watched
    /\ watched' = {}
    /\ UNCHANGED <<users, timeout_sessions>>

SessionTimeout(k) ==
    /\ thread = "timeouts"
    /\ k \in timeout_sessions
    /\ timeout_sessions' = timeout_sessions \ {k}
    /\ UNCHANGED <<users, thread, watched, recv_socks>>

EndTimeouts ==
    /\ Step("timeouts", "receive")
    /\ timeout_sessions' = {}
    /\ UNCHANGED <<users, watched, recv_socks>>

\* Something is received, or ignored, or the socket fails.
TakeReady(k) ==
    /\ thread = "receive"
    /\ k \in recv_socks
    /\ recv_socks' = recv_socks \ {k}
    /\ UNCHANGED <<users, thread, watched, timeout_sessions>>

EndRound ==
    /\ Step("receive", "sockets")
    /\ recv_socks = {}
    /\ UNCHANGED <<users, watched, timeout_sessions, recv_socks>>

\* Sessions came or went while it took the sockets or the handlers, or left it with a
\* closed one.
Die ==
    /\ thread \in {"sockets", "handlers", "select"}
    /\ thread' = "dead"
    /\ watched' = {}
    /\ timeout_sessions' = {}
    /\ UNCHANGED <<users, recv_socks>>

Round ==
    \/ TakeSockets \/ TakeHandlers \/ Select \/ EndTimeouts \/ EndRound \/ Die
    \/ \E k \in timeout_sessions : SessionTimeout(k)
    \/ \E k \in recv_socks : TakeReady(k)

Next ==
    \/ Round
    \/ \E h \in joining : Subscribe(h)
    \/ \E h \in subscribed : Unsubscribe(h)
    \/ \E h \in Subscribers : Begin(h)

Spec == Init /\ [][Next]_vars
=============================================================================
