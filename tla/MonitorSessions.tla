---------------------------- MODULE MonitorSessions ----------------------------
(***************************************************************************)
(* MonitorSession, MonitorPort and decode_data of src/pyfgc/fgc_monitor.py *)
(* on top of MonitorLoop: what start and stop leave subscribed, and what   *)
(* the callbacks of a round are given.                                     *)
(*                                                                         *)
(* Of the loop there is what MonitorStreams says: who is subscribed to     *)
(* which stream (a session of the loop), and the thread's round.  The      *)
(* steps here are those of Loop, with what the objects and their callbacks *)
(* add.  A callback may call start and stop like any other thread, so      *)
(* these may happen between any two steps of a round.  The thread is not   *)
(* the only one that calls back: a timer whose start of a session failed   *)
(* tells the session's handlers so itself, whatever the thread does.       *)
(***************************************************************************)
EXTENDS Naturals, FiniteSets, Functions

CONSTANTS
    Gateways,
    MonitorSessions,
    MonitorPorts,
    gateways,      \* of a session: those its targets are on
    sub,           \* a session's period and token, or a port's number
    accepted,      \* of a port: senders and IDs its filters let pass
    Impatient,     \* objects made with a timeout
    MaxStarts,     \* bound: calls of start, of all objects
    Timers,        \* bound: of _try, those that tell handlers of a failed start at once
    Failing,       \* bound: gateways, or NoGateway of ports, whose starts fail like that
    NoGateway      \* None

Objects == MonitorSessions \cup MonitorPorts

ASSUME ObjectsAssumption ==
    /\ MonitorSessions \cap MonitorPorts = {}
    /\ gateways \in [MonitorSessions -> SUBSET Gateways]
    /\ accepted \in [MonitorPorts -> SUBSET Gateways]
    /\ DOMAIN sub = Objects
ASSUME NoGatewayAssumption == NoGateway \notin Gateways
ASSUME MaxStartsAssumption == MaxStarts \in Nat \ {0}

VARIABLES
    ips,              \* session -> gateways whose address was found
    starts,           \* object -> calls of start so far
    call,             \* object -> the last of its calls
    todo,             \* object -> what that call still has to go through
    subscription_handlers, \* object -> handlers; a port's sub_handler
    joining, subscribed, thread, watched, timeout_sessions, recv_socks, \* see Loop
    timeout_handlers, \* the round's
    cleaned,          \* streams that timed out in this round
    packet,           \* the one callbacks are made for
    to_call,          \* handlers they are still to be made for
    ip_to_hostname,   \* gateways whose name was found, whatever the port
    decoded_data_cache, \* gateway -> decoded data, see Decoded
    telling,          \* timer -> handlers it is still to tell that its start failed
    given,            \* history: the callback with data that the round has just made
    came,             \* history: whose packets were decoded since curr_time was read,
                      \* the packet at hand aside
    gone,             \* history: handlers unsubscribed before this round
    restarted         \* history: started in a way that stop does not undo

\* What the round leaves to the users and the timers.
userVars == <<ips, starts, call, todo, subscription_handlers, restarted, telling>>
loopVars == <<joining, subscribed, thread, watched, timeout_sessions, recv_socks>>
callVars == <<timeout_handlers, cleaned, packet, to_call>>
dataVars == <<ip_to_hostname, decoded_data_cache, given, came>>
othersVars == <<callVars, dataVars, gone>>
vars == <<userVars, loopVars, othersVars>>

\* A handler is told by its object, its gateway and the start that made it; a
\* stream is a session, of the loop, with TCP or without.
Handler == [owner : Objects, gateway : Gateways \cup {NoGateway}, nr : Nat]
Stream(h) == [gateway |-> h.gateway, sub |-> sub[h.owner]]
Streams == {[gateway |-> g, sub |-> sub[o]] : g \in Gateways, o \in MonitorSessions}
           \cup {[gateway |-> NoGateway, sub |-> sub[o]] : o \in MonitorPorts}
Loop == INSTANCE MonitorStreams WITH
    Subscribers <- Handler,
    Ports <- {k \in Streams : k.gateway = NoGateway}
HandlersOf(k) == {h \in subscribed : Stream(h) = k}
\* A packet: its sender, whether it can be decoded, and (history) whether it has been.
Packet == [from : Gateways, good : BOOLEAN, decoded : BOOLEAN]
NoPacket == [from |-> NoGateway, good |-> FALSE, decoded |-> FALSE]
\* Decoded data: who published it, and whether the time it is kept under is curr_time as
\* last read.
Decoded == [from : Gateways \cup {NoGateway}, valid : BOOLEAN]
Nothing == [from |-> NoGateway, valid |-> FALSE]
\* A callback with data: who published that, whether it is of the packet at hand, and
\* whether another of the gateway had been decoded at this time.
Given == [owner : Objects, gateway : Gateways, from : Gateways \cup {NoGateway},
          own : BOOLEAN, before : BOOLEAN]

TypeOK ==
    /\ ips \in [MonitorSessions -> SUBSET Gateways]
    /\ starts \in [Objects -> Nat]
    /\ call \in [Objects -> {"none", "start", "stop"}]
    /\ DOMAIN todo = Objects
    /\ \A o \in Objects :
         todo[o] \subseteq IF call[o] = "stop" THEN subscription_handlers[o]
                           ELSE Gateways \cup {NoGateway}
    /\ subscription_handlers \in [Objects -> SUBSET Handler]
    /\ \A o \in Objects : \A h \in subscription_handlers[o] : h.owner = o
    /\ \A p \in MonitorPorts : Cardinality(subscription_handlers[p]) <= 1
    /\ joining \subseteq Handler
    /\ subscribed \subseteq Handler
    /\ thread \in {"sockets", "handlers", "select", "timeouts", "receive", "dead"}
    /\ watched \subseteq Streams
    /\ timeout_sessions \subseteq Streams
    /\ recv_socks \subseteq Streams
    /\ timeout_handlers \subseteq Handler
    /\ cleaned \subseteq Streams
    /\ packet \in Packet \cup {NoPacket}
    /\ to_call \subseteq Handler
    /\ ip_to_hostname \subseteq Gateways
    /\ decoded_data_cache \in [Gateways -> Decoded]
    /\ telling \in [Timers -> SUBSET Handler]
    /\ given \subseteq Given
    /\ came \subseteq Gateways
    /\ gone \subseteq Handler
    /\ restarted \subseteq Objects

\* The objects are made: resolve_hostnames finds the addresses of some gateways.
Init ==
    /\ ips \in {f \in [MonitorSessions -> SUBSET Gateways] :
                    \A s \in MonitorSessions : f[s] \subseteq gateways[s]}
    /\ starts = [o \in Objects |-> 0]
    /\ call = [o \in Objects |-> "none"]
    /\ todo = [o \in Objects |-> {}]
    /\ subscription_handlers = [o \in Objects |-> {}]
    /\ Loop!Init
    /\ timeout_handlers = {}
    /\ cleaned = {}
    /\ packet = NoPacket
    /\ to_call = {}
    /\ ip_to_hostname = {}
    /\ decoded_data_cache = [g \in Gateways |-> Nothing]
    /\ telling = [t \in Timers |-> {}]
    /\ given = {}
    /\ came = {}
    /\ gone = {}
    /\ restarted = {}

---------------------------------------------------------------------------
(* Users.  The calls of one object follow each other, in any order: start  *)
(* again, stop again.                                                      *)

Free(o) == todo[o] = {}
Names(o) == IF o \in MonitorSessions THEN ips[o] ELSE {NoGateway}

\* A session keeps the handlers it has stopped; a port forgets one it has not.
Undoable(o) ==
    IF o \in MonitorSessions THEN subscription_handlers[o] \subseteq subscribed
    ELSE subscription_handlers[o] \cap subscribed = {}

Start(o) ==
    /\ Free(o)
    /\ SumFunction(starts) < MaxStarts
    /\ starts' = [starts EXCEPT ![o] = @ + 1]
    /\ call' = [call EXCEPT ![o] = "start"]
    /\ todo' = [todo EXCEPT ![o] = Names(o)]
    /\ restarted' = IF Undoable(o) THEN restarted ELSE restarted \cup {o}
    /\ UNCHANGED <<ips, subscription_handlers, telling, loopVars, othersVars>>

\* The next gateway, or the port: subscribe_session, subscribe_port, up to the handler.
Begin(o, g) ==
    /\ call[o] = "start"
    /\ g \in todo[o]
    /\ Loop!Begin([owner |-> o, gateway |-> g, nr |-> starts[o]])
    /\ UNCHANGED <<userVars, othersVars>>

\* Mutant: a port keeps its handlers like a session.
SubscribeKeeps(h) ==
    /\ Loop!Subscribe(h)
    /\ todo' = [todo EXCEPT ![h.owner] = @ \ {h.gateway}]
    /\ subscription_handlers' = [subscription_handlers EXCEPT ![h.owner] = @ \cup {h}]
    /\ UNCHANGED <<ips, starts, call, restarted, telling, othersVars>>

\* The handler is added, and returned to its object.
Subscribe(h) ==
    /\ Loop!Subscribe(h)
    /\ todo' = [todo EXCEPT ![h.owner] = @ \ {h.gateway}]
    /\ subscription_handlers' = [subscription_handlers EXCEPT
         ![h.owner] = IF h.owner \in MonitorSessions THEN @ \cup {h} ELSE {h}]
    /\ UNCHANGED <<ips, starts, call, restarted, telling, othersVars>>

\* MonitorPort.stop before any start raises an AttributeError.
Stop(o) ==
    /\ Free(o)
    /\ o \in MonitorSessions \/ subscription_handlers[o] # {}
    /\ call' = [call EXCEPT ![o] = "stop"]
    /\ todo' = [todo EXCEPT ![o] = subscription_handlers[o]]
    /\ UNCHANGED <<ips, starts, subscription_handlers, restarted, telling, loopVars,
                   othersVars>>

\* Mutant: unsubscribe takes the handlers of other objects with it.
UnsubscribeAll(o, h) ==
    /\ call[o] = "stop"
    /\ h \in todo[o] \cap subscribed
    /\ joining = {}
    /\ todo' = [todo EXCEPT ![o] = @ \ {h}]
    /\ subscribed' = subscribed \ HandlersOf(Stream(h))
    /\ UNCHANGED <<ips, starts, call, subscription_handlers, restarted, telling, joining,
                   thread, watched, timeout_sessions, recv_socks, othersVars>>

Unsubscribe(o, h) ==
    /\ call[o] = "stop"
    /\ h \in todo[o]
    /\ Loop!Unsubscribe(h)
    /\ todo' = [todo EXCEPT ![o] = @ \ {h}]
    /\ UNCHANGED <<ips, starts, call, subscription_handlers, restarted, telling, othersVars>>

\* The handler was unsubscribed before: a KeyError, and stop ends here.
StopFails(o, h) ==
    /\ call[o] = "stop"
    /\ h \in todo[o] \ subscribed
    /\ todo' = [todo EXCEPT ![o] = {}]
    /\ UNCHANGED <<ips, starts, call, subscription_handlers, restarted, telling, loopVars,
                   othersVars>>

User(o) ==
    \/ Start(o) \/ Stop(o)
    \/ \E g \in Gateways \cup {NoGateway} : Begin(o, g)
    \/ \E h \in subscription_handlers[o] : Unsubscribe(o, h) \/ StopFails(o, h)

---------------------------------------------------------------------------
(* Timers.                                                                 *)

\* A start of the session failed, not for a refused connection.  It may be the first one,
\* or one that overlaps with another: the session may be in any state.  The handlers are
\* those of this moment, as in ReceivePacket.
StartFails(t, k) ==
    /\ telling[t] = {}
    /\ k.gateway \in Failing
    /\ telling' = [telling EXCEPT ![t] = HandlersOf(k)]
    /\ UNCHANGED <<ips, starts, call, todo, subscription_handlers, restarted, loopVars,
                   othersVars>>

\* callback_err, for the next of them, who may have unsubscribed since.
CallByTimer(t, h) ==
    /\ h \in telling[t]
    /\ telling' = [telling EXCEPT ![t] = @ \ {h}]
    /\ UNCHANGED <<ips, starts, call, todo, subscription_handlers, restarted, loopVars,
                   othersVars>>

Timer(t) ==
    \/ \E k \in Streams : StartFails(t, k)
    \/ \E h \in telling[t] : CallByTimer(t, h)

---------------------------------------------------------------------------
(* The thread's round.                                                     *)

\* The sockets of the sessions that are active.
TakeSockets ==
    /\ Loop!TakeSockets
    /\ gone' = (UNION {subscription_handlers[o] : o \in Objects}) \ subscribed
    /\ UNCHANGED <<userVars, callVars, dataVars>>

\* Mutant: the handlers with a timeout are kept in one place for all sessions, from
\* which unsubscribe does not take them.
TakeHandlersEver ==
    /\ Loop!TakeHandlers
    /\ timeout_handlers' = UNION {subscription_handlers[o] : o \in Impatient}
    /\ UNCHANGED <<userVars, cleaned, packet, to_call, dataVars, gone>>

\* The handlers with a timeout.
TakeHandlers ==
    /\ Loop!TakeHandlers
    /\ timeout_handlers' = {h \in subscribed : h.owner \in Impatient}
    /\ UNCHANGED <<userVars, cleaned, packet, to_call, dataVars, gone>>

\* The clock has moved on since curr_time was last read, or it has not.
Tick ==
    /\ decoded_data_cache' =
         [g \in Gateways |-> [decoded_data_cache[g] EXCEPT !.valid = FALSE]]
    /\ given' = {}
    /\ came' = {}
    /\ UNCHANGED ip_to_hostname

\* select returns, with packets, for a timeout or for a byte sent by a user, and
\* curr_time is read.
Select(timedout) ==
    /\ Loop!Select
    /\ timedout \subseteq timeout_handlers
    /\ to_call' = timedout
    /\ timeout_handlers' = {}
    /\ Tick \/ UNCHANGED dataVars
    /\ UNCHANGED <<userVars, cleaned, packet, gone>>

\* callback(None, None, ...), or callback_err.
CallWithoutData(h) ==
    /\ packet = NoPacket
    /\ h \in to_call
    /\ to_call' = to_call \ {h}
    /\ UNCHANGED <<userVars, loopVars, timeout_handlers, cleaned, packet, dataVars, gone>>

\* A session of the loop that was silent is cleaned, and its handlers are told.
SessionTimeout(k) ==
    /\ to_call = {}
    /\ Loop!SessionTimeout(k)
    /\ cleaned' = cleaned \cup {k}
    /\ to_call' = HandlersOf(k)
    /\ UNCHANGED <<userVars, timeout_handlers, packet, dataVars, gone>>

EndTimeouts ==
    /\ to_call = {}
    /\ Loop!EndTimeouts
    /\ UNCHANGED <<userVars, callVars, dataVars, gone>>

\* The session was cleaned in this round, and no timer has started it since: its data
\* is ignored.
IgnoreInactive(k) ==
    /\ to_call = {}
    /\ k \in cleaned
    /\ Loop!TakeReady(k)
    /\ given' = {}
    /\ UNCHANGED <<userVars, callVars, ip_to_hostname, decoded_data_cache, came, gone>>

\* A packet of the session's gateway, or any packet at a port.  (An empty one would be
\* reported like silence.)  The handlers are those of this moment, and there may be none
\* yet: session.handlers is replaced, never changed.
ReceivePacket(k, g, good) ==
    /\ to_call = {}
    /\ Loop!TakeReady(k)
    /\ k.gateway \in {g, NoGateway}
    /\ packet' = IF HandlersOf(k) = {} THEN NoPacket
                 ELSE [from |-> g, good |-> good, decoded |-> FALSE]
    /\ to_call' = HandlersOf(k)
    /\ given' = {}
    /\ UNCHANGED <<userVars, timeout_handlers, cleaned, ip_to_hostname, decoded_data_cache,
                   came, gone>>

\* recvfrom raises an OSError.
ReceiveFails(k) ==
    /\ to_call = {}
    /\ Loop!TakeReady(k)
    /\ to_call' = HandlersOf(k)
    /\ given' = {}
    /\ UNCHANGED <<userVars, timeout_handlers, cleaned, packet, ip_to_hostname,
                   decoded_data_cache, came, gone>>

---------------------------------------------------------------------------
(* Callbacks made for a packet.                                            *)

\* Mutant: data decoded before is good at any time.
CachedForEver(g) == decoded_data_cache[g] # Nothing

Cached(g) == decoded_data_cache[g].valid

Decodes(g) == ~Cached(g) /\ packet.good

\* decode_data, and the user's callback with what it returns: the cached data of this
\* time; or the packet's, which is cached; or callback_err, for an exception of decode.
CallWith(h, g) ==
    LET give(from, own) ==
            given' = {[owner |-> h.owner, gateway |-> g, from |-> from, own |-> own,
                       before |-> g \in came]}
    IN  \/ /\ Cached(g)
           /\ give(decoded_data_cache[g].from, packet.decoded)
           /\ UNCHANGED decoded_data_cache
        \/ /\ Decodes(g)
           /\ give(packet.from, TRUE)
           /\ decoded_data_cache' =
                [decoded_data_cache EXCEPT ![g] = [from |-> packet.from, valid |-> TRUE]]
        \/ /\ ~Cached(g)
           /\ ~packet.good
           /\ given' = {}
           /\ UNCHANGED decoded_data_cache

\* One handler of the iteration, for whom the packet is decoded or not.
Called(h, decodes) ==
    LET decoded == packet.decoded \/ decodes
    IN  /\ packet # NoPacket
        /\ h \in to_call
        /\ to_call' = to_call \ {h}
        /\ packet' = IF to_call = {h} THEN NoPacket ELSE [packet EXCEPT !.decoded = decoded]
        /\ came' = IF to_call = {h} /\ decoded THEN came \cup {packet.from} ELSE came
        /\ UNCHANGED <<userVars, loopVars, timeout_handlers, cleaned, gone>>

\* A MonitorSession's callback: the gateway it subscribed to.
CallSession(h) ==
    /\ h.owner \in MonitorSessions
    /\ Called(h, Decodes(h.gateway))
    /\ CallWith(h, h.gateway)
    /\ UNCHANGED ip_to_hostname

\* A MonitorPort's callback: the filters ...
PortFilters(h) ==
    /\ h.owner \in MonitorPorts
    /\ Called(h, FALSE)
    /\ packet.from \notin accepted[h.owner]
    /\ given' = {}
    /\ UNCHANGED <<ip_to_hostname, decoded_data_cache>>

\* ... the name of the sender, looked up once ...
CallPort(h) ==
    /\ h.owner \in MonitorPorts
    /\ Called(h, Decodes(packet.from))
    /\ packet.from \in accepted[h.owner]
    /\ ip_to_hostname' = ip_to_hostname \cup {packet.from}
    /\ CallWith(h, packet.from)

\* ... which may not be found: decode_data does not know the IP address that stands
\* in for it, and callback_err gets its KeyError.
PortUnresolved(h) ==
    /\ h.owner \in MonitorPorts
    /\ Called(h, FALSE)
    /\ packet.from \in accepted[h.owner] \ ip_to_hostname
    /\ given' = {}
    /\ UNCHANGED <<ip_to_hostname, decoded_data_cache>>

EndRound ==
    /\ to_call = {}
    /\ Loop!EndRound
    /\ cleaned' = {}
    /\ given' = {}
    /\ UNCHANGED <<userVars, timeout_handlers, packet, to_call, ip_to_hostname,
                   decoded_data_cache, came, gone>>

\* The thread dies: it calls nobody any more.
ThreadDies ==
    /\ Loop!Die
    /\ timeout_handlers' = {}
    /\ UNCHANGED <<userVars, cleaned, packet, to_call, dataVars, gone>>

Callback(h) ==
    CallWithoutData(h) \/ CallSession(h) \/ PortFilters(h) \/ CallPort(h) \/ PortUnresolved(h)

Receiving(k) ==
    \/ SessionTimeout(k) \/ IgnoreInactive(k) \/ ReceiveFails(k)
    \/ \E g \in Gateways, good \in BOOLEAN : ReceivePacket(k, g, good)

Round ==
    \/ TakeSockets \/ TakeHandlers \/ EndTimeouts \/ EndRound \/ ThreadDies
    \/ \E timedout \in SUBSET timeout_handlers : Select(timedout)
    \/ \E k \in Streams : Receiving(k)
    \/ \E h \in to_call : Callback(h)

Next ==
    \/ Round
    \/ \E o \in Objects : User(o)
    \/ \E h \in joining : Subscribe(h)
    \/ \E t \in Timers : Timer(t)

Spec == Init /\ [][Next]_vars

---------------------------------------------------------------------------
\* What a callback is given was published by the gateway it is given for and was asked
\* for by the callback's object; and callbacks of one gateway that name one time are given
\* one data: that of the packet at hand, or, if another was decoded since the time was
\* last read, that one's.  decode_data hands out decoded data by name and time, to
\* callbacks of several sessions and ports, and rounds may read the same time (lines 362,
\* 591-612, 699-701, 790-810).
DataIsOfThisTime ==
    \A c \in given :
        /\ c.from = c.gateway
        /\ c.own <=> ~c.before
        /\ c.gateway \in IF c.owner \in MonitorSessions THEN gateways[c.owner]
                          ELSE accepted[c.owner]

\* api.py (345, 417) calls the timestamp of a callback that of its data, "as reported by
\* the gateway".  Were it so, another packet would have another timestamp, and what
\* decode_data keeps would not pass for its data: each callback would get the data of the
\* packet it is made for.
DataIsOfItsPacket == \A c \in given : c.own

\* Whom the thread is about to call is subscribed, or was when this round began: once stop
\* has returned, the thread's callbacks end with the round (lines 328-334, 374-385,
\* 432-438).  Not so a timer's: it goes through the handlers it found when its start
\* failed, and may tell one that has unsubscribed rounds ago (lines 266-268).
CallsEndWithTheRound == (to_call \cup timeout_handlers) \cap gone = {}

\* An object that has started is subscribed to all that it found addresses for,
\* whatever other objects of the same streams do; one that has stopped has nothing
\* left, unless it was restarted in a way stop does not undo: a session after a stop,
\* a port before one (lines 724-744, 833-843).
SubscribedFromStartToStop ==
    \A o \in Objects :
        LET mine == {h \in subscribed : h.owner = o}
        IN  /\ Free(o) /\ call[o] = "start" =>
                 {h.gateway : h \in mine \cap subscription_handlers[o]} = Names(o)
            /\ Free(o) /\ call[o] = "stop" /\ mine # {} => o \in restarted
=============================================================================
