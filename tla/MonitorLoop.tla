----------------------------- MODULE MonitorLoop -----------------------------
(***************************************************************************)
(* MonitorLoop of src/pyfgc/fgc_monitor.py: user threads that subscribe    *)
(* and unsubscribe handlers, timers that start the sessions these share,   *)
(* and the one thread that watches the sessions' UDP sockets.              *)
(*                                                                         *)
(* Users exclude each other by rlock.  The monitor thread and the timers   *)
(* do not take it, so their steps are as small as their reads and writes   *)
(* of session_data, sessions_on_try, active and the sockets.  Time is not  *)
(* modelled: a timer may fire, and what has a timeout may time out, at any *)
(* moment.  Callbacks, the thread's and the timers', are left out: they    *)
(* change nothing here.                                                    *)
(***************************************************************************)
EXTENDS Naturals, FiniteSets, Functions

CONSTANTS
    Handlers,    \* subscriptions; a user subscribes one once
    Keys,        \* (address, period, token), or a port number
    Ports,       \* the keys of sessions without TCP: SessionlessData
    Impatient,   \* handlers with a timeout
    MaxKicks,    \* bound: bytes in the socket pair that are told apart
    MaxTimers,   \* bound: timers that exist at once
    NoSession    \* no entry; as rlock's owner, nobody

ASSUME KeysAssumption == Ports \subseteq Keys
ASSUME HandlersAssumption == IsFiniteSet(Handlers) /\ NoSession \notin Handlers
ASSUME BoundsAssumption == MaxKicks \in Nat \ {0} /\ MaxTimers \in Nat \ {0}

\* A session object is named by the handler whose subscription made it.
Sessions == Handlers

VARIABLES
    session_data,     \* key -> session
    clients,          \* session -> count
    handlers,         \* session -> set of handlers
    key,              \* handler -> the key it subscribes to; its session's too
    session,          \* handler -> session
    active, udp_socket, \* of each session
    has_tcp,          \* whether its tcp_socket is not None
    sessions_on_try,  \* sessions with an entry; the timer in it is not used
    timers,           \* session -> step -> how many of its timers are there
    rlock,            \* its owner between two steps
    user,             \* where the user of each handler is
    thread,           \* where the monitor thread is in its round
    at,               \* s, the session the thread looks at
    visited, size,    \* of the thread's iteration over session_data
    watched,          \* the round's socket of each session, see below
    timeout,          \* whether the round's select has a timeout
    ready,            \* recv_socks, but ksock_r
    kicks,            \* bytes in the socket pair
    late              \* sessions removed while about to be started or half open

userVars == <<session_data, clients, handlers, key, session, rlock, user>>
socketVars == <<active, udp_socket, has_tcp, watched>>
threadVars == <<thread, at, visited, size, timeout, ready>>
timerVars == <<sessions_on_try, timers>>
\* What the actions of users, and of the thread, leave alone.
othersVars == <<key, socketVars, threadVars, late>>
restVars == <<userVars, timerVars, kicks, late>>
vars == <<userVars, socketVars, threadVars, timerVars, kicks, late>>

TimerSteps == {"pending",  \* to fire
               "opened",   \* in start, the UDP socket is open
               "del",      \* at "del self.sessions_on_try[s]"
               "kick"}     \* at ksock_s.send
UserSteps == {"new",
              "try",          \* in _try_session_delay, at its test
              "order",        \* past the test
              "add",          \* at _add_new_handler
              "subscribing",  \* lock released, at ksock_s.send
              "subscribed",
              "unsubscribing",
              "done"}
ThreadSteps == {"orders",   \* iterates: which sessions are not active
                "test",     \* in _try_session_delay, at its test
                "order",    \* past the test
                "sockets",  \* iterates: sockets of active sessions
                "handlers", \* iterates: handlers
                "call",     \* at select
                "select",   \* in select
                "timeouts", \* handles timeouts of sessions
                "receive",  \* goes through recv_socks
                "recvfrom", \* at recvfrom
                "blocked",  \* in recvfrom, nothing to receive
                "dead"}     \* an exception ended it
\* What became of the socket the thread took of a session for this round: it is
\* still the session's, it was closed, or a start put another in its place.
Watched == {"none", "current", "closed", "replaced"}
Socket == {"none", "open", "closed"}

TypeOK ==
    /\ session_data \in [Keys -> Sessions \cup {NoSession}]
    /\ clients \in [Sessions -> Nat]
    /\ handlers \in [Sessions -> SUBSET Handlers]
    /\ key \in [Handlers -> Keys]
    /\ session \in [Handlers -> Sessions \cup {NoSession}]
    /\ active \in [Sessions -> BOOLEAN]
    /\ udp_socket \in [Sessions -> Socket]
    /\ has_tcp \in [Sessions -> BOOLEAN]
    /\ sessions_on_try \in SUBSET Sessions
    /\ timers \in [Sessions -> [TimerSteps -> Nat]]
    /\ rlock \in Handlers \cup {NoSession}
    /\ user \in [Handlers -> UserSteps]
    /\ thread \in ThreadSteps
    /\ at \in Sessions \cup {NoSession}
    /\ visited \in SUBSET Sessions
    /\ size \in Nat
    /\ watched \in [Sessions -> Watched]
    /\ timeout \in BOOLEAN
    /\ ready \in SUBSET Sessions
    /\ kicks \in 0..MaxKicks
    /\ late \in SUBSET Sessions

Init ==
    /\ session_data = [k \in Keys |-> NoSession]
    /\ clients = [s \in Sessions |-> 0]
    /\ handlers = [s \in Sessions |-> {}]
    /\ key \in [Handlers -> Keys]
    /\ session = [h \in Handlers |-> NoSession]
    /\ active = [s \in Sessions |-> FALSE]
    /\ udp_socket = [s \in Sessions |-> "none"]
    /\ has_tcp = [s \in Sessions |-> FALSE]
    /\ sessions_on_try = {}
    /\ timers = [s \in Sessions |-> [i \in TimerSteps |-> 0]]
    /\ rlock = NoSession
    /\ user = [h \in Handlers |-> "new"]
    /\ thread = "orders"
    /\ at = NoSession
    /\ visited = {}
    /\ size = 0
    /\ watched = [s \in Sessions |-> "none"]
    /\ timeout = FALSE
    /\ ready = {}
    /\ kicks = 0
    /\ late = {}

Registered(s) == session_data[key[s]] = s
Values == {session_data[k] : k \in Keys} \ {NoSession}

\* SessionData.clean and SessionlessData.clean.  close of a socket that is None
\* raises an AttributeError, and with it the second close is skipped.
Clean(s) ==
    LET closes == key[s] \in Ports \/ has_tcp[s]
    IN  /\ active' = [active EXCEPT ![s] = FALSE]
        /\ UNCHANGED has_tcp
        /\ udp_socket' =
             [udp_socket EXCEPT ![s] = IF closes /\ @ = "open" THEN "closed" ELSE @]
        /\ watched' =
             [watched EXCEPT ![s] = IF closes /\ @ = "current" THEN "closed" ELSE @]

\* Where timers of s are, those that are past their delay, and how many timers
\* there are in all.
TimersOf(s) == {i \in TimerSteps : timers[s][i] > 0}
Running(s) == TimersOf(s) \ {"pending"}
CountTimers == SumFunction([s \in Sessions |-> SumFunction(timers[s])])

\* ksock_s.send.  The thread reads one byte in a round; how many there are beyond
\* the bound is forgotten, which only takes wake-ups away.
SendKick == kicks' = IF kicks < MaxKicks THEN kicks + 1 ELSE kicks

\* The part of _try_session_delay after its test: a Timer is made, entered and
\* started.
OrderStart(s) ==
    /\ CountTimers < MaxTimers
    /\ timers' = [timers EXCEPT ![s]["pending"] = @ + 1]
    /\ sessions_on_try' = sessions_on_try \cup {s}

---------------------------------------------------------------------------
(* Users: subscribe_session, subscribe_port.                               *)

UserGo(h, from, to) == user[h] = from /\ user' = [user EXCEPT ![h] = to]

\* Mutant: the session is looked up without the lock.
FindSessionUnlocked(h) ==
    /\ UserGo(h, "new", "add")
    /\ session_data[key[h]] # NoSession
    /\ session' = [session EXCEPT ![h] = session_data[key[h]]]
    /\ UNCHANGED <<session_data, clients, handlers, rlock, timerVars, kicks, othersVars>>

\* There is a session with this key.
FindSession(h) ==
    /\ UserGo(h, "new", "add")
    /\ rlock = NoSession
    /\ rlock' = h
    /\ session_data[key[h]] # NoSession
    /\ session' = [session EXCEPT ![h] = session_data[key[h]]]
    /\ UNCHANGED <<session_data, clients, handlers, timerVars, kicks, othersVars>>

\* There is none, one is made.
NewSession(h) ==
    /\ UserGo(h, "new", "try")
    /\ rlock = NoSession
    /\ rlock' = h
    /\ session_data[key[h]] = NoSession
    /\ session' = [session EXCEPT ![h] = h]
    /\ session_data' = [session_data EXCEPT ![key[h]] = h]
    /\ UNCHANGED <<clients, handlers, timerVars, kicks, othersVars>>

\* The user's call of _try_session_delay; the thread may have been faster.
TestTry(h) ==
    /\ UserGo(h, "try", IF h \in sessions_on_try THEN "add" ELSE "order")
    /\ UNCHANGED <<session_data, clients, handlers, session, rlock, timerVars, kicks,
                   othersVars>>

OrderTry(h) ==
    /\ UserGo(h, "order", "add")
    /\ OrderStart(h)
    /\ UNCHANGED <<session_data, clients, handlers, session, rlock, kicks, othersVars>>

\* Mutant: the client is not counted.
AddHandlerUncounted(h) ==
    /\ UserGo(h, "add", "subscribing")
    /\ handlers' = [handlers EXCEPT ![session[h]] = @ \cup {h}]
    /\ rlock' = NoSession
    /\ UNCHANGED <<session_data, clients, session, timerVars, kicks, othersVars>>

\* _add_new_handler, and the lock is released.
AddHandler(h) ==
    /\ UserGo(h, "add", "subscribing")
    /\ handlers' = [handlers EXCEPT ![session[h]] = @ \cup {h}]
    /\ clients' = [clients EXCEPT ![session[h]] = @ + 1]
    /\ rlock' = NoSession
    /\ UNCHANGED <<session_data, session, timerVars, kicks, othersVars>>

\* The thread is woken.
Kick(h) ==
    /\ \/ UserGo(h, "subscribing", "subscribed")
       \/ UserGo(h, "unsubscribing", "done")
    /\ SendKick
    /\ UNCHANGED <<session_data, clients, handlers, session, rlock, timerVars, othersVars>>

(* unsubscribe_session, unsubscribe_port: all under the lock.              *)

\* The thread is about to order a start of s.
ThreadOrders(s) == thread \in {"test", "order"} /\ at = s

\* Mutant: the sockets of the session are not closed.
RemoveSessionOpen(s) ==
    /\ session_data' = [session_data EXCEPT ![key[s]] = NoSession]
    /\ late' = IF TimersOf(s) # {} \/ ThreadOrders(s) THEN late \cup {s} ELSE late
    /\ UNCHANGED socketVars

\* The last client is gone: the session is removed and cleaned.
RemoveSession(s) ==
    /\ session_data' = [session_data EXCEPT ![key[s]] = NoSession]
    /\ Clean(s)
    /\ late' = IF \/ TimersOf(s) # {} \/ ThreadOrders(s)
                  \/ key[s] \notin Ports /\ udp_socket[s] = "open" /\ ~has_tcp[s]
               THEN late \cup {s} ELSE late

Unsubscribe(h) ==
    LET s == session[h]
    IN  /\ UserGo(h, "subscribed", "unsubscribing")
        /\ rlock = NoSession
        /\ handlers' = [handlers EXCEPT ![s] = @ \ {h}]
        /\ clients' = [clients EXCEPT ![s] = @ - 1]
        /\ IF clients[s] <= 1
           THEN RemoveSession(s)
           ELSE UNCHANGED <<session_data, socketVars, late>>
        /\ UNCHANGED <<key, session, rlock, threadVars, timerVars, kicks>>

---------------------------------------------------------------------------
(* Timers: _try, with start inlined.                                       *)

TimerGo(s, from, to) ==
    /\ timers[s][from] > 0
    /\ timers' = [timers EXCEPT ![s][from] = @ - 1, ![s][to] = @ + 1]

\* The finally clause: its test, taken together with the end of start.
Finally(s) == IF s \in sessions_on_try THEN "del" ELSE "kick"

\* The timer fires and start binds the UDP socket.  One that was open is dropped;
\* it stays open in the monitor thread's hands until its round is over.
OpenUDP(s) ==
    /\ TimerGo(s, "pending", "opened")
    /\ udp_socket' = [udp_socket EXCEPT ![s] = "open"]
    /\ watched' = [watched EXCEPT ![s] = IF @ = "current" THEN "replaced" ELSE @]
    /\ UNCHANGED <<userVars, active, has_tcp, threadVars, sessions_on_try, kicks, late>>

\* start goes on: the TCP session to the gateway is set up, if there is one.
Activate(s) ==
    /\ TimerGo(s, "opened", Finally(s))
    /\ has_tcp' = [has_tcp EXCEPT ![s] = key[s] \notin Ports]
    /\ active' = [active EXCEPT ![s] = TRUE]
    /\ UNCHANGED <<userVars, udp_socket, watched, threadVars, sessions_on_try, kicks, late>>

\* Mutant: only a start that succeeded takes the entry away.
StartFailsOnTry(s) ==
    /\ \/ TimerGo(s, "pending", "kick")
       \/ key[s] \notin Ports /\ TimerGo(s, "opened", "kick")
    /\ UNCHANGED <<userVars, socketVars, threadVars, sessions_on_try, kicks, late>>

\* bind, connect, handshake or subscription raise: what start did so far stays.
StartFails(s) ==
    /\ \/ TimerGo(s, "pending", Finally(s))
       \/ key[s] \notin Ports /\ TimerGo(s, "opened", Finally(s))
    /\ UNCHANGED <<userVars, socketVars, threadVars, sessions_on_try, kicks, late>>

\* "del self.sessions_on_try[s]" ...
ForgetTry(s) ==
    /\ TimerGo(s, "del", "kick")
    /\ s \in sessions_on_try
    /\ sessions_on_try' = sessions_on_try \ {s}
    /\ UNCHANGED <<userVars, socketVars, threadVars, kicks, late>>

TimerEnds(s, step) ==
    /\ timers[s][step] > 0
    /\ timers' = [timers EXCEPT ![s][step] = @ - 1]

\* ... raises a KeyError if another timer of the session was faster: this
\* one ends without a kick ...
ForgetTwice(s) ==
    /\ TimerEnds(s, "del")
    /\ s \notin sessions_on_try
    /\ UNCHANGED <<userVars, socketVars, threadVars, sessions_on_try, kicks, late>>

\* Mutant: the thread is not woken.
TimerKickless(s) ==
    /\ TimerEnds(s, "kick")
    /\ UNCHANGED <<userVars, socketVars, threadVars, sessions_on_try, kicks, late>>

\* ... and then wakes the thread.
TimerKick(s) ==
    /\ TimerEnds(s, "kick")
    /\ SendKick
    /\ UNCHANGED <<userVars, socketVars, threadVars, sessions_on_try, late>>

Starting(s) ==
    \/ OpenUDP(s) \/ Activate(s) \/ StartFails(s)
    \/ ForgetTry(s) \/ ForgetTwice(s) \/ TimerKick(s)

---------------------------------------------------------------------------
(* The monitor thread: _listening_thread_func.                             *)

\* The next value of an iteration over session_data.values() ...
Fetch(s) ==
    /\ s \in Values \ visited
    /\ size = Cardinality(Values)
    /\ visited' = visited \cup {s}
    /\ UNCHANGED size

\* ... its end, the next loop starting ...
Exhausted(from, to) ==
    /\ thread = from /\ thread' = to
    /\ Values \subseteq visited
    /\ size = Cardinality(Values)
    /\ size' = Cardinality(Values)
    /\ visited' = {}

ThreadDies ==
    /\ thread' = "dead"
    /\ visited' = {}
    /\ size' = 0
    /\ timeout' = FALSE
    /\ watched' = [s \in Sessions |-> "none"]

\* ... and "RuntimeError: dictionary changed size during iteration".
SizeChanged ==
    /\ thread \in {"orders", "sockets", "handlers"}
    /\ size # Cardinality(Values)
    /\ ThreadDies
    /\ UNCHANGED <<active, udp_socket, has_tcp, at, ready, restVars>>

\* A session that is not active is to be started once more.
LookForOrder(s) ==
    /\ thread = "orders"
    /\ Fetch(s)
    /\ IF active[s] THEN UNCHANGED <<thread, at>> ELSE thread' = "test" /\ at' = s
    /\ UNCHANGED <<socketVars, timeout, ready, restVars>>

\* The thread's call of _try_session_delay.
ThreadTestTry ==
    /\ thread = "test"
    /\ IF at \in sessions_on_try
       THEN thread' = "orders" /\ at' = NoSession
       ELSE thread' = "order" /\ UNCHANGED at
    /\ UNCHANGED <<socketVars, visited, size, timeout, ready, restVars>>

ThreadOrderTry ==
    /\ thread = "order"
    /\ thread' = "orders"
    /\ OrderStart(at)
    /\ at' = NoSession
    /\ UNCHANGED <<userVars, socketVars, visited, size, timeout, ready, kicks, late>>

EndOrders ==
    /\ Exhausted("orders", "sockets")
    /\ UNCHANGED <<socketVars, at, timeout, ready, restVars>>

\* udp_sock_sessions.
TakeSocket(s) ==
    /\ thread = "sockets"
    /\ Fetch(s)
    /\ watched' = [watched EXCEPT ![s] =
         CASE ~active[s] -> "none"
           [] active[s] /\ udp_socket[s] = "open" -> "current"
           [] OTHER -> "closed"]
    /\ UNCHANGED <<active, udp_socket, has_tcp, thread, at, timeout, ready, restVars>>

EndSockets ==
    /\ Exhausted("sockets", "handlers")
    /\ UNCHANGED <<socketVars, at, timeout, ready, restVars>>

\* Sessions that a start is due for if they stay silent: reconnect_time.
CanTimeOut == {s \in Sessions : watched[s] # "none" /\ key[s] \notin Ports}

\* Handlers and their timeouts: the third iteration, in one step.
TakeHandlers ==
    /\ thread = "handlers"
    /\ size = Cardinality(Values)
    /\ thread' = "call"
    /\ timeout' = \/ CanTimeOut # {}
                  \/ \E s \in Values : handlers[s] \cap Impatient # {}
    /\ size' = 0
    /\ UNCHANGED <<socketVars, at, visited, ready, restVars>>

\* select raises a ValueError for a socket that is closed.
CallSelect ==
    /\ thread = "call"
    /\ IF \E s \in Sessions : watched[s] = "closed"
       THEN ThreadDies
       ELSE thread' = "select" /\ UNCHANGED <<visited, size, timeout, watched>>
    /\ UNCHANGED <<active, udp_socket, has_tcp, at, ready, restVars>>

\* select returns: packets, a byte from the socket pair, which is read further
\* on, or a timeout.  visited is now the set of sessions whose timeouts were
\* handled.
Wake(received) ==
    /\ thread = "select"
    /\ received \subseteq {s \in Sessions : watched[s] # "none"}
    /\ received # {} \/ kicks > 0 \/ timeout
    /\ thread' = "timeouts"
    /\ ready' = received
    /\ kicks' = IF kicks > 0 THEN kicks - 1 ELSE 0
    /\ visited' = {}
    /\ timeout' = FALSE
    /\ UNCHANGED <<userVars, socketVars, timerVars, at, size, late>>

\* A session timed out since the round's reading of reconnect_time.
SessionTimeout(s) ==
    /\ thread = "timeouts"
    /\ s \in CanTimeOut \ visited
    /\ visited' = visited \cup {s}
    /\ Clean(s)
    /\ UNCHANGED <<thread, at, size, timeout, ready, restVars>>

EndTimeouts ==
    /\ thread = "timeouts"
    /\ thread' = "receive"
    /\ visited' = {}
    /\ UNCHANGED <<socketVars, at, size, timeout, ready, restVars>>

\* A socket of recv_socks: is its session still active?
LookAtSocket(s) ==
    /\ thread = "receive"
    /\ s \in ready
    /\ ready' = ready \ {s}
    /\ IF active[s]
       THEN thread' = "recvfrom" /\ at' = s /\ UNCHANGED socketVars
       ELSE Clean(s) /\ UNCHANGED <<thread, at>>
    /\ UNCHANGED <<visited, size, timeout, restVars>>

\* recvfrom, on the session's socket, which need not be the one that was ready:
\* a packet; nothing, and the call waits; or an OSError, the socket is closed.
Receive ==
    /\ thread = "recvfrom"
    /\ \/ /\ udp_socket[at] = "open"
          /\ thread' = "receive"
          /\ UNCHANGED socketVars
       \/ /\ udp_socket[at] = "open"
          /\ watched[at] # "current"
          /\ thread' = "blocked"
          /\ UNCHANGED socketVars
       \/ /\ udp_socket[at] # "open"
          /\ thread' = "receive"
          /\ Clean(at)
    /\ at' = IF thread' = "blocked" THEN at ELSE NoSession
    /\ UNCHANGED <<visited, size, timeout, ready, restVars>>

\* A packet arrives on the socket.
Unblock ==
    /\ thread = "blocked"
    /\ udp_socket[at] = "open"
    /\ thread' = "receive"
    /\ at' = NoSession
    /\ UNCHANGED <<socketVars, visited, size, timeout, ready, restVars>>

\* The round is over, the next one starts.
EndReceive ==
    /\ thread = "receive"
    /\ ready = {}
    /\ thread' = "orders"
    /\ visited' = {}
    /\ size' = Cardinality(Values)
    /\ watched' = [s \in Sessions |-> "none"]
    /\ UNCHANGED <<active, udp_socket, has_tcp, at, timeout, ready, restVars>>

Round ==
    \/ SizeChanged \/ ThreadTestTry \/ ThreadOrderTry
    \/ EndOrders \/ EndSockets \/ TakeHandlers \/ CallSelect
    \/ EndTimeouts \/ Receive \/ EndReceive
    \/ \E s \in Sessions : \/ LookForOrder(s) \/ TakeSocket(s) \/ LookAtSocket(s)

Subscribing(h) ==
    FindSession(h) \/ NewSession(h) \/ TestTry(h) \/ OrderTry(h) \/ AddHandler(h)

Next ==
    \/ \E h \in Handlers : Subscribing(h) \/ Kick(h) \/ Unsubscribe(h)
    \/ \E s \in Sessions : Starting(s) \/ SessionTimeout(s)
    \/ \E received \in SUBSET Sessions : Wake(received)
    \/ Round \/ Unblock

Spec == Init /\ [][Next]_vars

---------------------------------------------------------------------------
\* Whoever is subscribed is in the session that session_data has for the key:
\* no subscription ends up in a session that another's unsubscribe removed, and
\* none is removed with subscribers (lines 183-188, 204-212, 235-239).
SubscribedIsRegistered ==
    \A s \in Sessions : handlers[s] # {} =>
        Registered(s) /\ clients[s] = Cardinality(handlers[s])

\* A session with an entry in sessions_on_try has a timer that will still take
\* it away: with an entry that stays behind it would never be tried again
\* (lines 273-281), whatever timers of the user and of the thread overlap.
OnTryHasTimer ==
    \A s \in sessions_on_try : TimersOf(s) \ {"kick"} # {}

\* Nothing is left for the thread to do when it sleeps and nobody is on the way
\* to wake it: it watches the socket of each active session, and the others are
\* waiting for their timers (lines 214, 275, 309-318, 361).
Waker(s) ==
    \/ kicks > 0
    \/ \E h \in Handlers : user[h] \notin {"new", "subscribed", "done"}
    \/ Running(s) # {}
SleepsInPeace ==
    \A s \in Sessions : thread = "select" /\ Registered(s) /\ ~Waker(s) =>
        IF active[s] THEN watched[s] = "current" ELSE s \in sessions_on_try

\* Who is left with open sockets after the last unsubscribe was being started,
\* or about to be, or half open at that moment; all others stay closed.
ClosedUnlessLate ==
    \A s \in Sessions : udp_socket[s] = "open" =>
        Registered(s) \/ s \in late

\* "If thread fails, something is really wrong" (comment at line 294): the legal
\* calls of its users do not end it.
ThreadSurvives == thread # "dead"
---------------------------------------------------------------------------
(* The streams the loop implements.                                        *)

Adding == {"try", "order", "add"}
Subscribers == [handler : Handlers, stream : Keys]
Named(H) == {[handler |-> h, stream |-> key[h]] : h \in H}
StreamOf(subscriber) == subscriber.stream
\* The keys these sessions have in session_data: a session that was removed is no stream.
KeysOf(S) == {k \in Keys : session_data[k] \in S}

Joining == Named({h \in Handlers : user[h] \in Adding})
Subscribed == Named(UNION {handlers[s] : s \in Values})
Phase == [orders |-> "sockets", test |-> "sockets", order |-> "sockets", sockets |-> "sockets",
          handlers |-> "handlers", call |-> "select", select |-> "select",
          timeouts |-> "timeouts", receive |-> "receive", recvfrom |-> "receive",
          blocked |-> "receive", dead |-> "dead"]
Watching ==
    IF thread \in {"handlers", "call", "select"}
    THEN KeysOf({s \in Sessions : watched[s] # "none"}) ELSE {}
TimingOut ==
    IF thread \in {"call", "select"} THEN KeysOf(CanTimeOut)
    ELSE IF thread = "timeouts" THEN KeysOf(CanTimeOut \ visited) ELSE {}
ToReceive ==
    KeysOf(IF thread \in {"recvfrom", "blocked"} THEN ready \cup {at} ELSE ready)

Streams == INSTANCE MonitorStreams WITH
    Stream <- StreamOf, joining <- Joining, subscribed <- Subscribed,
    thread <- Phase[thread], watched <- Watching, timeout_sessions <- TimingOut,
    recv_socks <- ToReceive

\* The loop implements the streams: who has the lock joins or leaves alone, and the
\* thread, without it, goes round with streams that somebody is subscribed to or about
\* to be; what is left of a session that was removed is in nobody's way (lines 171-240,
\* 303-439).
ImplementsStreams == Streams!Spec
=============================================================================
