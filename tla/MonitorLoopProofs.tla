------------------------- MODULE MonitorLoopProofs -------------------------
(***************************************************************************)
(* Proofs about MonitorLoop, for any number of handlers, keys and ports,   *)
(* and any bounds.                                                         *)
(*                                                                         *)
(* What rlock protects is one invariant, Subscriptions: it does not depend *)
(* on the monitor thread and the timers, which leave its variables alone.  *)
(* What sessions_on_try is good for is another, OnTryHasTimer, of all      *)
(* three kinds of threads.  Watchful is about the rounds of the thread,    *)
(* LeftClosed about sessions that were removed.  The last section shows    *)
(* that the loop implements MonitorStreams.                                *)
(***************************************************************************)
EXTENDS MonitorLoop, FiniteSetTheorems, TLAPS

Joined == {"subscribing", "subscribed"}

\* Between the test of session_data and _add_new_handler a user has the lock.
LockIsAdder == \A h \in Handlers : user[h] \in Adding => rlock = h

\* The session a user has found or made is still the one of its key.
SessionIsKept ==
    \A h \in Handlers : user[h] \in Adding \cup Joined =>
        /\ session[h] \in Sessions
        /\ session_data[key[h]] = session[h]

\* Entries of session_data are sessions with their key.
KeysMatch ==
    \A k \in Keys : session_data[k] # NoSession => key[session_data[k]] = k

HandlersAreJoined ==
    \A s \in Sessions, h \in Handlers :
        h \in handlers[s] <=> session[h] = s /\ user[h] \in Joined

ClientsAreHandlers ==
    \A s \in Sessions : clients[s] = Cardinality(handlers[s])

Subscriptions ==
    /\ LockIsAdder
    /\ SessionIsKept
    /\ KeysMatch
    /\ HandlersAreJoined
    /\ ClientsAreHandlers

\* The thread has a session at hand wherever it uses one.
AtIsSession == thread \in {"test", "order", "recvfrom", "blocked"} => at \in Sessions

IInv == TypeOK /\ AtIsSession /\ Subscriptions

\* The types of what rlock protects, and of the other variables.
LockedType ==
    /\ session_data \in [Keys -> Sessions \cup {NoSession}]
    /\ clients \in [Sessions -> Nat]
    /\ handlers \in [Sessions -> SUBSET Handlers]
    /\ key \in [Handlers -> Keys]
    /\ session \in [Handlers -> Sessions \cup {NoSession}]
    /\ rlock \in Handlers \cup {NoSession}
    /\ user \in [Handlers -> UserSteps]

OpenType ==
    /\ active \in [Sessions -> BOOLEAN]
    /\ udp_socket \in [Sessions -> Socket]
    /\ has_tcp \in [Sessions -> BOOLEAN]
    /\ watched \in [Sessions -> Watched]
    /\ late \in SUBSET Sessions

TimerType ==
    /\ sessions_on_try \in SUBSET Sessions
    /\ timers \in [Sessions -> [TimerSteps -> Nat]]
    /\ kicks \in 0..MaxKicks

ThreadType ==
    /\ thread \in ThreadSteps
    /\ at \in Sessions \cup {NoSession}
    /\ visited \in SUBSET Sessions
    /\ size \in Nat
    /\ timeout \in BOOLEAN
    /\ ready \in SUBSET Sessions

---------------------------------------------------------------------------
\* The parts of the type invariant are all of it.
LEMMA TypeParts == TypeOK <=> LockedType /\ OpenType /\ TimerType /\ ThreadType
BY DEF TypeOK, LockedType, OpenType, TimerType, ThreadType

\* Handlers of a session, and sessions in session_data, are finitely many.
LEMMA Finite ==
    ASSUME LockedType
    PROVE  /\ \A s \in Sessions : IsFiniteSet(handlers[s])
           /\ IsFiniteSet(Values)
<1>1. \A s \in Sessions : handlers[s] \subseteq Handlers
  BY DEF LockedType
<1>2. Values \subseteq Handlers
  BY DEF LockedType, Values, Sessions
<1> QED
  BY <1>1, <1>2, FS_Subset, HandlersAssumption

\* A set with one element more.
LEMMA OneMore ==
    ASSUME NEW S, IsFiniteSet(S), NEW x, x \notin S
    PROVE  Cardinality(S \cup {x}) = Cardinality(S) + 1
BY FS_AddElement

\* The same of one element less.
LEMMA OneLess ==
    ASSUME NEW S, IsFiniteSet(S), NEW x \in S
    PROVE  Cardinality(S \ {x}) = Cardinality(S) - 1
BY FS_RemoveElement

\* The number of sessions in session_data is a number.
LEMMA SizeIsNat == LockedType => Cardinality(Values) \in Nat
BY Finite, FS_CardinalityType

\* The new MonitorLoop has no session, and no user is in a call.
LEMMA InitHolds == Init => IInv
<1> SUFFICES ASSUME Init PROVE IInv
  OBVIOUS
<1>1. TypeOK /\ AtIsSession
  <2>1. LockedType /\ OpenType
    BY DEF Init, LockedType, OpenType, UserSteps, Watched, Socket
  <2>2. TimerType
    BY BoundsAssumption DEF Init, TimerType
  <2>3. ThreadType /\ AtIsSession
    BY DEF Init, ThreadType, AtIsSession, ThreadSteps
  <2> QED
    BY <2>1, <2>2, <2>3, TypeParts
<1>2. LockIsAdder /\ SessionIsKept /\ KeysMatch /\ HandlersAreJoined
  BY DEF Init, LockIsAdder, SessionIsKept, KeysMatch, HandlersAreJoined, Adding, Joined,
     Sessions
<1>3. ClientsAreHandlers
  BY FS_EmptySet DEF Init, ClientsAreHandlers
<1> QED
  BY <1>1, <1>2, <1>3 DEF IInv, Subscriptions

---------------------------------------------------------------------------
(* What rlock protects.                                                    *)

\* Every step is one of a user, or leaves the variables of users alone.
LEMMA OthersLeaveUsers ==
    ASSUME Next
    PROVE  \/ \E h \in Handlers : Subscribing(h) \/ Kick(h) \/ Unsubscribe(h)
           \/ UNCHANGED userVars
<1>1. ASSUME NEW s \in Sessions, Starting(s) \/ SessionTimeout(s)
      PROVE  UNCHANGED userVars
  BY <1>1 DEF Starting, OpenUDP, Activate, StartFails, ForgetTry, ForgetTwice, TimerKick,
     SessionTimeout, restVars
<1>2. ASSUME Round \/ Unblock \/ \E received \in SUBSET Sessions : Wake(received)
      PROVE  UNCHANGED userVars
  BY <1>2 DEF Round, SizeChanged, ThreadTestTry, ThreadOrderTry, EndOrders, EndSockets,
     TakeHandlers, CallSelect, EndTimeouts, Receive, EndReceive, LookForOrder, TakeSocket,
     LookAtSocket, Unblock, Wake, restVars
<1> QED
  BY <1>1, <1>2 DEF Next

\* The monitor thread and the timers do not touch subscriptions.
LEMMA OthersKeepSubscriptions ==
    ASSUME Subscriptions, UNCHANGED userVars
    PROVE  Subscriptions'
BY DEF Subscriptions, userVars, LockIsAdder, SessionIsKept, KeysMatch,
   HandlersAreJoined, ClientsAreHandlers

\* A user that finds a session takes the lock and joins no handlers yet.
LEMMA FindKeepsSubscriptions ==
    ASSUME IInv, NEW h \in Handlers, FindSession(h)
    PROVE  Subscriptions'
<1> USE TypeParts DEF IInv, LockedType, Subscriptions, FindSession, UserGo, Adding, Joined, Sessions,
        othersVars
<1>1. LockIsAdder'
  BY HandlersAssumption DEF LockIsAdder
<1>2. SessionIsKept'
  BY DEF SessionIsKept
<1>3. KeysMatch'
  BY DEF KeysMatch
<1>4. HandlersAreJoined' /\ ClientsAreHandlers'
  BY DEF HandlersAreJoined, ClientsAreHandlers
<1> QED
  BY <1>1, <1>2, <1>3, <1>4 DEF Subscriptions

\* A user that makes a session puts it where there was none, and so out of the
\* way of every other user's.
LEMMA NewKeepsSubscriptions ==
    ASSUME IInv, NEW h \in Handlers, NewSession(h)
    PROVE  Subscriptions'
<1> USE TypeParts DEF IInv, LockedType, Subscriptions, NewSession, UserGo, Adding, Joined, Sessions,
        othersVars
<1>1. LockIsAdder'
  BY HandlersAssumption DEF LockIsAdder
<1>2. SessionIsKept'
  <2> SUFFICES ASSUME NEW g \in Handlers, user'[g] \in Adding \cup Joined
               PROVE  session'[g] \in Sessions /\ session_data'[key'[g]] = session'[g]
    BY DEF SessionIsKept
  <2>1. CASE g = h
    BY <2>1
  <2>2. CASE g # h
    BY <2>2, HandlersAssumption DEF SessionIsKept
  <2> QED
    BY <2>1, <2>2
<1>3. KeysMatch'
  BY DEF KeysMatch
<1>4. HandlersAreJoined' /\ ClientsAreHandlers'
  BY DEF HandlersAreJoined, ClientsAreHandlers
<1> QED
  BY <1>1, <1>2, <1>3, <1>4 DEF Subscriptions

\* The steps of a user with the lock that change neither handlers nor sessions,
\* and those after it was released.
LEMMA PassingKeepsSubscriptions ==
    ASSUME IInv, NEW h \in Handlers, TestTry(h) \/ OrderTry(h) \/ Kick(h)
    PROVE  Subscriptions'
<1>1. UNCHANGED <<session_data, clients, handlers, key, session, rlock>>
  BY DEF TestTry, OrderTry, Kick, othersVars
<1>2. /\ user' \in [Handlers -> UserSteps]
      /\ \A g \in Handlers : user'[g] \in Adding => user[g] \in Adding
      /\ \A g \in Handlers : user'[g] \in Joined <=> user[g] \in Joined
  BY TypeParts DEF IInv, LockedType, TestTry, OrderTry, Kick, UserGo, Adding, Joined, UserSteps
<1> QED
  BY <1>1, <1>2 DEF IInv, Subscriptions, LockIsAdder, SessionIsKept, KeysMatch,
     HandlersAreJoined, ClientsAreHandlers

\* _add_new_handler: one handler and one client more.
LEMMA AddKeepsSubscriptions ==
    ASSUME IInv, NEW h \in Handlers, AddHandler(h)
    PROVE  Subscriptions'
<1> USE TypeParts DEF IInv, LockedType, Subscriptions, AddHandler, UserGo, Adding, Joined, Sessions,
        othersVars
<1>1. LockIsAdder'
  BY DEF LockIsAdder
<1>2. SessionIsKept' /\ KeysMatch'
  BY DEF SessionIsKept, KeysMatch
<1>3. session[h] \in Sessions /\ h \notin handlers[session[h]]
  BY DEF SessionIsKept, HandlersAreJoined
<1>4. HandlersAreJoined'
  BY <1>3 DEF HandlersAreJoined
<1>5. IsFiniteSet(handlers[session[h]])
  BY <1>3, Finite
<1>6. Cardinality(handlers[session[h]] \cup {h}) = clients[session[h]] + 1
  <2>1. Cardinality(handlers[session[h]] \cup {h}) = Cardinality(handlers[session[h]]) + 1
    BY ONLY <1>3, <1>5, OneMore
  <2>2. Cardinality(handlers[session[h]]) = clients[session[h]]
    BY <1>3 DEF ClientsAreHandlers
  <2> QED
    BY ONLY <2>1, <2>2
<1>7. ClientsAreHandlers'
  BY <1>3, <1>6 DEF ClientsAreHandlers
<1> QED
  BY <1>1, <1>2, <1>4, <1>7 DEF Subscriptions

\* unsubscribe: one handler and one client less; a session is removed with its
\* last client only, while no user is on the way into it.
LEMMA UnsubscribeKeepsSubscriptions ==
    ASSUME IInv, NEW h \in Handlers, Unsubscribe(h)
    PROVE  Subscriptions'
<1> DEFINE s == session[h]
<1> USE TypeParts DEF IInv, LockedType, Subscriptions, Unsubscribe, UserGo, Adding, Joined, Sessions
<1>1. s \in Sessions /\ h \in handlers[s] /\ session_data[key[h]] = s /\ key[s] = key[h]
  BY HandlersAssumption DEF SessionIsKept, HandlersAreJoined, KeysMatch
<1>2. LockIsAdder'
  BY DEF LockIsAdder
<1>3. HandlersAreJoined'
  BY <1>1 DEF HandlersAreJoined
<1>4. Cardinality(handlers[s] \ {h}) = clients[s] - 1
  <2>1. IsFiniteSet(handlers[s])
    BY <1>1, Finite
  <2>2. Cardinality(handlers[s] \ {h}) = Cardinality(handlers[s]) - 1
    BY ONLY <1>1, <2>1, OneLess
  <2>3. Cardinality(handlers[s]) = clients[s]
    BY <1>1 DEF ClientsAreHandlers
  <2> QED
    BY ONLY <2>2, <2>3
<1>5. ClientsAreHandlers'
  BY <1>1, <1>4 DEF ClientsAreHandlers
<1>6. \A g \in Handlers : user[g] \notin Adding
  BY HandlersAssumption DEF LockIsAdder
<1>7. CASE clients[s] <= 1
  <2>1. session_data' = [session_data EXCEPT ![key[s]] = NoSession]
    BY <1>7 DEF RemoveSession
  <2>2. handlers[s] = {h}
    <3>1. clients[s] = 1
      BY <1>1, <1>7, Finite, FS_EmptySet DEF ClientsAreHandlers
    <3>2. Cardinality(handlers[s] \ {h}) = 0 /\ IsFiniteSet(handlers[s] \ {h})
      BY <3>1, <1>1, <1>4, Finite, FS_RemoveElement
    <3> QED
      BY <3>2, <1>1, FS_EmptySet
  <2>3. KeysMatch'
    BY <2>1, <1>1 DEF KeysMatch
  <2>4. SessionIsKept'
    <3> SUFFICES ASSUME NEW g \in Handlers, user'[g] \in Adding \cup Joined
                 PROVE  session'[g] \in Sessions /\ session_data'[key'[g]] = session'[g]
      BY DEF SessionIsKept
    <3>1. g # h /\ user[g] \in Joined
      BY <1>6
    <3>2. session[g] # s /\ session[g] \in Sessions /\ session_data[key[g]] = session[g]
      BY <3>1, <2>2, <1>1 DEF HandlersAreJoined, SessionIsKept
    <3> QED
      BY <3>2, <2>1, <1>1
  <2> QED
    BY <2>3, <2>4, <1>2, <1>3, <1>5 DEF Subscriptions
<1>8. CASE ~(clients[s] <= 1)
  <2>1. UNCHANGED <<session_data, key, session>>
    BY <1>8
  <2>2. KeysMatch' /\ SessionIsKept'
    BY <2>1 DEF KeysMatch, SessionIsKept
  <2> QED
    BY <2>2, <1>2, <1>3, <1>5 DEF Subscriptions
<1> QED
  BY <1>7, <1>8

---------------------------------------------------------------------------
(* Types.                                                                  *)

\* What users do to the variables that rlock protects.  clients is a number
\* because it is what handlers counts.
LEMMA LockedTypeKept ==
    ASSUME IInv, Next
    PROVE  LockedType'
<1> USE TypeParts DEF IInv, LockedType, UserGo, UserSteps, Sessions, othersVars
<1>1. ASSUME NEW h \in Handlers, Subscribing(h) \/ Kick(h)
      PROVE  LockedType'
  <2>1. CASE FindSession(h)
    BY <2>1 DEF FindSession
  <2>2. CASE NewSession(h)
    BY <2>2 DEF NewSession
  <2>3. CASE TestTry(h)
    BY <2>3 DEF TestTry
  <2>4. CASE OrderTry(h)
    BY <2>4 DEF OrderTry
  <2>5. CASE AddHandler(h)
    <3>1. session[h] \in Sessions
      BY <2>5 DEF AddHandler, Subscriptions, SessionIsKept, Adding
    <3> QED
      BY <2>5, <3>1 DEF AddHandler
  <2>6. CASE Kick(h)
    BY <2>6 DEF Kick
  <2> QED
    BY <1>1, <2>1, <2>2, <2>3, <2>4, <2>5, <2>6 DEF Subscribing
<1>2. ASSUME NEW h \in Handlers, Unsubscribe(h)
      PROVE  LockedType'
  <2>1. session[h] \in Sessions /\ h \in handlers[session[h]]
    BY <1>2 DEF Unsubscribe, Subscriptions, SessionIsKept, HandlersAreJoined, Joined
  <2>2. clients[session[h]] = Cardinality(handlers[session[h]])
    BY <2>1 DEF Subscriptions, ClientsAreHandlers
  <2>3. IsFiniteSet(handlers[session[h]])
    BY <2>1, Finite
  <2>4. Cardinality(handlers[session[h]]) # 0
    BY ONLY <2>1, <2>3, FS_EmptySet
  <2>5. clients[session[h]] - 1 \in Nat
    BY <2>1, <2>2, <2>4
  <2>6. clients' \in [Sessions -> Nat]
    BY <1>2, <2>1, <2>5 DEF Unsubscribe
  <2>7. session_data' \in [Keys -> Sessions \cup {NoSession}]
    BY <1>2 DEF Unsubscribe, RemoveSession
  <2> QED
    BY <1>2, <2>6, <2>7 DEF Unsubscribe
<1>3. ASSUME UNCHANGED userVars
      PROVE  LockedType'
  BY <1>3 DEF userVars
<1> QED
  BY <1>1, <1>2, <1>3, OthersLeaveUsers

\* SessionData.clean leaves what it touches well typed.
LEMMA CleanType ==
    ASSUME OpenType, NEW s \in Sessions, Clean(s), UNCHANGED late
    PROVE  OpenType'
BY DEF OpenType, Clean, Socket, Watched

\* What of the sessions is not protected by rlock.
LEMMA OpenTypeKept ==
    ASSUME IInv, Next
    PROVE  OpenType'
<1>1. OpenType /\ AtIsSession
  BY TypeParts DEF IInv
<1>2. ASSUME NEW h \in Handlers, Subscribing(h) \/ Kick(h)
      PROVE  OpenType'
  BY <1>1, <1>2 DEF Subscribing, FindSession, NewSession, TestTry, OrderTry, AddHandler, Kick,
     othersVars, socketVars, OpenType
<1>3. ASSUME NEW h \in Handlers, Unsubscribe(h)
      PROVE  OpenType'
  <2>1. session[h] \in Sessions
    BY <1>3 DEF Unsubscribe, UserGo, IInv, Subscriptions, SessionIsKept, Joined
  <2>2. late' \in SUBSET Sessions
    BY <1>1, <1>3, <2>1 DEF Unsubscribe, RemoveSession, OpenType
  <2>3. Clean(session[h]) \/ UNCHANGED socketVars
    BY <1>3 DEF Unsubscribe, RemoveSession
  <2> QED
    BY <1>1, <2>1, <2>2, <2>3 DEF OpenType, Clean, Socket, Watched, socketVars
<1>4. ASSUME NEW s \in Sessions, Starting(s)
      PROVE  OpenType'
  <2>1. CASE OpenUDP(s)
    BY <1>1, <2>1 DEF OpenUDP, OpenType, Socket, Watched
  <2>2. CASE Activate(s)
    BY <1>1, <2>2 DEF Activate, OpenType, Socket, Watched
  <2>3. CASE StartFails(s) \/ ForgetTry(s) \/ ForgetTwice(s) \/ TimerKick(s)
    BY <1>1, <2>3 DEF StartFails, ForgetTry, ForgetTwice, TimerKick, socketVars, OpenType
  <2> QED
    BY <1>4, <2>1, <2>2, <2>3 DEF Starting
<1>5. ASSUME NEW s \in Sessions, SessionTimeout(s)
      PROVE  OpenType'
  BY <1>1, <1>5, CleanType DEF SessionTimeout, restVars
<1>6. ASSUME NEW s \in Sessions, LookForOrder(s) \/ TakeSocket(s) \/ LookAtSocket(s)
      PROVE  OpenType'
  <2>1. CASE LookForOrder(s)
    BY <1>1, <2>1 DEF LookForOrder, restVars, socketVars, OpenType
  <2>2. CASE TakeSocket(s)
    BY <1>1, <2>2 DEF TakeSocket, restVars, OpenType, Watched
  <2>3. CASE LookAtSocket(s)
    <3>1. (UNCHANGED socketVars \/ Clean(s)) /\ UNCHANGED late
      BY <2>3 DEF LookAtSocket, restVars
    <3> QED
      BY <1>1, <3>1, CleanType DEF socketVars, OpenType
  <2> QED
    BY <1>6, <2>1, <2>2, <2>3
<1>7. CASE Receive
  <2>1. (UNCHANGED socketVars \/ Clean(at)) /\ UNCHANGED late
    BY <1>7 DEF Receive, restVars
  <2>2. at \in Sessions
    BY <1>1, <1>7 DEF AtIsSession, Receive
  <2> QED
    BY <1>1, <2>1, <2>2, CleanType DEF socketVars, OpenType
<1>8. ASSUME SizeChanged \/ CallSelect \/ EndReceive
      PROVE  OpenType'
  BY <1>1, <1>8 DEF SizeChanged, CallSelect, ThreadDies, EndReceive, restVars, OpenType, Watched
<1>9. ASSUME \/ ThreadTestTry \/ ThreadOrderTry \/ EndOrders \/ EndSockets \/ TakeHandlers
             \/ EndTimeouts \/ Unblock \/ \E received \in SUBSET Sessions : Wake(received)
      PROVE  OpenType'
  BY <1>1, <1>9 DEF ThreadTestTry, ThreadOrderTry, EndOrders, EndSockets, TakeHandlers,
     EndTimeouts, Unblock, Wake, restVars, socketVars, OpenType
<1> QED
  BY <1>2, <1>3, <1>4, <1>5, <1>6, <1>7, <1>8, <1>9 DEF Next, Round

\* Every step leaves timers and sessions_on_try alone, or is one of these; only
\* users, timers and the socket pair's reader touch kicks.
LEMMA OthersLeaveTimers ==
    ASSUME Next
    PROVE  \/ \E h \in Handlers : OrderTry(h)
           \/ ThreadOrderTry
           \/ \E s \in Sessions : Starting(s)
           \/ UNCHANGED timerVars
<1>1. ASSUME NEW h \in Handlers,
             FindSession(h) \/ NewSession(h) \/ TestTry(h) \/ AddHandler(h) \/ Kick(h)
               \/ Unsubscribe(h)
      PROVE  UNCHANGED timerVars
  BY <1>1 DEF FindSession, NewSession, TestTry, AddHandler, Kick, Unsubscribe
<1>2. ASSUME NEW s \in Sessions,
             SessionTimeout(s) \/ LookForOrder(s) \/ TakeSocket(s) \/ LookAtSocket(s)
      PROVE  UNCHANGED timerVars
  BY <1>2 DEF SessionTimeout, LookForOrder, TakeSocket, LookAtSocket, restVars
<1>3. ASSUME \/ SizeChanged \/ ThreadTestTry \/ EndOrders \/ EndSockets \/ TakeHandlers
             \/ CallSelect \/ EndTimeouts \/ Receive \/ EndReceive \/ Unblock
             \/ \E received \in SUBSET Sessions : Wake(received)
      PROVE  UNCHANGED timerVars
  BY <1>3 DEF SizeChanged, ThreadTestTry, EndOrders, EndSockets, TakeHandlers, CallSelect,
     EndTimeouts, Receive, EndReceive, Unblock, Wake, restVars
<1> QED
  BY <1>1, <1>2, <1>3 DEF Next, Subscribing, Round

\* The socket pair holds at most MaxKicks bytes.
LEMMA KicksType ==
    ASSUME IInv, Next
    PROVE  kicks' \in 0..MaxKicks
<1>1. kicks \in 0..MaxKicks
  BY TypeParts DEF IInv, TimerType
<1>2. ASSUME SendKick
      PROVE  kicks' \in 0..MaxKicks
  BY <1>1, <1>2, BoundsAssumption DEF SendKick
<1>3. ASSUME NEW h \in Handlers, Subscribing(h) \/ Kick(h) \/ Unsubscribe(h)
      PROVE  SendKick \/ UNCHANGED kicks
  BY <1>3 DEF Subscribing, FindSession, NewSession, TestTry, OrderTry, AddHandler, Kick,
     Unsubscribe
<1>4. ASSUME NEW s \in Sessions, Starting(s) \/ SessionTimeout(s)
      PROVE  SendKick \/ UNCHANGED kicks
  BY <1>4 DEF Starting, OpenUDP, Activate, StartFails, ForgetTry, ForgetTwice, TimerKick,
     SessionTimeout, restVars
<1>5. ASSUME NEW received \in SUBSET Sessions, Wake(received)
      PROVE  kicks' \in 0..MaxKicks
  BY <1>1, <1>5, BoundsAssumption DEF Wake
<1>6. ASSUME Round \/ Unblock
      PROVE  UNCHANGED kicks
  BY <1>6 DEF Round, SizeChanged, ThreadTestTry, ThreadOrderTry, EndOrders, EndSockets,
     TakeHandlers, CallSelect, EndTimeouts, Receive, EndReceive, LookForOrder, TakeSocket,
     LookAtSocket, Unblock, restVars
<1> QED
  BY <1>1, <1>2, <1>3, <1>4, <1>5, <1>6 DEF Next

\* Ordering a start adds a timer that will fire.
LEMMA OrderKeepsTimers ==
    ASSUME TimerType, NEW s \in Sessions, OrderStart(s)
    PROVE  /\ sessions_on_try' \in SUBSET Sessions
           /\ timers' \in [Sessions -> [TimerSteps -> Nat]]
           /\ OnTryHasTimer => OnTryHasTimer'
<1> USE DEF TimerType, OrderStart, TimerSteps
<1>1. /\ sessions_on_try' \in SUBSET Sessions
      /\ timers' \in [Sessions -> [TimerSteps -> Nat]]
  OBVIOUS
<1>2. timers'[s]["pending"] > 0
  OBVIOUS
<1>3. \A r \in Sessions : r # s => timers'[r] = timers[r]
  OBVIOUS
<1> QED
  BY <1>1, <1>2, <1>3 DEF OnTryHasTimer, TimersOf

\* A timer that goes on is still there; before the end only if the session has
\* no entry, or loses it.
LEMMA GoKeepsTimers ==
    ASSUME TimerType, NEW s \in Sessions, NEW from \in TimerSteps, NEW to \in TimerSteps,
           from # to, TimerGo(s, from, to),
           sessions_on_try' \in SUBSET sessions_on_try,
           to = "kick" => s \notin sessions_on_try'
    PROVE  /\ sessions_on_try' \in SUBSET Sessions
           /\ timers' \in [Sessions -> [TimerSteps -> Nat]]
           /\ OnTryHasTimer => OnTryHasTimer'
<1> USE DEF TimerType, TimerGo
<1>1. sessions_on_try' \in SUBSET Sessions
  OBVIOUS
<1>2. /\ timers' \in [Sessions -> [TimerSteps -> Nat]]
      /\ timers'[s][to] > 0
      /\ \A r \in Sessions : r # s => timers'[r] = timers[r]
  OBVIOUS
<1> QED
  BY <1>1, <1>2 DEF OnTryHasTimer, TimersOf

\* A timer that ends has no session with an entry to take care of.
LEMMA EndKeepsTimers ==
    ASSUME TimerType, NEW s \in Sessions, NEW step \in TimerSteps, TimerEnds(s, step),
           UNCHANGED sessions_on_try,
           step = "kick" \/ s \notin sessions_on_try
    PROVE  /\ sessions_on_try' \in SUBSET Sessions
           /\ timers' \in [Sessions -> [TimerSteps -> Nat]]
           /\ OnTryHasTimer => OnTryHasTimer'
<1> USE DEF TimerType, TimerEnds
<1>1. /\ timers' \in [Sessions -> [TimerSteps -> Nat]]
      /\ \A r \in Sessions : r # s => timers'[r] = timers[r]
      /\ \A i \in TimerSteps : i # step => timers'[s][i] = timers[s][i]
  OBVIOUS
<1> QED
  BY <1>1 DEF OnTryHasTimer, TimersOf

\* Every step keeps the types of timers, and a timer for every entry.
LEMMA TimersKept ==
    ASSUME IInv, Next
    PROVE  /\ TimerType'
           /\ OnTryHasTimer => OnTryHasTimer'
<1> DEFINE Kept == /\ sessions_on_try' \in SUBSET Sessions
                   /\ timers' \in [Sessions -> [TimerSteps -> Nat]]
                   /\ OnTryHasTimer => OnTryHasTimer'
<1>1. TimerType /\ AtIsSession
  BY TypeParts DEF IInv
<1>2. ASSUME NEW h \in Handlers, OrderTry(h)
      PROVE  Kept
  BY <1>1, <1>2, OrderKeepsTimers DEF OrderTry, Sessions
<1>3. ASSUME ThreadOrderTry
      PROVE  Kept
  <2>1. at \in Sessions /\ OrderStart(at)
    BY <1>1, <1>3 DEF ThreadOrderTry, AtIsSession
  <2> QED
    BY <1>1, <2>1, OrderKeepsTimers
<1>4. ASSUME NEW s \in Sessions, Starting(s)
      PROVE  Kept
  <2>1. CASE OpenUDP(s)
    BY <1>1, <2>1, GoKeepsTimers DEF OpenUDP, TimerSteps
  <2>2. CASE Activate(s) \/ StartFails(s)
    <3>1. PICK from \in {"pending", "opened"} : TimerGo(s, from, Finally(s))
      BY <2>2 DEF Activate, StartFails
    <3>2. UNCHANGED sessions_on_try
      BY <2>2 DEF Activate, StartFails
    <3> QED
      BY <1>1, <3>1, <3>2, GoKeepsTimers DEF Finally, TimerSteps
  <2>3. CASE ForgetTry(s)
    BY <1>1, <2>3, GoKeepsTimers DEF ForgetTry, TimerSteps
  <2>4. CASE ForgetTwice(s) \/ TimerKick(s)
    BY <1>1, <2>4, EndKeepsTimers DEF ForgetTwice, TimerKick, TimerSteps
  <2> QED
    BY <1>4, <2>1, <2>2, <2>3, <2>4 DEF Starting
<1>5. ASSUME UNCHANGED timerVars
      PROVE  Kept
  <2>1. OnTryHasTimer => OnTryHasTimer'
    BY <1>5 DEF timerVars, OnTryHasTimer, TimersOf
  <2> QED
    BY <1>1, <1>5, <2>1 DEF timerVars, TimerType
<1> HIDE DEF Kept
<1>6. Kept
  BY <1>2, <1>3, <1>4, <1>5, OthersLeaveTimers
<1> QED
  BY <1>6, KicksType DEF TimerType, Kept

\* What the thread keeps of its round is well typed, and it has a session at
\* hand wherever it uses one.
LEMMA ThreadTypeKept ==
    ASSUME IInv, Next
    PROVE  ThreadType' /\ AtIsSession'
<1>1. ThreadType /\ AtIsSession /\ OpenType /\ Cardinality(Values) \in Nat
  BY TypeParts, SizeIsNat DEF IInv
<1>2. Values \subseteq Sessions
  BY TypeParts DEF IInv, LockedType, Values
<1> USE DEF ThreadType, AtIsSession, ThreadSteps
<1>3. ASSUME UNCHANGED threadVars
      PROVE  ThreadType' /\ AtIsSession'
  BY <1>1, <1>3 DEF threadVars
<1>4. ASSUME NEW s \in Sessions, LookForOrder(s) \/ TakeSocket(s)
      PROVE  ThreadType' /\ AtIsSession'
  BY <1>1, <1>4 DEF LookForOrder, TakeSocket, Fetch
<1>5. ASSUME NEW s \in Sessions, LookAtSocket(s) \/ SessionTimeout(s)
      PROVE  ThreadType' /\ AtIsSession'
  BY <1>1, <1>5 DEF LookAtSocket, SessionTimeout
<1>6. ASSUME SizeChanged \/ CallSelect
      PROVE  ThreadType' /\ AtIsSession'
  <2>1. UNCHANGED <<at, ready>>
    BY <1>6 DEF SizeChanged, CallSelect
  <2>2. \/ ThreadDies
        \/ thread' = "select" /\ UNCHANGED <<visited, size, timeout>>
    BY <1>6 DEF SizeChanged, CallSelect
  <2>3. CASE ThreadDies
    <3>1. timeout' \in BOOLEAN
      BY <2>3 DEF ThreadDies
    <3> QED
      BY <1>1, <2>1, <2>3, <3>1 DEF ThreadDies
  <2>4. CASE thread' = "select" /\ UNCHANGED <<visited, size, timeout>>
    BY <1>1, <2>1, <2>4
  <2> QED
    BY <2>2, <2>3, <2>4
<1>7. ASSUME ThreadTestTry \/ ThreadOrderTry \/ EndTimeouts \/ Unblock \/ Receive
      PROVE  ThreadType' /\ AtIsSession'
  BY <1>1, <1>7 DEF ThreadTestTry, ThreadOrderTry, EndTimeouts, Unblock, Receive
<1>8. ASSUME EndOrders \/ EndSockets \/ EndReceive
      PROVE  ThreadType' /\ AtIsSession'
  BY <1>1, <1>8 DEF EndOrders, EndSockets, EndReceive, Exhausted
<1>9. ASSUME TakeHandlers
      PROVE  ThreadType' /\ AtIsSession'
  <2>1. timeout' \in BOOLEAN
    BY <1>9 DEF TakeHandlers
  <2> QED
    BY <1>1, <1>9, <2>1 DEF TakeHandlers
<1>10. ASSUME NEW received \in SUBSET Sessions, Wake(received)
       PROVE  ThreadType' /\ AtIsSession'
  BY <1>1, <1>10 DEF Wake
<1>11. ASSUME NEW h \in Handlers, Subscribing(h) \/ Kick(h) \/ Unsubscribe(h)
       PROVE  UNCHANGED threadVars
  BY <1>11 DEF Subscribing, FindSession, NewSession, TestTry, OrderTry, AddHandler, Kick,
     Unsubscribe, othersVars
<1>12. ASSUME NEW s \in Sessions, Starting(s)
       PROVE  UNCHANGED threadVars
  BY <1>12 DEF Starting, OpenUDP, Activate, StartFails, ForgetTry, ForgetTwice, TimerKick
<1> QED
  BY <1>3, <1>4, <1>5, <1>6, <1>7, <1>8, <1>9, <1>10, <1>11, <1>12 DEF Next, Round

---------------------------------------------------------------------------
(* The theorems.                                                           *)

\* Every step keeps subscriptions, whoever takes it.
LEMMA SubscriptionsKept ==
    ASSUME IInv, Next
    PROVE  Subscriptions'
BY FindKeepsSubscriptions, NewKeepsSubscriptions, PassingKeepsSubscriptions,
   AddKeepsSubscriptions, UnsubscribeKeepsSubscriptions, OthersKeepSubscriptions,
   OthersLeaveUsers DEF Subscribing, IInv

\* A step of Spec keeps the invariant; so does one that changes nothing.
LEMMA StepHolds ==
    ASSUME IInv, [Next]_vars
    PROVE  IInv'
<1>1. CASE Next
  <2>1. LockedType' /\ OpenType' /\ TimerType' /\ ThreadType' /\ AtIsSession'
    BY <1>1, LockedTypeKept, OpenTypeKept, TimersKept, ThreadTypeKept
  <2>2. TypeOK'
    BY <2>1 DEF TypeOK, LockedType, OpenType, TimerType, ThreadType
  <2> QED
    BY <1>1, <2>1, <2>2, SubscriptionsKept DEF IInv
<1>2. CASE UNCHANGED vars
  <2>1. TypeOK' /\ AtIsSession'
    BY <1>2 DEF IInv, vars, userVars, socketVars, timerVars, threadVars, TypeOK, AtIsSession
  <2> QED
    BY <1>2, <2>1, OthersKeepSubscriptions DEF IInv, vars
<1> QED
  BY <1>1, <1>2

\* Always well typed; for clients, the count of a session, this says that an
\* unsubscribe never takes it below zero (lines 190-212).
THEOREM TypeCorrect == Spec => []TypeOK
<1>1. Init => IInv
  BY InitHolds
<1>2. IInv /\ [Next]_vars => IInv'
  BY StepHolds
<1>3. IInv => TypeOK
  BY DEF IInv
<1> QED
  BY <1>1, <1>2, <1>3, PTL DEF Spec

\* However many users subscribe and unsubscribe while the thread and the timers
\* run: whoever is subscribed is in the session session_data has for its key,
\* and the count that decides when to remove it is right (lines 176-240).
THEOREM SubscribersAreRegistered == Spec => []SubscribedIsRegistered
<1>1. Init => IInv
  BY InitHolds
<1>2. IInv /\ [Next]_vars => IInv'
  BY StepHolds
<1>3. IInv => SubscribedIsRegistered
  <2> SUFFICES ASSUME IInv, NEW s \in Sessions, handlers[s] # {}
               PROVE  Registered(s) /\ clients[s] = Cardinality(handlers[s])
    BY DEF SubscribedIsRegistered
  <2>1. PICK h \in Handlers : h \in handlers[s]
    BY TypeParts DEF IInv, LockedType
  <2>2. session[h] = s /\ session_data[key[h]] = s
    BY <2>1 DEF IInv, Subscriptions, HandlersAreJoined, SessionIsKept
  <2>3. key[s] = key[h]
    BY <2>2, TypeParts, HandlersAssumption DEF IInv, LockedType, Subscriptions, KeysMatch,
       Sessions
  <2> QED
    BY <2>2, <2>3 DEF Registered, IInv, Subscriptions, ClientsAreHandlers
<1> QED
  BY <1>1, <1>2, <1>3, PTL DEF Spec

\* Whatever timers of users and of the thread overlap, an entry of
\* sessions_on_try has a timer that will take it away (lines 273-292).
THEOREM EntriesHaveTimers == Spec => []OnTryHasTimer
<1>1. Init => IInv /\ OnTryHasTimer
  BY InitHolds DEF Init, OnTryHasTimer
<1>2. IInv /\ OnTryHasTimer /\ [Next]_vars => IInv' /\ OnTryHasTimer'
  <2> SUFFICES ASSUME IInv, OnTryHasTimer, [Next]_vars
               PROVE  IInv' /\ OnTryHasTimer'
    OBVIOUS
  <2>1. CASE Next
    BY <2>1, StepHolds, TimersKept
  <2>2. CASE UNCHANGED vars
    BY <2>2, StepHolds DEF vars, timerVars, OnTryHasTimer, TimersOf
  <2> QED
    BY <2>1, <2>2
<1> QED
  BY <1>1, <1>2, PTL DEF Spec

---------------------------------------------------------------------------
(***************************************************************************)
(* The rounds of the thread: what it has seen of a session stays so, or    *)
(* somebody is on the way to wake it.  WillWake is Waker without the       *)
(* timers that will find their entry gone: these end without a kick.       *)
(***************************************************************************)
WillWake(s) ==
    \/ kicks > 0
    \/ \E h \in Handlers : user[h] \notin {"new", "subscribed", "done"}
    \/ timers[s]["opened"] > 0
    \/ timers[s]["kick"] > 0
    \/ timers[s]["del"] > 0 /\ s \in sessions_on_try

\* The thread has seen to the start of s, and has taken its socket, this round.
Ordered(s) ==
    \/ thread = "orders" /\ s \in visited
    \/ thread \in {"test", "order"} /\ s \in visited /\ s # at
    \/ thread \in {"sockets", "handlers", "call", "select"}
Taken(s) ==
    \/ thread = "sockets" /\ s \in visited
    \/ thread \in {"handlers", "call", "select"}

Attended(s) ==
    /\ Ordered(s) => active[s] \/ s \in sessions_on_try
    /\ Taken(s) /\ active[s] => watched[s] \in {"current", "closed"}
    /\ thread = "select" => watched[s] # "closed"

Watchful == \A s \in Values : ~WillWake(s) => Attended(s)

\* Values are the registered sessions.
LEMMA ValuesAreRegistered ==
    ASSUME IInv
    PROVE  Values = {s \in Sessions : Registered(s)}
<1> USE TypeParts, HandlersAssumption DEF IInv, LockedType, Sessions
<1>1. ASSUME NEW s \in Values PROVE s \in Sessions /\ Registered(s)
  BY <1>1 DEF Values, Registered, Subscriptions, KeysMatch
<1>2. ASSUME NEW s \in Sessions, Registered(s) PROVE s \in Values
  BY <1>2 DEF Values, Registered
<1> QED
  BY <1>1, <1>2

\* SendKick leaves a byte for the thread.
LEMMA KickWakes ==
    ASSUME IInv, SendKick
    PROVE  kicks' > 0
BY BoundsAssumption DEF IInv, TypeOK, SendKick

\* A user that does something is on the way to wake the thread, or has just done
\* so (line 214).
LEMMA UsersWake ==
    ASSUME IInv, NEW h \in Handlers, Subscribing(h) \/ Kick(h) \/ Unsubscribe(h),
           NEW s
    PROVE  WillWake(s)'
<1>1. ASSUME Kick(h) PROVE kicks' > 0
  BY <1>1, KickWakes DEF Kick
<1>2. ASSUME Subscribing(h) \/ Unsubscribe(h)
      PROVE  user'[h] \notin {"new", "subscribed", "done"}
  BY <1>2 DEF Subscribing, FindSession, NewSession, TestTry, OrderTry, AddHandler,
     Unsubscribe, UserGo, IInv, TypeOK
<1> QED
  BY <1>1, <1>2 DEF WillWake

\* So is a timer past its delay, but the one that finds its entry gone (line 287).
LEMMA TimersWake ==
    ASSUME IInv, NEW t \in Sessions, Starting(t), ~ForgetTwice(t)
    PROVE  WillWake(t)'
<1> USE DEF IInv, TypeOK, TimerSteps, Finally
<1>1. ASSUME OpenUDP(t) PROVE timers'[t]["opened"] > 0
  BY <1>1 DEF OpenUDP, TimerGo
<1>2. ASSUME Activate(t) \/ StartFails(t)
      PROVE  \/ timers'[t]["kick"] > 0
             \/ timers'[t]["del"] > 0 /\ t \in sessions_on_try'
  BY <1>2 DEF Activate, StartFails, TimerGo
<1>3. ASSUME ForgetTry(t) PROVE timers'[t]["kick"] > 0
  BY <1>3 DEF ForgetTry, TimerGo
<1>4. ASSUME TimerKick(t) PROVE kicks' > 0
  BY <1>4, KickWakes DEF TimerKick
<1> QED
  BY <1>1, <1>2, <1>3, <1>4 DEF Starting, WillWake

\* Timers of other sessions change nothing for s, its own wake the thread.
LEMMA TimersKeepWatch ==
    ASSUME IInv, NEW t \in Sessions, Starting(t),
           NEW s \in Sessions, ~WillWake(s) => Attended(s), ~WillWake(s)'
    PROVE  Attended(s)'
<1> USE DEF IInv, TypeOK, threadVars, userVars, socketVars
<1>1. UNCHANGED threadVars
  BY DEF Starting, OpenUDP, Activate, StartFails, ForgetTry, ForgetTwice, TimerKick
<1>2. CASE ForgetTwice(t)
  <2>1. UNCHANGED <<user, kicks, sessions_on_try, active, watched>>
    BY <1>2 DEF ForgetTwice
  <2>2. /\ timers'[s]["opened"] = timers[s]["opened"]
        /\ timers'[s]["kick"] = timers[s]["kick"]
    BY <1>2 DEF ForgetTwice, TimerEnds, TimerSteps
  <2>3. s \notin sessions_on_try \/ timers'[s]["del"] = timers[s]["del"]
    BY <1>2 DEF ForgetTwice, TimerEnds, TimerSteps
  <2>4. ~WillWake(s)
    BY <2>1, <2>2, <2>3 DEF WillWake
  <2> QED
    BY <1>1, <2>1, <2>4 DEF Attended, Ordered, Taken
<1>3. CASE ~ForgetTwice(t)
  <2>1. s # t
    BY <1>3, TimersWake
  <2>2. UNCHANGED user /\ (kicks' > 0 \/ UNCHANGED kicks)
    BY <1>3, KickWakes DEF Starting, OpenUDP, Activate, StartFails, ForgetTry, TimerKick
  <2>3. timers'[s] = timers[s]
    BY <1>3, <2>1 DEF Starting, OpenUDP, Activate, StartFails, ForgetTry, TimerKick,
       TimerGo, TimerEnds
  <2>4. s \in sessions_on_try <=> s \in sessions_on_try'
    BY <1>3, <2>1 DEF Starting, OpenUDP, Activate, StartFails, ForgetTry, TimerKick
  <2>5. active'[s] = active[s] /\ watched'[s] = watched[s]
    BY <1>3, <2>1 DEF Starting, OpenUDP, Activate, StartFails, ForgetTry, TimerKick
  <2>6. ~WillWake(s)
    BY <2>2, <2>3, <2>4 DEF WillWake
  <2> QED
    BY <1>1, <2>4, <2>5, <2>6 DEF Attended, Ordered, Taken
<1> QED
  BY <1>2, <1>3

\* In the second half of a round nothing is claimed.
LEMMA SecondHalf ==
    ASSUME NEW s, thread' \in {"timeouts", "receive", "recvfrom", "blocked", "dead"}
    PROVE  Attended(s)'
BY DEF Attended, Ordered, Taken

\* The first half wakes nobody less, but where select returns.
LEMMA RoundWakes ==
    ASSUME IInv, NEW s \in Sessions, Round, ~WillWake(s)'
    PROVE  ~WillWake(s)
<1>1. CASE ThreadOrderTry
  <2>1. UNCHANGED <<user, kicks>> /\ sessions_on_try \subseteq sessions_on_try'
    BY <1>1 DEF ThreadOrderTry, OrderStart, userVars
  <2>2. \A i \in TimerSteps \ {"pending"} : timers'[s][i] = timers[s][i]
    BY <1>1 DEF ThreadOrderTry, OrderStart, IInv, TypeOK
  <2> QED
    BY <2>1, <2>2 DEF WillWake, TimerSteps
<1>2. CASE ~ThreadOrderTry
  <2>1. UNCHANGED restVars
    BY <1>2 DEF Round, SizeChanged, ThreadTestTry, EndOrders, EndSockets, TakeHandlers,
       CallSelect, EndTimeouts, Receive, EndReceive, LookForOrder, TakeSocket, LookAtSocket
  <2> QED
    BY <2>1 DEF restVars, userVars, timerVars, WillWake
<1> QED
  BY <1>1, <1>2

\* Looking for sessions to order: each is active, has an entry, or is ordered.
LEMMA OrdersKeepWatch ==
    ASSUME IInv, NEW s \in Sessions, Registered(s), Attended(s),
           \/ \E t \in Sessions : LookForOrder(t)
           \/ ThreadTestTry \/ ThreadOrderTry \/ EndOrders
    PROVE  Attended(s)'
<1> USE DEF Attended, Ordered, Taken, socketVars, restVars, timerVars
<1>1. ASSUME NEW t \in Sessions, LookForOrder(t) PROVE Attended(s)'
  BY <1>1 DEF LookForOrder, Fetch
<1>2. ASSUME ThreadTestTry PROVE Attended(s)'
  BY <1>2 DEF ThreadTestTry
<1>3. ASSUME ThreadOrderTry PROVE Attended(s)'
  BY <1>3 DEF ThreadOrderTry, OrderStart
<1>4. ASSUME EndOrders PROVE Attended(s)'
  <2>1. s \in visited
    BY <1>4, ValuesAreRegistered DEF EndOrders, Exhausted
  <2> QED
    BY <1>4, <2>1 DEF EndOrders, Exhausted
<1> QED
  BY <1>1, <1>2, <1>3, <1>4

\* Taking the sockets, to the call of select: the sockets of all that are active.
LEMMA SocketsKeepWatch ==
    ASSUME IInv, NEW s \in Sessions, Registered(s), Attended(s),
           \/ \E t \in Sessions : TakeSocket(t)
           \/ EndSockets \/ TakeHandlers \/ CallSelect
    PROVE  Attended(s)'
<1> USE DEF IInv, TypeOK, Attended, Ordered, Taken, socketVars, restVars, timerVars
<1>1. ASSUME NEW t \in Sessions, TakeSocket(t) PROVE Attended(s)'
  <2>1. ASSUME active[t] PROVE watched'[t] \in {"current", "closed"}
    BY <1>1, <2>1 DEF TakeSocket
  <2>2. ASSUME s # t PROVE watched'[s] = watched[s]
    BY <1>1, <2>2 DEF TakeSocket
  <2> QED
    BY <1>1, <2>1, <2>2 DEF TakeSocket, Fetch
<1>2. ASSUME EndSockets PROVE Attended(s)'
  <2>1. s \in visited
    BY <1>2, ValuesAreRegistered DEF EndSockets, Exhausted
  <2> QED
    BY <1>2, <2>1 DEF EndSockets, Exhausted
<1>3. ASSUME TakeHandlers PROVE Attended(s)'
  BY <1>3 DEF TakeHandlers
<1>4. ASSUME CallSelect PROVE Attended(s)'
  <2>1. CASE \E t \in Sessions : watched[t] = "closed"
    BY <1>4, <2>1, SecondHalf DEF CallSelect, ThreadDies
  <2>2. CASE \A t \in Sessions : watched[t] # "closed"
    BY <1>4, <2>2 DEF CallSelect
  <2> QED
    BY <2>1, <2>2
<1> QED
  BY <1>1, <1>2, <1>3, <1>4

\* The rest of a round claims nothing until it is over.
LEMMA RestKeepsWatch ==
    ASSUME IInv, NEW s \in Sessions,
           \/ SizeChanged \/ EndTimeouts \/ Receive \/ EndReceive \/ Unblock
           \/ \E t \in Sessions : LookAtSocket(t) \/ SessionTimeout(t)
           \/ \E received \in SUBSET Sessions : Wake(received)
    PROVE  Attended(s)'
<1>1. ASSUME EndReceive PROVE Attended(s)'
  BY <1>1 DEF EndReceive, Attended, Ordered, Taken
<1>2. ASSUME ~EndReceive
      PROVE  thread' \in {"timeouts", "receive", "recvfrom", "blocked", "dead"}
  BY <1>2 DEF SizeChanged, ThreadDies, EndTimeouts, Receive, Unblock, LookAtSocket,
     SessionTimeout, Wake, IInv, TypeOK
<1> QED
  BY <1>1, <1>2, SecondHalf

LEMMA StepWatches ==
    ASSUME IInv, IInv', Watchful, [Next]_vars
    PROVE  Watchful'
<1> SUFFICES ASSUME NEW s \in Values', ~WillWake(s)'
             PROVE  Attended(s)'
  BY DEF Watchful
<1>1. s \in Sessions
  BY HandlersAssumption DEF IInv, TypeOK, Values, Sessions
<1>2. ASSUME NEW h \in Handlers, Subscribing(h) \/ Kick(h) \/ Unsubscribe(h)
      PROVE  FALSE
  BY <1>2, UsersWake
<1>3. CASE UNCHANGED vars
  BY <1>3 DEF vars, userVars, socketVars, threadVars, timerVars, Values, Watchful,
     WillWake, Attended, Ordered, Taken
<1>4. ASSUME Next, UNCHANGED userVars
      PROVE  Attended(s)'
  <2>1. s \in Values /\ Registered(s)
    BY <1>1, <1>4, ValuesAreRegistered DEF userVars, Values
  <2>2. ~WillWake(s) => Attended(s)
    BY <2>1 DEF Watchful
  <2>3. ASSUME NEW t \in Sessions, Starting(t) PROVE Attended(s)'
    BY <1>1, <2>2, <2>3, TimersKeepWatch
  <2>4. ASSUME Round PROVE Attended(s)'
    <3>1. Attended(s)
      BY <1>1, <2>2, <2>4, RoundWakes
    <3> QED
      BY <1>1, <2>1, <2>4, <3>1, OrdersKeepWatch, SocketsKeepWatch, RestKeepsWatch
         DEF Round
  <2>5. ASSUME \/ \E t \in Sessions : SessionTimeout(t)
               \/ \E received \in SUBSET Sessions : Wake(received)
               \/ Unblock
        PROVE  Attended(s)'
    BY <1>1, <2>5, RestKeepsWatch
  <2> QED
    BY <1>2, <1>4, <2>3, <2>4, <2>5 DEF Next
<1> QED
  BY <1>2, <1>3, <1>4, OthersLeaveUsers

\* When the thread sleeps and nobody is on the way to wake it, it watches every
\* active session, and each other session is waiting for its timer (lines 214,
\* 275, 309-318, 361).
THEOREM NothingIsMissed == Spec => []SleepsInPeace
<1>1. Init => IInv /\ Watchful
  BY InitHolds DEF Init, Watchful, Values
<1>2. IInv /\ Watchful /\ [Next]_vars => IInv' /\ Watchful'
  BY StepHolds, StepWatches
<1>3. IInv /\ Watchful => SleepsInPeace
  <2> SUFFICES ASSUME IInv, Watchful, NEW s \in Sessions,
                      thread = "select", Registered(s), ~Waker(s)
               PROVE  IF active[s] THEN watched[s] = "current" ELSE s \in sessions_on_try
    BY DEF SleepsInPeace
  <2>1. ~WillWake(s)
    BY DEF Waker, Running, TimersOf, TimerSteps, WillWake
  <2>2. Attended(s)
    BY <2>1, ValuesAreRegistered DEF Watchful
  <2> QED
    BY <2>2 DEF Attended, Ordered, Taken
<1> QED
  BY <1>1, <1>2, <1>3, PTL DEF Spec

---------------------------------------------------------------------------
(***************************************************************************)
(* Sessions that were removed: nothing that could open their sockets is    *)
(* left.                                                                   *)
(***************************************************************************)
MakersHaveTheirOwn == \A h \in Handlers : user[h] \in {"try", "order"} => session[h] = h

LeftClosed ==
    \A s \in Sessions : Registered(s) \/ s \in late
        \/ (TimersOf(s) = {} /\ ~ThreadOrders(s) /\ udp_socket[s] # "open")

\* A user that made a session is the one it is named by.
LEMMA MakersKeep ==
    ASSUME IInv, MakersHaveTheirOwn, Next
    PROVE  MakersHaveTheirOwn'
<1> USE DEF MakersHaveTheirOwn, IInv, TypeOK
<1>1. ASSUME NEW h \in Handlers, Subscribing(h) PROVE MakersHaveTheirOwn'
  BY <1>1 DEF Subscribing, FindSession, NewSession, TestTry, OrderTry, AddHandler, UserGo
<1>2. ASSUME NEW h \in Handlers, Kick(h) \/ Unsubscribe(h) PROVE MakersHaveTheirOwn'
  BY <1>2 DEF Kick, Unsubscribe, UserGo
<1>3. ASSUME UNCHANGED userVars PROVE MakersHaveTheirOwn'
  BY <1>3 DEF userVars
<1> QED
  BY <1>1, <1>2, <1>3, OthersLeaveUsers

\* Cleaning opens nothing.
LEMMA CleanOpensNothing ==
    ASSUME IInv, NEW t \in Sessions, Clean(t), NEW s \in Sessions,
           udp_socket[s] # "open"
    PROVE  udp_socket'[s] # "open"
BY DEF Clean, IInv, TypeOK

\* The last unsubscribe closes the session, unless it is late (lines 80-92).
LEMMA LeftClosedByUser ==
    ASSUME IInv, LeftClosed, MakersHaveTheirOwn, NEW h \in Handlers,
           Subscribing(h) \/ Kick(h) \/ Unsubscribe(h)
    PROVE  LeftClosed'
<1> USE DEF IInv, TypeOK, LeftClosed, Registered, othersVars, socketVars, threadVars,
            timerVars, TimersOf, ThreadOrders, Sessions
<1>1. ASSUME FindSession(h) \/ TestTry(h) \/ AddHandler(h) \/ Kick(h)
      PROVE  LeftClosed'
  BY <1>1 DEF FindSession, TestTry, AddHandler, Kick
<1>2. ASSUME NewSession(h) PROVE LeftClosed'
  BY <1>2, HandlersAssumption DEF NewSession
<1>3. ASSUME OrderTry(h) PROVE LeftClosed'
  <2>1. Registered(h)
    BY <1>3 DEF OrderTry, UserGo, MakersHaveTheirOwn, Subscriptions, SessionIsKept, Adding
  <2>2. UNCHANGED <<session_data, key, udp_socket, thread, at, late>>
    BY <1>3 DEF OrderTry
  <2>3. \A s \in Sessions \ {h} : timers'[s] = timers[s]
    BY <1>3 DEF OrderTry, OrderStart
  <2> QED
    BY <2>1, <2>2, <2>3
<1>4. ASSUME Unsubscribe(h) PROVE LeftClosed'
  <2> DEFINE s == session[h]
  <2>1. s \in Sessions /\ session_data[key[h]] = s /\ key[s] = key[h]
    BY <1>4, HandlersAssumption DEF Unsubscribe, UserGo, Subscriptions, SessionIsKept,
       Joined, KeysMatch
  <2>2. UNCHANGED <<key, thread, at, timers>>
    BY <1>4 DEF Unsubscribe
  <2>3. CASE UNCHANGED <<session_data, socketVars, late>>
    BY <2>2, <2>3
  <2>4. CASE RemoveSession(s)
    <3>1. /\ late \subseteq late'
          /\ \A r \in Sessions \ {s} : Registered(r) => Registered(r)'
      BY <2>1, <2>2, <2>4 DEF RemoveSession
    <3>2. ASSUME NEW r \in Sessions, r # s
          PROVE  udp_socket[r] # "open" => udp_socket'[r] # "open"
      BY <2>1, <2>4, CleanOpensNothing DEF RemoveSession
    <3>3. \/ s \in late'
          \/ TimersOf(s) = {} /\ ~ThreadOrders(s) /\ udp_socket'[s] # "open"
      BY <2>1, <2>4 DEF RemoveSession, Clean
    <3> QED
      BY <2>2, <3>1, <3>2, <3>3
  <2> QED
    BY <1>4, <2>3, <2>4 DEF Unsubscribe
<1> QED
  BY <1>1, <1>2, <1>3, <1>4 DEF Subscribing

\* A session with a timer is registered or late: it may open what it likes.
LEMMA LeftClosedByTimer ==
    ASSUME IInv, LeftClosed, NEW t \in Sessions, Starting(t)
    PROVE  LeftClosed'
<1>1. UNCHANGED <<session_data, key, thread, at, late>>
  BY DEF Starting, OpenUDP, Activate, StartFails, ForgetTry, ForgetTwice, TimerKick,
     userVars, threadVars
<1>2. TimersOf(t) # {}
  BY DEF Starting, OpenUDP, Activate, StartFails, ForgetTry, ForgetTwice, TimerKick,
     TimerGo, TimerEnds, TimersOf, TimerSteps
<1>3. ASSUME NEW s \in Sessions, s # t
      PROVE  timers'[s] = timers[s] /\ udp_socket'[s] = udp_socket[s]
  BY <1>3 DEF Starting, OpenUDP, Activate, StartFails, ForgetTry, ForgetTwice, TimerKick,
     TimerGo, TimerEnds, socketVars, IInv, TypeOK
<1> QED
  BY <1>1, <1>2, <1>3 DEF LeftClosed, Registered, TimersOf, ThreadOrders

\* So is one the thread orders a start of; what the thread finds in session_data
\* is registered, and otherwise it only closes.
LEMMA LeftClosedByThread ==
    ASSUME IInv, LeftClosed, Next, UNCHANGED userVars,
           \A t \in Sessions : ~Starting(t)
    PROVE  LeftClosed'
<1> USE DEF userVars, LeftClosed, Registered, TimersOf, ThreadOrders
<1>1. ASSUME NEW t \in Sessions, LookForOrder(t) PROVE LeftClosed'
  <2>1. Registered(t)
    BY <1>1, ValuesAreRegistered DEF LookForOrder, Fetch
  <2>2. UNCHANGED <<session_data, key, udp_socket, timers, late>>
    BY <1>1 DEF LookForOrder, socketVars, restVars, timerVars
  <2>3. UNCHANGED <<thread, at>> \/ at' = t
    BY <1>1 DEF LookForOrder
  <2> QED
    BY <2>1, <2>2, <2>3
<1>2. ASSUME ThreadTestTry PROVE LeftClosed'
  BY <1>2 DEF ThreadTestTry, socketVars, restVars, timerVars
<1>3. ASSUME ThreadOrderTry PROVE LeftClosed'
  <2>1. UNCHANGED <<session_data, key, udp_socket, late>> /\ thread' = "orders"
    BY <1>3 DEF ThreadOrderTry, socketVars
  <2>2. ASSUME NEW s \in Sessions, s # at PROVE timers'[s] = timers[s]
    BY <1>3, <2>2 DEF ThreadOrderTry, OrderStart, IInv, TypeOK
  <2>3. ThreadOrders(at)
    BY <1>3 DEF ThreadOrderTry
  <2> QED
    BY <2>1, <2>2, <2>3
<1>4. ASSUME \/ Round /\ ~ThreadTestTry /\ ~ThreadOrderTry
                /\ \A t \in Sessions : ~LookForOrder(t)
             \/ \E t \in Sessions : SessionTimeout(t)
             \/ \E received \in SUBSET Sessions : Wake(received)
             \/ Unblock
      PROVE  LeftClosed'
  <2>1. UNCHANGED <<session_data, key, timers, late>>
    BY <1>4 DEF Round, SizeChanged, EndOrders, EndSockets, TakeHandlers, CallSelect,
       EndTimeouts, Receive, EndReceive, TakeSocket, LookAtSocket, SessionTimeout,
       Wake, Unblock, restVars, timerVars
  <2>2. thread' \notin {"test", "order"}
    BY <1>4 DEF Round, SizeChanged, EndOrders, EndSockets, TakeHandlers, CallSelect,
       EndTimeouts, Receive, EndReceive, TakeSocket, LookAtSocket, SessionTimeout,
       Wake, Unblock, Exhausted, ThreadDies
  <2>3. UNCHANGED udp_socket \/ \E t \in Sessions : Clean(t)
    BY <1>4 DEF Round, SizeChanged, EndOrders, EndSockets, TakeHandlers, CallSelect,
       EndTimeouts, Receive, EndReceive, TakeSocket, LookAtSocket, SessionTimeout,
       Wake, Unblock, socketVars, IInv, AtIsSession
  <2>4. \A s \in Sessions : udp_socket[s] # "open" => udp_socket'[s] # "open"
    BY <2>3, CleanOpensNothing
  <2> QED
    BY <2>1, <2>2, <2>4
<1>5. ASSUME NEW h \in Handlers, Subscribing(h) \/ Kick(h) \/ Unsubscribe(h)
      PROVE  FALSE
  BY <1>5 DEF Subscribing, FindSession, NewSession, TestTry, OrderTry, AddHandler, Kick,
     Unsubscribe, UserGo, IInv, TypeOK
<1> QED
  BY <1>1, <1>2, <1>3, <1>4, <1>5 DEF Next, Round

\* A session that was removed stays closed, unless at that moment it was being
\* started, about to be, or half open (lines 80-92, 214, 275-292).
THEOREM RemovedStaysClosed == Spec => []ClosedUnlessLate
<1>1. Init => IInv /\ MakersHaveTheirOwn /\ LeftClosed
  BY InitHolds DEF Init, MakersHaveTheirOwn, LeftClosed, TimersOf, ThreadOrders
<1>2. IInv /\ MakersHaveTheirOwn /\ LeftClosed /\ [Next]_vars
      => IInv' /\ MakersHaveTheirOwn' /\ LeftClosed'
  <2> SUFFICES ASSUME IInv, MakersHaveTheirOwn, LeftClosed, [Next]_vars
               PROVE  IInv' /\ MakersHaveTheirOwn' /\ LeftClosed'
    OBVIOUS
  <2>1. CASE Next
    <3>1. LeftClosed'
      BY <2>1, OthersLeaveUsers, LeftClosedByUser, LeftClosedByTimer, LeftClosedByThread
    <3> QED
      BY <2>1, <3>1, StepHolds, MakersKeep
  <2>2. CASE UNCHANGED vars
    <3>1. MakersHaveTheirOwn' /\ LeftClosed'
      BY <2>2 DEF vars, userVars, socketVars, threadVars, timerVars, MakersHaveTheirOwn,
         LeftClosed, Registered, TimersOf, ThreadOrders
    <3> QED
      BY <3>1, StepHolds
  <2> QED
    BY <2>1, <2>2
<1>3. LeftClosed => ClosedUnlessLate
  BY DEF LeftClosed, ClosedUnlessLate
<1> QED
  BY <1>1, <1>2, <1>3, PTL DEF Spec
---------------------------------------------------------------------------
(***************************************************************************)
(* The streams the loop implements.  Nothing of a round is left of the     *)
(* session that a user is yet to make, so that it is no stream of the      *)
(* round: Fresh.                                                           *)
(***************************************************************************)
Fresh ==
    \A h \in Handlers : user[h] = "new" =>
        watched[h] = "none" /\ h \notin ready /\ h \notin Values /\ at # h

\* Users: a session that is made is its user's, who is no longer new.
LEMMA UsersKeepFresh ==
    ASSUME IInv, Fresh, NEW h \in Handlers, Subscribing(h) \/ Kick(h) \/ Unsubscribe(h)
    PROVE  Fresh'
<1> USE DEF IInv, TypeOK, Fresh, UserGo, Values, Sessions, othersVars, socketVars, threadVars
<1>1. CASE FindSession(h) \/ TestTry(h) \/ OrderTry(h) \/ AddHandler(h) \/ Kick(h)
  BY <1>1 DEF FindSession, TestTry, OrderTry, AddHandler, Kick
<1>2. CASE NewSession(h)
  BY <1>2 DEF NewSession
<1>3. CASE Unsubscribe(h)
  BY <1>3, HandlersAssumption DEF Unsubscribe, RemoveSession, Clean
<1> QED
  BY <1>1, <1>2, <1>3 DEF Subscribing

\* Whether there is a socket of this round is for the thread to say.
LEMMA TimersKeepWatched ==
    ASSUME IInv, NEW t \in Sessions, Starting(t)
    PROVE  /\ UNCHANGED <<userVars, threadVars>>
           /\ \A s \in Sessions : watched'[s] = "none" <=> watched[s] = "none"
BY DEF Starting, OpenUDP, Activate, StartFails, ForgetTry, ForgetTwice, TimerKick,
   socketVars, IInv, TypeOK

LEMMA CleanKeepsWatched ==
    ASSUME IInv, NEW t, Clean(t)
    PROVE  \A s \in Sessions : watched'[s] = "none" <=> watched[s] = "none"
BY DEF Clean, IInv, TypeOK

\* The thread looks at what is in session_data, or was in this round.
LEMMA ThreadKeepsFresh ==
    ASSUME IInv, Fresh, Next, UNCHANGED userVars
    PROVE  Fresh'
<1>0. UNCHANGED <<user, session_data>> /\ Values' = Values
  BY DEF userVars, Values
<1>1. ASSUME NEW t \in Sessions, Starting(t) PROVE Fresh'
  BY <1>0, <1>1, TimersKeepWatched DEF Fresh, threadVars, Sessions
<1>2. ASSUME NEW t \in Sessions, SessionTimeout(t) PROVE Fresh'
  BY <1>0, <1>2, CleanKeepsWatched DEF SessionTimeout, Fresh, Sessions
<1>3. ASSUME NEW received \in SUBSET Sessions, Wake(received) PROVE Fresh'
  BY <1>0, <1>3 DEF Wake, Fresh, Sessions, socketVars
<1>4. ASSUME NEW t \in Sessions, LookForOrder(t) \/ TakeSocket(t) PROVE Fresh'
  BY <1>0, <1>4 DEF LookForOrder, TakeSocket, Fetch, Fresh, Sessions, socketVars, IInv, TypeOK
<1>5. ASSUME NEW t \in Sessions, LookAtSocket(t) PROVE Fresh'
  BY <1>0, <1>5, CleanKeepsWatched DEF LookAtSocket, Fresh, Sessions, socketVars
<1>6. ASSUME \/ SizeChanged \/ ThreadTestTry \/ ThreadOrderTry \/ EndOrders \/ EndSockets
             \/ TakeHandlers \/ CallSelect \/ EndTimeouts \/ EndReceive \/ Unblock
      PROVE  Fresh'
  BY <1>0, <1>6, HandlersAssumption DEF SizeChanged, ThreadTestTry, ThreadOrderTry, EndOrders,
     EndSockets, TakeHandlers, CallSelect, EndTimeouts, EndReceive, Unblock, ThreadDies, Fresh,
     Sessions, socketVars
<1>7. ASSUME Receive PROVE Fresh'
  BY <1>0, <1>7, CleanKeepsWatched, HandlersAssumption DEF Receive, Fresh, Sessions, socketVars
<1>8. ASSUME NEW h \in Handlers, Subscribing(h) \/ Kick(h) \/ Unsubscribe(h)
      PROVE  FALSE
  BY <1>8 DEF userVars, Subscribing, FindSession, NewSession, TestTry, OrderTry, AddHandler,
     Kick, Unsubscribe, UserGo, IInv, TypeOK
<1> QED
  BY <1>1, <1>2, <1>3, <1>4, <1>5, <1>6, <1>7, <1>8 DEF Next, Round

LEMMA FreshKept ==
    ASSUME IInv, Fresh, [Next]_vars
    PROVE  Fresh'
<1>1. CASE UNCHANGED vars
  BY <1>1 DEF vars, userVars, socketVars, threadVars, Fresh, Values
<1>2. CASE Next
  BY <1>2, OthersLeaveUsers, UsersKeepFresh, ThreadKeepsFresh
<1> QED
  BY <1>1, <1>2
\* Whoever has joined is in a session of session_data, and nobody else.
SubscribedAreJoined == Subscribed = Named({h \in Handlers : user[h] \in Joined})

LEMMA JoinedAreSubscribed ==
    /\ IInv => SubscribedAreJoined
    /\ IInv' => SubscribedAreJoined'
<1>1. IInv => SubscribedAreJoined
  <2> SUFFICES ASSUME IInv
               PROVE  UNION {handlers[s] : s \in Values} = {h \in Handlers : user[h] \in Joined}
    BY DEF Subscribed, SubscribedAreJoined
  <2>1. Values \subseteq Sessions
    BY DEF IInv, TypeOK, Values
  <2>2. ASSUME NEW h \in Handlers, user[h] \in Joined
        PROVE  session[h] \in Values /\ h \in handlers[session[h]]
    <3>1. session[h] \in Sessions /\ session_data[key[h]] = session[h] /\ key[h] \in Keys
      BY <2>2 DEF IInv, TypeOK, Subscriptions, SessionIsKept
    <3> QED
      BY <2>2, <3>1, HandlersAssumption DEF IInv, Subscriptions, HandlersAreJoined, Values, Sessions
  <2>3. ASSUME NEW s \in Values, NEW h \in handlers[s]
        PROVE  h \in Handlers /\ user[h] \in Joined
    <3>1. h \in Handlers
      BY <2>1 DEF IInv, TypeOK
    <3> QED
      BY <2>1, <3>1 DEF IInv, Subscriptions, HandlersAreJoined
  <2> QED
    BY <2>2, <2>3
<1>2. IInv' => SubscribedAreJoined'
  BY <1>1, PTL
<1> QED
  BY <1>1, <1>2

\* The initial state has no streams.
LEMMA InitStreams == Init => Streams!Init
<1> SUFFICES ASSUME Init PROVE Streams!Init
  OBVIOUS
<1>1. Values = {}
  BY DEF Init, Values
<1>2. Joining = {} /\ Subscribed = {}
  BY <1>1 DEF Init, Joining, Subscribed, Named, Adding
<1>3. Watching = {} /\ TimingOut = {} /\ ToReceive = {}
  BY HandlersAssumption DEF Init, Watching, TimingOut, ToReceive, KeysOf
<1>4. Phase[thread] = "sockets"
  BY DEF Init, Phase
<1> QED
  BY <1>2, <1>3, <1>4 DEF Streams!Init

---------------------------------------------------------------------------
\* What the round is made of, for a step that leaves session_data and the thread alone.
LEMMA RoundStays ==
    ASSUME UNCHANGED <<session_data, key, thread, at, visited, ready>>,
           \A s \in Sessions : watched'[s] = "none" <=> watched[s] = "none"
    PROVE  UNCHANGED <<Phase[thread], Watching, TimingOut, ToReceive>>
<1>1. CanTimeOut' = CanTimeOut
  BY DEF CanTimeOut
<1>2. {s \in Sessions : watched[s] # "none"}' = {s \in Sessions : watched[s] # "none"}
  OBVIOUS
<1>3. Watching' = Watching
  BY <1>2 DEF Watching, KeysOf
<1>4. TimingOut' = TimingOut
  BY <1>1 DEF TimingOut, KeysOf
<1>5. ToReceive' = ToReceive
  BY DEF ToReceive, KeysOf
<1> QED
  BY <1>3, <1>4, <1>5

\* Who subscribes, and who is about to, is the users' business.
LEMMA UsersStay ==
    ASSUME UNCHANGED userVars, key' = key
    PROVE  UNCHANGED Streams!users
BY DEF userVars, Streams!users, Joining, Subscribed, Named, Values
---------------------------------------------------------------------------
(* Users.                                                                  *)

\* With the lock free, nobody is joining.
LEMMA NobodyJoins ==
    ASSUME IInv, rlock = NoSession
    PROVE  \A h \in Handlers : user[h] \notin Adding
BY HandlersAssumption DEF IInv, Subscriptions, LockIsAdder

\* A user finds a session, or makes one that the round knows nothing of.
LEMMA BeginStreams ==
    ASSUME IInv, IInv', Fresh, NEW h \in Handlers, FindSession(h) \/ NewSession(h)
    PROVE  Streams!Begin([handler |-> h, stream |-> key[h]])
<1>0. /\ user[h] = "new" /\ rlock = NoSession
      /\ user' \in [Handlers -> UserSteps]
      /\ \E to \in Adding : user' = [user EXCEPT ![h] = to]
      /\ UNCHANGED <<key, thread, at, visited, ready, watched>>
  BY DEF FindSession, NewSession, UserGo, Adding, othersVars, socketVars, threadVars, IInv, TypeOK
<1>1. Joining = {} /\ Joining' = {[handler |-> h, stream |-> key[h]]}
  BY <1>0, NobodyJoins DEF Joining, Named, IInv, TypeOK
<1>2. Subscribed' = Subscribed /\ [handler |-> h, stream |-> key[h]] \notin Subscribed
  <2>1. {g \in Handlers : user[g] \in Joined}' = {g \in Handlers : user[g] \in Joined}
    BY <1>0 DEF Joined, Adding, IInv, TypeOK
  <2>2. Named({g \in Handlers : user[g] \in Joined})' = Named({g \in Handlers : user[g] \in Joined})
    BY <1>0, <2>1 DEF Named
  <2>3. [handler |-> h, stream |-> key[h]] \notin Named({g \in Handlers : user[g] \in Joined})
    BY <1>0 DEF Named, Joined
  <2> QED
    BY <2>2, <2>3, JoinedAreSubscribed DEF SubscribedAreJoined
<1>3. UNCHANGED <<Phase[thread], Watching, TimingOut, ToReceive>>
  <2>1. CASE FindSession(h)
    BY <1>0, <2>1, RoundStays DEF FindSession
  <2>2. CASE NewSession(h)
    <3>1. /\ session_data[key[h]] = NoSession
          /\ session_data' = [session_data EXCEPT ![key[h]] = h]
      BY <2>2 DEF NewSession
    <3>2. ASSUME NEW S, h \notin S, NoSession \notin S
          PROVE  {k \in Keys : session_data'[k] \in S} = {k \in Keys : session_data[k] \in S}
      BY <3>1, <3>2 DEF IInv, TypeOK
    <3>3. CanTimeOut' = CanTimeOut
      BY <1>0 DEF CanTimeOut
    <3>4. NoSession \notin Sessions /\ watched[h] = "none" /\ h \notin ready /\ at # h
      BY <1>0, HandlersAssumption DEF Fresh, Sessions
    <3>5. Watching' = Watching
      BY <1>0, <3>2, <3>4 DEF Watching, KeysOf
    <3>6. TimingOut' = TimingOut
      BY <1>0, <3>2, <3>3, <3>4 DEF TimingOut, KeysOf, CanTimeOut
    <3>7. ToReceive' = ToReceive
      <4> DEFINE S == IF thread \in {"recvfrom", "blocked"} THEN ready \cup {at} ELSE ready
      <4>1. h \notin S /\ NoSession \notin S
        BY <3>4 DEF IInv, AtIsSession, TypeOK
      <4>2. {k \in Keys : session_data'[k] \in S} = {k \in Keys : session_data[k] \in S}
        BY ONLY <4>1, <3>2
      <4> QED
        BY <1>0, <4>2 DEF ToReceive, KeysOf
    <3> QED
      BY <1>0, <3>5, <3>6, <3>7
  <2> QED
    BY <2>1, <2>2
<1> QED
  BY <1>1, <1>2, <1>3 DEF Streams!Begin
\* _add_new_handler.
LEMMA SubscribeStreams ==
    ASSUME IInv, IInv', NEW h \in Handlers, AddHandler(h)
    PROVE  /\ [handler |-> h, stream |-> key[h]] \in Joining
           /\ Streams!Subscribe([handler |-> h, stream |-> key[h]])
<1>0. /\ user[h] = "add" /\ user' = [user EXCEPT ![h] = "subscribing"]
      /\ UNCHANGED <<session_data, key, thread, at, visited, ready, watched>>
  BY DEF AddHandler, UserGo, othersVars, socketVars, threadVars
<1>1. /\ {g \in Handlers : user[g] \in Adding}' = {g \in Handlers : user[g] \in Adding} \ {h}
      /\ {g \in Handlers : user[g] \in Joined}' = {g \in Handlers : user[g] \in Joined} \cup {h}
  BY <1>0 DEF Adding, Joined, IInv, TypeOK
<1>2. /\ [handler |-> h, stream |-> key[h]] \in Joining
      /\ Joining' = Joining \ {[handler |-> h, stream |-> key[h]]}
  BY <1>0, <1>1 DEF Joining, Named, Adding
<1>3. Subscribed' = Subscribed \cup {[handler |-> h, stream |-> key[h]]}
  BY <1>0, <1>1, JoinedAreSubscribed DEF SubscribedAreJoined, Named
<1> QED
  BY <1>0, <1>2, <1>3, RoundStays DEF Streams!Subscribe

\* In a session are those with its key that have joined; its count says who is the last.
LEMMA TheLastOne ==
    ASSUME IInv, NEW h \in Handlers, user[h] \in Joined
    PROVE  /\ \A g \in Handlers : g \in handlers[session[h]] <=> user[g] \in Joined /\ key[g] = key[h]
           /\ clients[session[h]] <= 1 <=> handlers[session[h]] = {h}
<1> DEFINE s == session[h]
<1>1. /\ s \in Sessions /\ session_data[key[h]] = s /\ key[h] \in Keys /\ key[s] = key[h]
      /\ h \in handlers[s]
  BY HandlersAssumption DEF IInv, TypeOK, Subscriptions, SessionIsKept, KeysMatch,
     HandlersAreJoined, Joined, Sessions
<1>2. ASSUME NEW g \in Handlers PROVE g \in handlers[s] <=> user[g] \in Joined /\ key[g] = key[h]
  <2>1. ASSUME g \in handlers[s] PROVE user[g] \in Joined /\ key[g] = key[h]
    <3>1. user[g] \in Joined /\ session_data[key[g]] = s /\ key[g] \in Keys
      BY <1>1, <2>1 DEF IInv, TypeOK, Subscriptions, SessionIsKept, HandlersAreJoined
    <3>2. key[s] = key[g]
      BY <1>1, <3>1, HandlersAssumption DEF IInv, Subscriptions, KeysMatch, Sessions
    <3> QED
      BY <1>1, <3>1, <3>2
  <2>2. ASSUME user[g] \in Joined, key[g] = key[h] PROVE g \in handlers[s]
    <3>1. session[g] = s
      BY <1>1, <2>2 DEF IInv, Subscriptions, SessionIsKept
    <3> QED
      BY <1>1, <2>2, <3>1 DEF IInv, Subscriptions, HandlersAreJoined
  <2> QED
    BY <2>1, <2>2
<1>3. clients[s] <= 1 <=> handlers[s] = {h}
  <2>1. IsFiniteSet(handlers[s]) /\ clients[s] = Cardinality(handlers[s])
    BY <1>1, Finite, TypeParts DEF IInv, Subscriptions, ClientsAreHandlers
  <2>2. Cardinality({h}) = 1
    BY FS_Singleton
  <2>3. handlers[s] # {h} => Cardinality(handlers[s]) > 1
    <3>1. IsFiniteSet(handlers[s] \ {h}) /\ Cardinality(handlers[s] \ {h}) = Cardinality(handlers[s]) - 1
      BY <1>1, <2>1, FS_RemoveElement
    <3>2. handlers[s] # {h} => handlers[s] \ {h} # {}
      BY <1>1
    <3>3. handlers[s] \ {h} # {} => Cardinality(handlers[s] \ {h}) > 0
      BY <3>1, FS_EmptySet, FS_CardinalityType
    <3>4. Cardinality(handlers[s]) \in Nat
      BY <2>1, FS_CardinalityType
    <3> QED
      BY <3>1, <3>2, <3>3, <3>4
  <2>4. Cardinality(handlers[s]) \in Nat
    BY <2>1, FS_CardinalityType
  <2> QED
    BY <2>1, <2>2, <2>3, <2>4
<1> QED
  BY <1>2, <1>3

\* With its last subscriber a stream is gone from session_data, and from the round.
LEMMA UnsubscribeStreams ==
    ASSUME IInv, IInv', NEW h \in Handlers, Unsubscribe(h)
    PROVE  /\ [handler |-> h, stream |-> key[h]] \in Subscribed
           /\ Streams!Unsubscribe([handler |-> h, stream |-> key[h]])
<1> DEFINE s == session[h]
           me == [handler |-> h, stream |-> key[h]]
           gone == {StreamOf(me)} \ Streams!StreamsOf(Subscribed \ {me})
<1>0. /\ user[h] = "subscribed" /\ user' = [user EXCEPT ![h] = "unsubscribing"]
      /\ rlock = NoSession
      /\ UNCHANGED <<key, thread, at, visited, ready>>
      /\ IF clients[s] <= 1 THEN RemoveSession(s) ELSE UNCHANGED <<session_data, watched>>
  BY DEF Unsubscribe, UserGo, threadVars, socketVars
<1>1. /\ s \in Sessions /\ session_data[key[h]] = s /\ key[h] \in Keys /\ key[s] = key[h]
      /\ h \in handlers[s]
  BY <1>0, HandlersAssumption DEF IInv, TypeOK, Subscriptions, SessionIsKept, KeysMatch,
     HandlersAreJoined, Joined, Sessions
<1>2. Joining = {} /\ Joining' = {}
  BY <1>0, NobodyJoins DEF Joining, Named, Adding, IInv, TypeOK
<1>3. /\ {g \in Handlers : user[g] \in Joined}' = {g \in Handlers : user[g] \in Joined} \ {h}
      /\ h \in {g \in Handlers : user[g] \in Joined}
  BY <1>0 DEF Joined, IInv, TypeOK
<1>4. me \in Subscribed /\ Subscribed' = Subscribed \ {me}
  BY <1>0, <1>3, JoinedAreSubscribed DEF SubscribedAreJoined, Named
<1>5. /\ \A g \in Handlers : g \in handlers[s] <=> user[g] \in Joined /\ key[g] = key[h]
      /\ clients[s] <= 1 <=> handlers[s] = {h}
  BY <1>0, TheLastOne DEF Joined
<1>6. gone = IF handlers[s] = {h} THEN {key[h]} ELSE {}
  <2>1. key[h] \in Streams!StreamsOf(Subscribed \ {me})
          <=> \E g \in Handlers : g # h /\ user[g] \in Joined /\ key[g] = key[h]
    <3> DEFINE others == {g \in Handlers : g # h /\ user[g] \in Joined}
    <3>1. Subscribed \ {me} = Named(others)
      BY <1>3, JoinedAreSubscribed DEF SubscribedAreJoined, Named
    <3>2. Streams!StreamsOf(Named(others)) = {key[g] : g \in others}
      <4>1. \A m : m \in Named(others) <=>
              \E g \in others : m = [handler |-> g, stream |-> key[g]]
        BY DEF Named
      <4>2. \A x : x \in Streams!StreamsOf(Named(others)) <=> \E m \in Named(others) : x = m.stream
        BY DEF Streams!StreamsOf, StreamOf
      <4> HIDE DEF others
      <4>3. ASSUME NEW x \in Streams!StreamsOf(Named(others)) PROVE \E g \in others : x = key[g]
        <5>1. PICK m \in Named(others) : x = m.stream
          BY ONLY <4>2, <4>3
        <5>2. PICK g \in others : m = [handler |-> g, stream |-> key[g]]
          BY ONLY <4>1, <5>1
        <5> QED
          BY ONLY <5>1, <5>2
      <4>4. ASSUME NEW g \in others PROVE key[g] \in Streams!StreamsOf(Named(others))
        <5>1. [handler |-> g, stream |-> key[g]] \in Named(others)
          BY ONLY <4>1, <4>4
        <5>2. [handler |-> g, stream |-> key[g]].stream = key[g]
          OBVIOUS
        <5> QED
          BY ONLY <4>2, <5>1, <5>2
      <4> QED
        BY ONLY <4>3, <4>4
    <3>3. key[h] \in Streams!StreamsOf(Subscribed \ {me}) <=> \E g \in others : key[h] = key[g]
      BY ONLY <3>1, <3>2
    <3> QED
      BY <3>3
  <2>2. handlers[s] \subseteq Handlers
    BY <1>1 DEF IInv, TypeOK
  <2> QED
    BY <1>1, <1>5, <2>1, <2>2 DEF StreamOf
<1>7. \A r \in Sessions : watched'[r] = "none" <=> watched[r] = "none"
  BY <1>0, CleanKeepsWatched DEF RemoveSession
<1>8. ASSUME NEW S, NoSession \notin S
      PROVE  {k \in Keys : session_data'[k] \in S} = {k \in Keys : session_data[k] \in S} \ gone
  <2>1. CASE handlers[s] = {h}
    <3>1. session_data' = [session_data EXCEPT ![key[h]] = NoSession] /\ gone = {key[h]}
      BY <1>0, <1>1, <1>5, <1>6, <2>1 DEF RemoveSession
    <3>2. session_data \in [Keys -> Sessions \cup {NoSession}]
      BY DEF IInv, TypeOK
    <3> QED
      BY ONLY <1>8, <3>1, <3>2
  <2>2. CASE handlers[s] # {h}
    BY <1>0, <1>5, <1>6, <2>2
  <2> QED
    BY <2>1, <2>2
<1>9. NoSession \notin Sessions
  BY HandlersAssumption DEF Sessions
<1> HIDE DEF gone
<1>10. Watching' = Watching \ gone
  <2> DEFINE S == {r \in Sessions : watched[r] # "none"}
  <2>1. S' = S /\ NoSession \notin S
    BY <1>7, <1>9
  <2>2. {k \in Keys : session_data'[k] \in S} = {k \in Keys : session_data[k] \in S} \ gone
    BY ONLY <2>1, <1>8
  <2> QED
    BY <1>0, <2>1, <2>2 DEF Watching, KeysOf
<1>11. TimingOut' = TimingOut \ gone
  <2>1. CanTimeOut' = CanTimeOut /\ NoSession \notin CanTimeOut
    BY <1>0, <1>7, <1>9 DEF CanTimeOut
  <2>2. /\ {k \in Keys : session_data'[k] \in CanTimeOut}
              = {k \in Keys : session_data[k] \in CanTimeOut} \ gone
        /\ {k \in Keys : session_data'[k] \in CanTimeOut \ visited}
              = {k \in Keys : session_data[k] \in CanTimeOut \ visited} \ gone
    BY <1>8, <2>1
  <2> QED
    BY <1>0, <2>1, <2>2 DEF TimingOut, KeysOf
<1>12. ToReceive' = ToReceive \ gone
  <2> DEFINE S == IF thread \in {"recvfrom", "blocked"} THEN ready \cup {at} ELSE ready
  <2>1. NoSession \notin S
    BY <1>9 DEF IInv, AtIsSession, TypeOK
  <2>2. {k \in Keys : session_data'[k] \in S} = {k \in Keys : session_data[k] \in S} \ gone
    BY ONLY <2>1, <1>8
  <2> QED
    BY <1>0, <2>2 DEF ToReceive, KeysOf
<1> QED
  BY <1>0, <1>2, <1>4, <1>10, <1>11, <1>12 DEF Streams!Unsubscribe, gone
---------------------------------------------------------------------------
(* What is in session_data somebody wants.                                 *)

Wanted ==
    \A k \in Keys : session_data[k] # NoSession =>
        \E h \in Handlers : key[h] = k /\ user[h] \in Adding \cup Joined

LEMMA InitWanted == Init => Wanted
BY DEF Init, Wanted

LEMMA WantedKept ==
    ASSUME IInv, Wanted, [Next]_vars
    PROVE  Wanted'
<1>1. CASE UNCHANGED userVars
  BY <1>1 DEF userVars, Wanted
<1>2. ASSUME NEW h \in Handlers,
             FindSession(h) \/ TestTry(h) \/ OrderTry(h) \/ AddHandler(h) \/ Kick(h)
      PROVE  Wanted'
  <2>1. UNCHANGED <<session_data, key>>
    BY <1>2 DEF FindSession, TestTry, OrderTry, AddHandler, Kick, othersVars
  <2>2. \A g \in Handlers : user[g] \in Adding \cup Joined => user'[g] \in Adding \cup Joined
    BY <1>2 DEF FindSession, TestTry, OrderTry, AddHandler, Kick, UserGo, Adding, Joined, IInv, TypeOK
  <2> QED
    BY <2>1, <2>2 DEF Wanted
<1>3. ASSUME NEW h \in Handlers, NewSession(h) PROVE Wanted'
  <2>1. /\ session_data' = [session_data EXCEPT ![key[h]] = h]
        /\ key' = key
        /\ user[h] = "new" /\ user' = [user EXCEPT ![h] = "try"]
    BY <1>3 DEF NewSession, UserGo, othersVars
  <2>2. \A g \in Handlers : user[g] \in Adding \cup Joined => user'[g] \in Adding \cup Joined
    BY <2>1 DEF Adding, Joined, IInv, TypeOK
  <2>3. user'[h] \in Adding
    BY <2>1 DEF Adding, IInv, TypeOK
  <2>4. ASSUME NEW k \in Keys, session_data'[k] # NoSession, k # key[h]
        PROVE  session_data[k] # NoSession
    BY <2>1, <2>4 DEF IInv, TypeOK
  <2> QED
    BY <2>1, <2>2, <2>3, <2>4 DEF Wanted
<1>4. ASSUME NEW h \in Handlers, Unsubscribe(h) PROVE Wanted'
  <2> DEFINE s == session[h]
  <2>1. /\ user[h] = "subscribed" /\ user' = [user EXCEPT ![h] = "unsubscribing"]
        /\ key' = key
        /\ IF clients[s] <= 1
           THEN session_data' = [session_data EXCEPT ![key[s]] = NoSession]
           ELSE UNCHANGED session_data
    BY <1>4 DEF Unsubscribe, UserGo, RemoveSession
  <2>2. s \in Sessions /\ key[s] = key[h] /\ h \in handlers[s]
    BY <2>1, HandlersAssumption DEF IInv, TypeOK, Subscriptions, SessionIsKept, KeysMatch,
       HandlersAreJoined, Joined, Sessions
  <2>3. \A g \in Handlers \ {h} :
            user[g] \in Adding \cup Joined => user'[g] \in Adding \cup Joined
    BY <2>1 DEF IInv, TypeOK
  <2>4. CASE handlers[s] = {h}
    <3>1. session_data' = [session_data EXCEPT ![key[h]] = NoSession]
      BY <2>1, <2>2, <2>4, TheLastOne DEF Joined
    <3> QED
      BY <2>1, <2>3, <3>1 DEF Wanted, IInv, TypeOK
  <2>5. CASE handlers[s] # {h}
    <3>1. session_data' = session_data
      BY <2>1, <2>5, TheLastOne DEF Joined
    <3>2. PICK g \in Handlers : g # h /\ g \in handlers[s]
      BY <2>2, <2>5 DEF IInv, TypeOK
    <3>3. user[g] \in Joined /\ key[g] = key[h]
      BY <2>1, <3>2, TheLastOne DEF Joined
    <3> QED
      BY <2>1, <2>3, <3>1, <3>2, <3>3 DEF Wanted
  <2> QED
    BY <2>4, <2>5
<1> QED
  BY <1>1, <1>2, <1>3, <1>4, OthersLeaveUsers DEF Subscribing, vars

\* A stream of the round is one that somebody subscribes to.
LEMMA StreamsAreWanted ==
    ASSUME IInv, Wanted, NEW S, NoSession \notin S
    PROVE  KeysOf(S) \subseteq Streams!StreamsOf(Subscribed \cup Joining)
<1> SUFFICES ASSUME NEW k \in Keys, session_data[k] \in S
             PROVE  k \in Streams!StreamsOf(Subscribed \cup Joining)
  BY DEF KeysOf
<1>1. PICK h \in Handlers : key[h] = k /\ user[h] \in Adding \cup Joined
  BY DEF Wanted
<1>2. [handler |-> h, stream |-> key[h]] \in Subscribed \cup Joining
  BY <1>1, JoinedAreSubscribed DEF SubscribedAreJoined, Joining, Named
<1>3. StreamOf([handler |-> h, stream |-> key[h]]) = k
  BY <1>1 DEF StreamOf
<1> QED
  BY <1>2, <1>3 DEF Streams!StreamsOf

\* A user on the way through _try_session_delay, or past the lock.
LEMMA PassingStreams ==
    ASSUME IInv, IInv', NEW h \in Handlers, TestTry(h) \/ OrderTry(h) \/ Kick(h)
    PROVE  UNCHANGED Streams!vars
<1>1. UNCHANGED <<session_data, key, handlers, thread, at, visited, ready, watched>>
  BY DEF TestTry, OrderTry, Kick, othersVars, socketVars, threadVars
<1>2. {g \in Handlers : user[g] \in Adding}' = {g \in Handlers : user[g] \in Adding}
  BY DEF TestTry, OrderTry, Kick, UserGo, Adding, IInv, TypeOK
<1>3. Joining' = Joining /\ Subscribed' = Subscribed
  BY <1>1, <1>2 DEF Joining, Subscribed, Named, Values
<1> QED
  BY <1>1, <1>3, RoundStays DEF Streams!vars, Streams!users

\* Timers.
LEMMA TimersStreams ==
    ASSUME IInv, NEW t \in Sessions, Starting(t)
    PROVE  UNCHANGED Streams!vars
<1>1. UNCHANGED <<userVars, threadVars, key>>
  BY TimersKeepWatched DEF Starting, OpenUDP, Activate, StartFails, ForgetTry, ForgetTwice,
     TimerKick, userVars
<1> QED
  BY <1>1, TimersKeepWatched, RoundStays, UsersStay DEF Streams!vars, userVars, threadVars
---------------------------------------------------------------------------
(* The thread.                                                             *)

\* The part of the round that says nothing of streams: sessions to order, sockets to take.
LEMMA OrderStreams ==
    ASSUME IInv,
           \/ ThreadTestTry \/ ThreadOrderTry \/ EndOrders
           \/ \E s \in Sessions : LookForOrder(s) \/ TakeSocket(s)
    PROVE  UNCHANGED Streams!vars
<1> DEFINE First == {"orders", "test", "order", "sockets"}
<1>1. thread \in First /\ thread' \in First /\ UNCHANGED <<userVars, key, ready>>
  <2>1. CASE ThreadTestTry \/ ThreadOrderTry \/ EndOrders
    BY <2>1 DEF ThreadTestTry, ThreadOrderTry, EndOrders, Exhausted, restVars, userVars
  <2>2. ASSUME NEW s \in Sessions, LookForOrder(s) \/ TakeSocket(s)
        PROVE  thread \in First /\ thread' \in First /\ UNCHANGED <<userVars, key, ready>>
    BY <2>2 DEF LookForOrder, TakeSocket, Fetch, restVars, userVars
  <2> QED
    BY <2>1, <2>2
<1>2. Phase[thread'] = Phase[thread]
  BY <1>1 DEF Phase
<1>3. Watching = {} /\ Watching' = {} /\ TimingOut = {} /\ TimingOut' = {}
  BY <1>1 DEF Watching, TimingOut
<1>4. ToReceive' = ToReceive
  BY <1>1 DEF ToReceive, KeysOf, userVars
<1> QED
  BY <1>1, <1>2, <1>3, <1>4, UsersStay DEF Streams!vars

\* The sockets of the round are those of sessions somebody subscribes to.
LEMMA SocketsStreams ==
    ASSUME IInv, Wanted, EndSockets
    PROVE  Streams!TakeSockets
<1>1. /\ thread = "sockets" /\ thread' = "handlers"
      /\ UNCHANGED <<userVars, key, ready, session_data, watched>>
  BY DEF EndSockets, Exhausted, restVars, userVars, socketVars
<1>2. NoSession \notin {s \in Sessions : watched[s] # "none"}
  BY HandlersAssumption DEF Sessions
<1>3. Watching' \subseteq Streams!StreamsOf(Subscribed \cup Joining)
  BY <1>1, <1>2, StreamsAreWanted DEF Watching, KeysOf
<1>4. TimingOut = {} /\ TimingOut' = {} /\ ToReceive' = ToReceive
  BY <1>1 DEF TimingOut, ToReceive, KeysOf
<1> QED
  BY <1>1, <1>3, <1>4, UsersStay DEF Streams!TakeSockets, Streams!Step, Phase

\* Of these, all but the ports can time out.
LEMMA HandlersStreams ==
    ASSUME IInv, TakeHandlers
    PROVE  Streams!TakeHandlers
<1>1. /\ thread = "handlers" /\ thread' = "call"
      /\ UNCHANGED <<userVars, key, ready, session_data, watched>>
  BY DEF TakeHandlers, restVars, userVars, socketVars
<1>2. KeysOf(CanTimeOut) = KeysOf({s \in Sessions : watched[s] # "none"}) \ Ports
  <2>1. ASSUME NEW k \in Keys, session_data[k] \in Sessions PROVE key[session_data[k]] = k
    BY <2>1, HandlersAssumption DEF IInv, Subscriptions, KeysMatch, Sessions
  <2> QED
    BY <2>1 DEF KeysOf, CanTimeOut
<1>3. Watching' = Watching /\ TimingOut' = Watching \ Ports /\ ToReceive' = ToReceive
  BY <1>1, <1>2 DEF Watching, TimingOut, CanTimeOut, ToReceive, KeysOf
<1> QED
  BY <1>1, <1>3, UsersStay DEF Streams!TakeHandlers, Streams!Step, Phase

\* What ends the thread: an iteration over what changed, or a closed socket for select.
LEMMA DeathStreams ==
    ASSUME IInv, SizeChanged \/ CallSelect
    PROVE  Streams!Die \/ UNCHANGED Streams!vars
<1>1. UNCHANGED <<userVars, key, ready, session_data>>
  BY DEF SizeChanged, CallSelect, restVars, userVars
<1>2. CASE ThreadDies
  <2>1. /\ thread \in {"orders", "sockets", "handlers", "call"} /\ thread' = "dead"
    BY <1>2 DEF SizeChanged, CallSelect, ThreadDies
  <2>2. Phase[thread] \in {"sockets", "handlers", "select"} /\ Phase[thread'] = "dead"
    BY <2>1 DEF Phase
  <2>3. Watching' = {} /\ TimingOut' = {} /\ ToReceive' = ToReceive
    BY <1>1, <2>1 DEF Watching, TimingOut, ToReceive, KeysOf
  <2> QED
    BY <1>1, <2>2, <2>3, UsersStay DEF Streams!Die
<1>3. CASE ~ThreadDies
  <2>1. thread = "call" /\ thread' = "select" /\ watched' = watched
    BY <1>3 DEF SizeChanged, CallSelect
  <2>2. Phase[thread'] = Phase[thread]
    BY <2>1 DEF Phase
  <2>3. Watching' = Watching /\ TimingOut' = TimingOut /\ ToReceive' = ToReceive
    BY <1>1, <2>1 DEF Watching, TimingOut, CanTimeOut, ToReceive, KeysOf
  <2> QED
    BY <1>1, <2>2, <2>3, UsersStay DEF Streams!vars
<1> QED
  BY <1>2, <1>3

LEMMA WakeStreams ==
    ASSUME IInv, NEW received \in SUBSET Sessions, Wake(received)
    PROVE  Streams!Select
<1>1. /\ thread = "select" /\ thread' = "timeouts"
      /\ UNCHANGED <<userVars, key, session_data, watched>>
      /\ visited' = {} /\ ready' = received
      /\ received \subseteq {s \in Sessions : watched[s] # "none"}
  BY DEF Wake, userVars, socketVars
<1>2. CanTimeOut' = CanTimeOut
  BY <1>1 DEF CanTimeOut
<1>3. Watching' = {} /\ TimingOut' = TimingOut
  BY <1>1, <1>2 DEF Watching, TimingOut, KeysOf
<1>4. ToReceive' \subseteq Watching
  BY <1>1 DEF ToReceive, Watching, KeysOf
<1> QED
  BY <1>1, <1>3, <1>4, UsersStay DEF Streams!Select, Streams!Step, Phase

\* A session has no key but its own in session_data.
LEMMA OneKey ==
    ASSUME IInv, NEW s \in Sessions, NEW S, NoSession \notin S
    PROVE  KeysOf(S \ {s}) = IF Registered(s) THEN KeysOf(S) \ {key[s]} ELSE KeysOf(S)
<1>1. key[s] \in Keys /\ s # NoSession
  BY HandlersAssumption DEF IInv, TypeOK, Sessions
<1>2. \A k \in Keys : session_data[k] = s => key[s] = k
  BY <1>1 DEF IInv, Subscriptions, KeysMatch
<1> QED
  BY <1>1, <1>2 DEF KeysOf, Registered

\* The timeout of a session that was removed is no stream's.
LEMMA TimeoutStreams ==
    ASSUME IInv, NEW s \in Sessions, SessionTimeout(s)
    PROVE  \/ key[s] \in TimingOut /\ Streams!SessionTimeout(key[s])
           \/ UNCHANGED Streams!vars
<1>1. /\ thread = "timeouts" /\ thread' = thread
      /\ s \in CanTimeOut \ visited /\ visited' = visited \cup {s}
      /\ UNCHANGED <<userVars, key, ready, session_data, at>>
  BY DEF SessionTimeout, restVars, userVars
<1>2. CanTimeOut' = CanTimeOut
  BY <1>1, CleanKeepsWatched DEF SessionTimeout, CanTimeOut
<1>3. TimingOut = KeysOf(CanTimeOut \ visited) /\ TimingOut' = KeysOf((CanTimeOut \ visited) \ {s})
  <2>1. CanTimeOut \ (visited \cup {s}) = (CanTimeOut \ visited) \ {s}
    OBVIOUS
  <2> QED
    BY <1>1, <1>2, <2>1 DEF TimingOut, KeysOf
<1>4. NoSession \notin CanTimeOut \ visited
  BY HandlersAssumption DEF CanTimeOut, Sessions
<1>5. TimingOut' = IF Registered(s) THEN TimingOut \ {key[s]} ELSE TimingOut
  BY <1>3, <1>4, OneKey
<1>6. Watching = {} /\ Watching' = {} /\ ToReceive' = ToReceive
  BY <1>1 DEF Watching, ToReceive, KeysOf
<1>7. Registered(s) => key[s] \in TimingOut
  BY <1>1, <1>3 DEF KeysOf, Registered, IInv, TypeOK, Sessions
<1> QED
  BY <1>1, <1>5, <1>6, <1>7, UsersStay DEF Streams!SessionTimeout, Streams!vars, Phase

LEMMA EndTimeoutsStreams ==
    ASSUME IInv, EndTimeouts
    PROVE  Streams!EndTimeouts
<1>1. /\ thread = "timeouts" /\ thread' = "receive"
      /\ UNCHANGED <<userVars, key, ready, session_data>>
  BY DEF EndTimeouts, restVars, userVars
<1>2. Watching = {} /\ Watching' = {} /\ TimingOut' = {} /\ ToReceive' = ToReceive
  BY <1>1 DEF Watching, TimingOut, ToReceive, KeysOf
<1> QED
  BY <1>1, <1>2, UsersStay DEF Streams!EndTimeouts, Streams!Step, Phase

\* A socket is done with: of a stream of the round, or of a session that is none any more.
LEMMA ReceiveStreams ==
    ASSUME IInv, Receive \/ Unblock \/ \E s \in Sessions : LookAtSocket(s)
    PROVE  (\E k \in ToReceive : Streams!TakeReady(k)) \/ UNCHANGED Streams!vars
<1> DEFINE Last == {"receive", "recvfrom", "blocked"}
           Taken0 == IF thread \in {"recvfrom", "blocked"} THEN ready \cup {at} ELSE ready
<1>1. thread \in Last /\ thread' \in Last /\ UNCHANGED <<userVars, key, session_data>>
  <2>1. CASE Receive \/ Unblock
    BY <2>1 DEF Receive, Unblock, restVars, userVars
  <2>2. ASSUME NEW s \in Sessions, LookAtSocket(s)
        PROVE  thread \in Last /\ thread' \in Last /\ UNCHANGED <<userVars, key, session_data>>
    BY <2>2 DEF LookAtSocket, restVars, userVars
  <2> QED
    BY <2>1, <2>2
<1>2. Phase[thread] = "receive" /\ Phase[thread'] = "receive"
  BY <1>1 DEF Phase
<1>3. Watching = {} /\ Watching' = {} /\ TimingOut = {} /\ TimingOut' = {}
  BY <1>1 DEF Watching, TimingOut
<1>4. NoSession \notin Taken0
  BY HandlersAssumption DEF IInv, TypeOK, AtIsSession, Sessions
<1>5. Taken0' = Taken0 \/ \E s \in Taken0 \cap Sessions : Taken0' = Taken0 \ {s}
  <2>1. CASE Receive
    <3>1. thread = "recvfrom" /\ at \in Sessions /\ ready' = ready
      BY <2>1 DEF Receive, IInv, AtIsSession
    <3>2. thread' \in {"receive", "blocked"} /\ (thread' = "blocked" => at' = at)
      BY <2>1 DEF Receive
    <3> QED
      BY <3>1, <3>2
  <2>2. CASE Unblock
    <3>1. thread = "blocked" /\ thread' = "receive" /\ at \in Sessions /\ ready' = ready
      BY <2>2 DEF Unblock, IInv, AtIsSession
    <3> QED
      BY <3>1
  <2>3. ASSUME NEW s \in Sessions, LookAtSocket(s)
        PROVE  Taken0' = Taken0 \/ (s \in Taken0 /\ Taken0' = Taken0 \ {s})
    BY <2>3 DEF LookAtSocket
  <2> QED
    BY <2>1, <2>2, <2>3
<1>6. ToReceive = KeysOf(Taken0) /\ ToReceive' = KeysOf(Taken0')
  BY <1>1 DEF ToReceive, KeysOf
<1>7. CASE Taken0' = Taken0
  BY <1>1, <1>2, <1>3, <1>6, <1>7, UsersStay DEF Streams!vars
<1>8. ASSUME NEW s \in Taken0 \cap Sessions, Taken0' = Taken0 \ {s}
      PROVE  (\E k \in ToReceive : Streams!TakeReady(k)) \/ UNCHANGED Streams!vars
  <2>1. ToReceive' = IF Registered(s) THEN ToReceive \ {key[s]} ELSE ToReceive
    BY <1>4, <1>6, <1>8, OneKey
  <2>2. Registered(s) => key[s] \in ToReceive
    BY <1>6 DEF KeysOf, Registered, IInv, TypeOK, Sessions
  <2> QED
    BY <1>1, <1>2, <1>3, <2>1, <2>2, UsersStay DEF Streams!TakeReady, Streams!vars
<1> QED
  BY <1>5, <1>7, <1>8

LEMMA EndReceiveStreams ==
    ASSUME IInv, EndReceive
    PROVE  Streams!EndRound
<1>1. /\ thread = "receive" /\ thread' = "orders" /\ ready = {} /\ ready' = {}
      /\ UNCHANGED <<userVars, key, session_data>>
  BY DEF EndReceive, restVars, userVars
<1>2. /\ Watching = {} /\ Watching' = {} /\ TimingOut = {} /\ TimingOut' = {}
      /\ ToReceive = {} /\ ToReceive' = {}
  BY <1>1 DEF Watching, TimingOut, ToReceive, KeysOf
<1> QED
  BY <1>1, <1>2, UsersStay DEF Streams!EndRound, Streams!Step, Phase

---------------------------------------------------------------------------
\* Every step of the loop is one of the streams, or none of their business.
LEMMA StepStreams ==
    ASSUME IInv, IInv', Fresh, Wanted, [Next]_vars
    PROVE  [Streams!Next]_(Streams!vars)
<1>1. ASSUME NEW h \in Handlers, Subscribing(h) \/ Kick(h) \/ Unsubscribe(h)
      PROVE  [Streams!Next]_(Streams!vars)
  <2>1. [handler |-> h, stream |-> key[h]] \in Subscribers
    BY DEF Subscribers, IInv, TypeOK
  <2>2. CASE FindSession(h) \/ NewSession(h)
    BY <2>1, <2>2, BeginStreams DEF Streams!Next
  <2>3. CASE AddHandler(h)
    BY <2>3, SubscribeStreams DEF Streams!Next
  <2>4. CASE Unsubscribe(h)
    BY <2>4, UnsubscribeStreams DEF Streams!Next
  <2>5. CASE TestTry(h) \/ OrderTry(h) \/ Kick(h)
    BY <2>5, PassingStreams
  <2> QED
    BY <1>1, <2>2, <2>3, <2>4, <2>5 DEF Subscribing
<1>2. ASSUME NEW s \in Sessions, Starting(s) \/ SessionTimeout(s)
      PROVE  [Streams!Next]_(Streams!vars)
  BY <1>2, TimersStreams, TimeoutStreams DEF Streams!Next, Streams!Round
<1>3. ASSUME NEW received \in SUBSET Sessions, Wake(received)
      PROVE  [Streams!Next]_(Streams!vars)
  BY <1>3, WakeStreams DEF Streams!Next, Streams!Round
<1>4. ASSUME Round \/ Unblock PROVE [Streams!Next]_(Streams!vars)
  BY <1>4, OrderStreams, SocketsStreams, HandlersStreams, DeathStreams, EndTimeoutsStreams,
     ReceiveStreams, EndReceiveStreams DEF Round, Streams!Next, Streams!Round
<1>5. CASE UNCHANGED vars
  <2>1. UNCHANGED <<userVars, key, session_data, thread, at, visited, ready, watched>>
    BY <1>5 DEF vars, userVars, socketVars, threadVars
  <2> QED
    BY <2>1, UsersStay, RoundStays DEF Streams!vars
<1> QED
  BY <1>1, <1>2, <1>3, <1>4, <1>5 DEF Next

\* However users, timers and the thread interleave, the loop implements one stream per
\* session: who has the lock joins or leaves it alone, the thread goes round with streams
\* that somebody is subscribed to or about to be, and what is left of sessions that were
\* removed, in the thread's hands or a timer's, is in nobody's way (lines 171-439).
THEOREM LoopImplementsStreams == Spec => ImplementsStreams
<1>1. Init => IInv /\ Wanted
  BY InitHolds, InitWanted
<1>2. Init => Fresh
  BY HandlersAssumption DEF Init, Fresh, Values, Sessions
<1>3. IInv /\ Fresh /\ Wanted /\ [Next]_vars => (IInv /\ Fresh /\ Wanted)'
  BY StepHolds, FreshKept, WantedKept
<1>4. IInv /\ IInv' /\ Fresh /\ Wanted /\ [Next]_vars => [Streams!Next]_(Streams!vars)
  BY StepStreams
<1> QED
  BY <1>1, <1>2, <1>3, <1>4, InitStreams, PTL DEF Spec, ImplementsStreams, Streams!Spec
=============================================================================
