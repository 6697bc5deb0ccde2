------------------------ MODULE MonitorSessionsProofs ------------------------
(***************************************************************************)
(* Proofs about MonitorSessions, for any number of gateways, sessions,     *)
(* ports and starts.                                                       *)
(*                                                                         *)
(* There are four invariants, each on top of the types: which handlers     *)
(* have been made (Made), what start and stop have left (Undo), whom the   *)
(* round may call (Calls), and what decode_data keeps (Cache).  What a     *)
(* timer tells is of no consequence to them.                               *)
(***************************************************************************)
EXTENDS MonitorSessions, FiniteSetTheorems, TLAPS

Mine(o) == {h \in subscribed : h.owner = o}

\* A handler of an earlier start, or of this one for a gateway that is done with.
IsMade(h) ==
    \/ h.nr < starts[h.owner]
    \/ /\ h.nr = starts[h.owner]
       /\ call[h.owner] = "start" => h.gateway \notin todo[h.owner]

Made ==
    /\ \A s \in MonitorSessions : ips[s] \subseteq gateways[s]
    /\ \A o \in Objects : call[o] = "start" => todo[o] \subseteq Names(o)
    /\ \A o \in Objects : call[o] = "none" => todo[o] = {}
    /\ \A h \in subscribed : IsMade(h) /\ h.gateway \in Names(h.owner)
    /\ \A o \in Objects : \A h \in subscription_handlers[o] : IsMade(h)
    /\ \A h \in gone : IsMade(h)
    /\ \A h \in joining :
         call[h.owner] = "start" /\ h.gateway \in todo[h.owner] /\ h.nr = starts[h.owner]

\* What has been started is subscribed, and known to its object; unless restarted,
\* an object knows all its handlers, and stop finds them subscribed or has none.
Begun(o) ==
    call[o] = "start" => \A g \in Names(o) \ todo[o] :
        [owner |-> o, gateway |-> g, nr |-> starts[o]] \in Mine(o) \cap subscription_handlers[o]
UndoOf(o) ==
    /\ Mine(o) \subseteq subscription_handlers[o]
    /\ call[o] = "none" => subscription_handlers[o] = {}
    /\ call[o] = "start" /\ (o \in MonitorSessions \/ todo[o] = {}) =>
         subscription_handlers[o] \subseteq Mine(o)
    /\ call[o] = "start" /\ o \notin MonitorSessions /\ todo[o] # {} => Mine(o) = {}
    /\ call[o] = "stop" =>
         /\ Mine(o) \subseteq todo[o]
         /\ Mine(o) = {} \/ todo[o] \subseteq Mine(o)
Undo == \A o \in Objects : Begun(o) /\ (o \notin restarted => UndoOf(o))

Calls ==
    /\ gone \cap (subscribed \cup to_call \cup timeout_handlers) = {}
    /\ thread \in {"sockets", "handlers", "select"} => to_call = {}
    /\ thread \in {"timeouts", "receive", "sockets"} => timeout_handlers = {}
    /\ packet # NoPacket => to_call # {}

\* What is kept as valid is of a packet decoded at this time, of which there is one: an
\* earlier one, or the one at hand.
Kept ==
    /\ \A g \in Gateways : decoded_data_cache[g].valid => decoded_data_cache[g].from = g
    /\ \A g \in Gateways : decoded_data_cache[g].valid
         <=> g \in came \/ (packet.decoded /\ packet.from = g)
    /\ packet.decoded => packet.from \notin came

Cache ==
    /\ Kept
    /\ \A h \in to_call \cup timeout_handlers : h.gateway \in Names(h.owner)
    /\ packet # NoPacket =>
         \A h \in to_call : h.gateway \in {packet.from, NoGateway}
    /\ DataIsOfThisTime

IInv == TypeOK /\ Made /\ Undo /\ Calls /\ Cache

\* The sets of streams of a round.
StreamSets == <<watched, timeout_sessions, recv_socks, cleaned>>
StreamTypes ==
    /\ watched \subseteq Streams /\ timeout_sessions \subseteq Streams
    /\ recv_socks \subseteq Streams /\ cleaned \subseteq Streams

---------------------------------------------------------------------------
\* A session names gateways it is on, a port none.
LEMMA NamesAreGateways ==
    ASSUME TypeOK, Made, NEW o \in Objects
    PROVE  /\ Names(o) \subseteq Gateways \cup {NoGateway}
           /\ o \in MonitorSessions =>
                Names(o) \subseteq gateways[o] /\ NoGateway \notin Names(o)
           /\ o \notin MonitorSessions => o \in MonitorPorts /\ Names(o) = {NoGateway}
BY ObjectsAssumption, NoGatewayAssumption DEF TypeOK, Made, Names, Objects

\* At first nothing is subscribed, called or cached.
LEMMA InitHolds == Init => IInv
<1> SUFFICES ASSUME Init PROVE IInv
  OBVIOUS
<1>1. TypeOK
  <2>1. /\ ips \in [MonitorSessions -> SUBSET Gateways]
        /\ starts \in [Objects -> Nat]
        /\ call \in [Objects -> {"none", "start", "stop"}]
        /\ subscription_handlers \in [Objects -> SUBSET Handler]
        /\ DOMAIN todo = Objects
        /\ \A o \in Objects : todo[o] = {} /\ subscription_handlers[o] = {} /\ call[o] = "none"
    BY DEF Init
  <2>2. \A p \in MonitorPorts : Cardinality(subscription_handlers[p]) <= 1
    BY <2>1, FS_EmptySet DEF Objects
  <2>3. decoded_data_cache \in [Gateways -> Decoded]
    BY DEF Init, Decoded, Nothing
  <2> QED
    BY <2>1, <2>2, <2>3 DEF Init, Loop!Init, TypeOK
<1>2. Made /\ Undo /\ Calls
  BY DEF Init, Loop!Init, Made, Undo, Begun, UndoOf, Calls, Mine
<1>3. Cache
  BY DEF Init, Cache, Kept, Nothing, NoPacket, DataIsOfThisTime
<1> QED
  BY <1>1, <1>2, <1>3 DEF IInv

---------------------------------------------------------------------------
\* What a step of one object does not touch of another.
LEMMA OtherObject ==
    ASSUME NEW q \in Objects, Begun(q), q \notin restarted => UndoOf(q),
           call'[q] = call[q], todo'[q] = todo[q], starts'[q] = starts[q],
           subscription_handlers'[q] = subscription_handlers[q],
           Names(q)' = Names(q), Mine(q)' = Mine(q),
           q \notin restarted' => q \notin restarted
    PROVE  Begun(q)' /\ (q \notin restarted' => UndoOf(q)')
BY DEF Begun, UndoOf

\* What the round leaves to the users.
LEMMA RoundKeeps ==
    ASSUME IInv, UNCHANGED <<userVars, joining, subscribed>>
    PROVE  /\ \A o \in Objects : Names(o)' = Names(o)
           /\ \A h : IsMade(h)' <=> IsMade(h)
           /\ (\A h \in gone' : IsMade(h)) => Made'
           /\ Undo'
<1>0. UNCHANGED <<ips, starts, call, todo, subscription_handlers, restarted, joining,
                 subscribed>>
  BY DEF userVars
<1>1. \A o \in Objects : Names(o)' = Names(o)
  BY <1>0 DEF Names
<1>2. \A h : IsMade(h)' <=> IsMade(h)
  BY <1>0 DEF IsMade
<1>3. (\A h \in gone' : IsMade(h)) => Made'
  BY <1>0 DEF IInv, Made, IsMade, Names
<1>4. Undo'
  BY <1>0 DEF IInv, Undo, Begun, UndoOf, Mine, Names
<1> QED
  BY <1>1, <1>2, <1>3, <1>4

---------------------------------------------------------------------------
(* Users.                                                                  *)

\* start makes a new number, which no handler has.
LEMMA StartHolds ==
    ASSUME IInv, NEW o \in Objects, Start(o)
    PROVE  IInv'
<1>0. /\ todo[o] = {}
      /\ starts' = [starts EXCEPT ![o] = @ + 1]
      /\ call' = [call EXCEPT ![o] = "start"]
      /\ todo' = [todo EXCEPT ![o] = Names(o)]
      /\ restarted' = restarted \/ restarted' = restarted \cup {o}
      /\ o \notin restarted' => Undoable(o)
      /\ UNCHANGED <<ips, subscription_handlers, joining, subscribed, thread, StreamSets,
                     timeout_handlers, packet, to_call, ip_to_hostname, decoded_data_cache,
                     telling, given, came, gone>>
  BY DEF Start, Free, loopVars, othersVars, callVars, dataVars, StreamSets
<1>n. \A q \in Objects : Names(q)' = Names(q)
  BY <1>0 DEF Names
<1>1. TypeOK'
  <2>1. \A q \in Objects :
          todo'[q] \subseteq IF call'[q] = "stop" THEN subscription_handlers'[q]
                             ELSE Gateways \cup {NoGateway}
    BY <1>0, NamesAreGateways DEF IInv, TypeOK
  <2> QED
    BY <1>0, <2>1 DEF IInv, TypeOK, StreamSets
<1>2. Made'
  <2>1. ASSUME NEW h \in Handler, IsMade(h) PROVE IsMade(h)'
    BY <1>0, <2>1 DEF IInv, TypeOK, IsMade, Handler
  <2>2. \A q \in Objects : call'[q] = "start" => todo'[q] \subseteq Names(q)'
    BY <1>0, <1>n DEF IInv, TypeOK, Made
  <2>3. \A q \in Objects : call'[q] = "none" => todo'[q] = {}
    BY <1>0 DEF IInv, TypeOK, Made
  <2>4. \A h \in subscribed' : IsMade(h)' /\ h.gateway \in Names(h.owner)'
    <3> SUFFICES ASSUME NEW h \in subscribed PROVE IsMade(h)' /\ h.gateway \in Names(h.owner)'
      BY <1>0
    <3>1. h \in Handler /\ h.owner \in Objects /\ IsMade(h) /\ h.gateway \in Names(h.owner)
      BY DEF IInv, TypeOK, Made, Handler
    <3> QED
      BY <3>1, <2>1, <1>n
  <2>5. \A q \in Objects : \A h \in subscription_handlers'[q] : IsMade(h)'
    <3> SUFFICES ASSUME NEW q \in Objects, NEW h \in subscription_handlers[q] PROVE IsMade(h)'
      BY <1>0
    <3>1. h \in Handler /\ IsMade(h)
      BY DEF IInv, TypeOK, Made
    <3> QED
      BY <3>1, <2>1
  <2>6. \A h \in gone' : IsMade(h)'
    <3> SUFFICES ASSUME NEW h \in gone PROVE IsMade(h)'
      BY <1>0
    <3>1. h \in Handler /\ IsMade(h)
      BY DEF IInv, TypeOK, Made
    <3> QED
      BY <3>1, <2>1
  <2>7. ASSUME NEW h \in joining'
        PROVE  /\ call'[h.owner] = "start" /\ h.gateway \in todo'[h.owner]
               /\ h.nr = starts'[h.owner]
    <3>1. h.owner \in Objects /\ h.owner # o
      BY <1>0 DEF IInv, TypeOK, Made, Handler
    <3> QED
      BY <1>0, <3>1 DEF IInv, TypeOK, Made
  <2> QED
    BY <1>0, <2>2, <2>3, <2>4, <2>5, <2>6, <2>7 DEF IInv, Made
<1>3. Undo'
  <2> SUFFICES ASSUME NEW q \in Objects PROVE Begun(q)' /\ (q \notin restarted' => UndoOf(q)')
    BY DEF Undo
  <2>0. Begun(q) /\ (q \notin restarted => UndoOf(q)) /\ Mine(q)' = Mine(q)
    BY <1>0 DEF IInv, Undo, Mine
  <2>1. ASSUME q # o PROVE Begun(q)' /\ (q \notin restarted' => UndoOf(q)')
    <3>1. /\ call'[q] = call[q] /\ todo'[q] = todo[q] /\ starts'[q] = starts[q]
          /\ q \notin restarted' => q \notin restarted
      BY <1>0, <2>1 DEF IInv, TypeOK
    <3> QED
      BY <1>0, <1>n, <2>0, <3>1, OtherObject
  <2>2. ASSUME q = o PROVE Begun(q)' /\ (q \notin restarted' => UndoOf(q)')
    <3>1. /\ call'[q] = "start" /\ todo'[q] = Names(q) /\ Names(q)' = Names(q)
          /\ subscription_handlers'[q] = subscription_handlers[q]
      BY <1>0, <1>n, <2>2 DEF IInv, TypeOK, Names
    <3>2. Begun(q)'
      <4>1. Names(q)' \ todo'[q] = {}
        BY <3>1
      <4> QED
        BY <4>1 DEF Begun
    <3>3. ASSUME q \notin restarted' PROVE UndoOf(q)'
      <4>1. UndoOf(q) /\ Undoable(q)
        BY <1>0, <2>0, <2>2, <3>3
      <4>2. q \in MonitorSessions => subscription_handlers[q] \subseteq Mine(q)
        BY <4>1 DEF Undoable, Mine, IInv, TypeOK
      <4>3. q \notin MonitorSessions => Mine(q) = {}
        BY <4>1 DEF Undoable, Mine, UndoOf
      <4>4. Names(q) # {} \/ q \in MonitorSessions
        BY DEF Names
      <4> QED
        BY <2>0, <3>1, <4>1, <4>2, <4>3, <4>4 DEF UndoOf
    <3> QED
      BY <3>2, <3>3
  <2> QED
    BY <2>1, <2>2
<1>4. Calls'
  BY <1>0 DEF IInv, Calls
<1>5. Cache'
  <2>1. \A h \in to_call \cup timeout_handlers : h.owner \in Objects
    BY DEF IInv, TypeOK, Handler
  <2> QED
    BY <1>0, <1>n, <2>1 DEF IInv, Cache, Kept, DataIsOfThisTime
<1> QED
  BY <1>1, <1>2, <1>3, <1>4, <1>5 DEF IInv

\* Who joins is about to be made.
LEMMA BeginHolds ==
    ASSUME IInv, NEW o \in Objects, NEW g \in Gateways \cup {NoGateway}, Begin(o, g)
    PROVE  IInv'
<1> DEFINE new == [owner |-> o, gateway |-> g, nr |-> starts[o]]
<1>0. /\ call[o] = "start" /\ g \in todo[o]
      /\ joining' = {new}
      /\ UNCHANGED <<ips, starts, call, todo, subscription_handlers, restarted, subscribed,
                     thread, StreamSets, timeout_handlers, packet, to_call, ip_to_hostname,
                     decoded_data_cache, telling, given, came, gone>>
  BY DEF Begin, Loop!Begin, userVars, othersVars, callVars, dataVars, StreamSets
<1>1. TypeOK'
  <2>1. new \in Handler
    BY DEF IInv, TypeOK, Handler
  <2> QED
    BY <1>0, <2>1 DEF IInv, TypeOK, StreamSets
<1>2. Made'
  BY <1>0 DEF IInv, Made, IsMade, Names
<1>3. Undo'
  BY <1>0 DEF IInv, Undo, Begun, UndoOf, Mine, Names
<1>4. Calls' /\ Cache'
  BY <1>0 DEF IInv, Calls, Cache, Kept, DataIsOfThisTime, Names
<1> QED
  BY <1>1, <1>2, <1>3, <1>4 DEF IInv

\* The handler is new, and known to its object.
LEMMA SubscribeHolds ==
    ASSUME IInv, NEW new \in joining, Subscribe(new)
    PROVE  IInv'
<1> DEFINE o == new.owner
           g == new.gateway
<1>j. /\ new \in Handler /\ o \in Objects /\ g \in Gateways \cup {NoGateway}
      /\ new = [owner |-> o, gateway |-> g, nr |-> starts[o]]
      /\ call[o] = "start" /\ g \in todo[o]
  BY DEF IInv, TypeOK, Made, Handler
<1>0. /\ call[o] = "start"
      /\ g \in todo[o]
      /\ todo' = [todo EXCEPT ![o] = @ \ {g}]
      /\ joining' = joining \ {new}
      /\ subscribed' = subscribed \cup {new}
      /\ subscription_handlers' = [subscription_handlers EXCEPT
           ![o] = IF o \in MonitorSessions THEN @ \cup {new} ELSE {new}]
      /\ UNCHANGED <<ips, starts, call, restarted, thread, StreamSets, timeout_handlers,
                     packet, to_call, ip_to_hostname, decoded_data_cache, telling, given,
                     came, gone>>
  BY <1>j DEF Subscribe, Loop!Subscribe, othersVars, callVars, dataVars, StreamSets
<1>n. \A q \in Objects : Names(q)' = Names(q)
  BY <1>0 DEF Names
<1>h. new \in Handler /\ g \in Names(o)
  BY <1>0, <1>j DEF IInv, Made
<1>f. ~IsMade(new)
  BY <1>0, <1>j DEF IInv, TypeOK, IsMade
<1>m. \A h : h = new => IsMade(h)'
  BY <1>0, <1>j DEF IInv, TypeOK, IsMade
<1>o. /\ todo'[o] = todo[o] \ {g}
      /\ subscription_handlers'[o] =
           IF o \in MonitorSessions THEN subscription_handlers[o] \cup {new} ELSE {new}
      /\ \A q \in Objects \ {o} :
           todo'[q] = todo[q] /\ subscription_handlers'[q] = subscription_handlers[q]
  BY <1>0, <1>j DEF IInv, TypeOK
<1>1. TypeOK'
  <2>1. \A q \in Objects : todo'[q] \subseteq todo[q] /\ call'[q] = call[q]
    BY <1>0, <1>o
  <2>2. \A q \in Objects :
          todo'[q] \subseteq IF call'[q] = "stop" THEN subscription_handlers'[q]
                             ELSE Gateways \cup {NoGateway}
    BY <1>0, <1>o, <2>1 DEF IInv, TypeOK
  <2>3. subscription_handlers' \in [Objects -> SUBSET Handler] /\ subscribed' \subseteq Handler
    BY <1>0, <1>h DEF IInv, TypeOK
  <2>4. \A q \in Objects : \A h \in subscription_handlers'[q] : h.owner = q
    BY <1>o DEF IInv, TypeOK
  <2>5. \A p \in MonitorPorts : Cardinality(subscription_handlers'[p]) <= 1
    <3> SUFFICES ASSUME NEW p \in MonitorPorts PROVE Cardinality(subscription_handlers'[p]) <= 1
      OBVIOUS
    <3>1. p \in Objects /\ (p = o => o \notin MonitorSessions)
      BY ObjectsAssumption DEF Objects
    <3>2. Cardinality({new}) = 1
      BY FS_Singleton
    <3> QED
      BY <1>o, <3>1, <3>2 DEF IInv, TypeOK
  <2>6. DOMAIN todo' = Objects /\ joining' \subseteq Handler
    BY <1>0 DEF IInv, TypeOK
  <2> QED
    BY <1>0, <2>2, <2>3, <2>4, <2>5, <2>6 DEF IInv, TypeOK, StreamSets
<1>2. Made'
  <2>1. ASSUME NEW h, IsMade(h), h.owner \in Objects PROVE IsMade(h)'
    BY <1>0, <1>o, <2>1 DEF IsMade
  <2>2. \A q \in Objects : todo'[q] \subseteq todo[q]
    BY <1>o
  <2>3. \A q \in Objects : call'[q] = "start" => todo'[q] \subseteq Names(q)'
    BY <1>0, <1>n, <2>2 DEF IInv, Made
  <2>4. \A q \in Objects : call'[q] = "none" => todo'[q] = {}
    BY <1>0, <2>2 DEF IInv, Made
  <2>5. ASSUME NEW h \in subscribed' PROVE IsMade(h)' /\ h.gateway \in Names(h.owner)'
    <3>1. CASE h \in subscribed
      <4>1. h.owner \in Objects /\ IsMade(h) /\ h.gateway \in Names(h.owner)
        BY <3>1 DEF IInv, TypeOK, Made, Handler
      <4> QED
        BY <1>n, <2>1, <4>1
    <3>2. CASE h = new
      BY <1>j, <1>m, <1>n, <1>h, <3>2
    <3> QED
      BY <1>0, <3>1, <3>2
  <2>6. ASSUME NEW q \in Objects, NEW h \in subscription_handlers'[q] PROVE IsMade(h)'
    <3>1. CASE h \in subscription_handlers[q]
      <4>1. h.owner \in Objects /\ IsMade(h)
        BY <3>1 DEF IInv, TypeOK, Made
      <4> QED
        BY <2>1, <4>1
    <3>2. CASE h = new
      BY <1>m, <3>2
    <3> QED
      BY <1>o, <3>1, <3>2
  <2>7. ASSUME NEW h \in gone PROVE IsMade(h)'
    <3>1. h.owner \in Objects /\ IsMade(h)
      BY DEF IInv, TypeOK, Made, Handler
    <3> QED
      BY <2>1, <3>1
  <2>8. ASSUME NEW h \in joining'
        PROVE  /\ call'[h.owner] = "start" /\ h.gateway \in todo'[h.owner]
               /\ h.nr = starts'[h.owner]
    <3>1. /\ h \in Handler /\ h # new /\ h.owner \in Objects
          /\ call[h.owner] = "start" /\ h.gateway \in todo[h.owner] /\ h.nr = starts[h.owner]
      BY <1>0 DEF IInv, TypeOK, Made, Handler
    <3>2. h.owner = o => h.gateway # g
      BY <1>j, <3>1 DEF Handler
    <3> QED
      BY <1>0, <1>o, <3>1, <3>2
  <2> QED
    BY <1>0, <2>3, <2>4, <2>5, <2>6, <2>7, <2>8 DEF IInv, Made
<1>3. Undo'
  <2> SUFFICES ASSUME NEW q \in Objects PROVE Begun(q)' /\ (q \notin restarted' => UndoOf(q)')
    BY DEF Undo
  <2>0. Begun(q) /\ (q \notin restarted => UndoOf(q))
    BY DEF IInv, Undo
  <2>1. ASSUME q # o PROVE Begun(q)' /\ (q \notin restarted' => UndoOf(q)')
    <3>1. Mine(q)' = Mine(q)
      BY <1>0, <2>1 DEF Mine
    <3> QED
      BY <1>0, <1>n, <1>o, <2>0, <2>1, <3>1, OtherObject
  <2>2. ASSUME q = o PROVE Begun(q)' /\ (q \notin restarted' => UndoOf(q)')
    <3>1. Mine(q)' = Mine(q) \cup {new}
      BY <1>0, <2>2 DEF Mine
    <3>2. /\ call'[q] = "start" /\ call[q] = "start" /\ Names(q)' = Names(q)
          /\ starts'[q] = starts[q] /\ todo'[q] = todo[q] \ {g} /\ g \in todo[q]
          /\ new = [owner |-> q, gateway |-> g, nr |-> starts[q]]
          /\ subscription_handlers'[q] =
               IF q \in MonitorSessions THEN subscription_handlers[q] \cup {new} ELSE {new}
      BY <1>0, <1>j, <1>n, <1>o, <2>2
    <3>3. q \notin MonitorSessions => Names(q) = {g} /\ todo'[q] = {}
      BY <1>h, <2>2, <3>2, NamesAreGateways DEF IInv, Made
    <3>4. Begun(q)'
      <4> SUFFICES ASSUME NEW x \in Names(q) \ todo'[q]
                   PROVE  [owner |-> q, gateway |-> x, nr |-> starts[q]]
                            \in Mine(q)' \cap subscription_handlers'[q]
        BY <3>2 DEF Begun
      <4>1. CASE x = g
        BY <3>1, <3>2, <4>1
      <4>2. ASSUME x # g PROVE q \in MonitorSessions /\ x \in Names(q) \ todo[q]
        BY <3>2, <3>3, <4>2
      <4>3. CASE x # g
        <5>1. [owner |-> q, gateway |-> x, nr |-> starts[q]] \in Mine(q) \cap subscription_handlers[q]
          BY <2>0, <3>2, <4>2, <4>3 DEF Begun
        <5> QED
          BY <3>1, <3>2, <4>2, <4>3, <5>1
      <4> QED
        BY <4>1, <4>3
    <3>5. ASSUME q \notin restarted' PROVE UndoOf(q)'
      <4>1. UndoOf(q)
        BY <1>0, <2>0, <3>5
      <4> QED
        BY <3>1, <3>2, <3>3, <4>1 DEF UndoOf
    <3> QED
      BY <3>4, <3>5
  <2> QED
    BY <2>1, <2>2
<1>4. Calls'
  <2>1. new \notin gone
    BY <1>f DEF IInv, Made
  <2> QED
    BY <1>0, <2>1 DEF IInv, Calls
<1>5. Cache'
  <2>1. \A h \in to_call \cup timeout_handlers : h.owner \in Objects
    BY DEF IInv, TypeOK, Handler
  <2> QED
    BY <1>0, <1>n, <2>1 DEF IInv, Cache, Kept, DataIsOfThisTime
<1> QED
  BY <1>1, <1>2, <1>3, <1>4, <1>5 DEF IInv

\* What a step of stop has to show: it makes no handler, and changes one object.
LEMMA StopStepHolds ==
    ASSUME IInv, NEW o \in Objects, NEW t,
           todo' = [todo EXCEPT ![o] = t],
           call' = [call EXCEPT ![o] = "stop"],
           t \subseteq subscription_handlers[o],
           subscribed' \subseteq subscribed,
           \A h \in subscribed \ subscribed' : h.owner = o,
           call[o] # "start" \/ todo[o] = {},
           o \notin restarted => UndoOf(o)',
           StreamTypes',
           UNCHANGED <<ips, starts, subscription_handlers, restarted, telling, joining,
                       thread, timeout_handlers, packet, to_call, dataVars, gone>>
    PROVE  IInv'
<1>0. UNCHANGED <<ip_to_hostname, decoded_data_cache, given, came>>
  BY DEF dataVars
<1>n. \A q \in Objects : Names(q)' = Names(q)
  BY DEF Names
<1>o. /\ todo'[o] = t /\ call'[o] = "stop"
      /\ \A q \in Objects \ {o} : todo'[q] = todo[q] /\ call'[q] = call[q]
  BY DEF IInv, TypeOK
<1>1. TypeOK'
  <2>1. \A q \in Objects :
          todo'[q] \subseteq IF call'[q] = "stop" THEN subscription_handlers'[q]
                             ELSE Gateways \cup {NoGateway}
    BY <1>o DEF IInv, TypeOK
  <2>2. call' \in [Objects -> {"none", "start", "stop"}] /\ DOMAIN todo' = Objects
    BY DEF IInv, TypeOK
  <2> QED
    BY <1>0, <2>1, <2>2 DEF IInv, TypeOK, StreamTypes
<1>2. Made'
  <2>1. ASSUME NEW h, IsMade(h), h.owner \in Objects PROVE IsMade(h)'
    BY <1>o, <2>1 DEF IsMade
  <2>2. \A q \in Objects : call'[q] = "start" => todo'[q] \subseteq Names(q)'
    BY <1>n, <1>o DEF IInv, Made
  <2>3. \A q \in Objects : call'[q] = "none" => todo'[q] = {}
    BY <1>o DEF IInv, Made
  <2>4. ASSUME NEW h \in subscribed' PROVE IsMade(h)' /\ h.gateway \in Names(h.owner)'
    <3>1. h.owner \in Objects /\ IsMade(h) /\ h.gateway \in Names(h.owner)
      BY DEF IInv, TypeOK, Made, Handler
    <3> QED
      BY <1>n, <2>1, <3>1
  <2>5. ASSUME NEW q \in Objects, NEW h \in subscription_handlers[q] PROVE IsMade(h)'
    <3>1. h.owner \in Objects /\ IsMade(h)
      BY DEF IInv, TypeOK, Made
    <3> QED
      BY <2>1, <3>1
  <2>6. ASSUME NEW h \in gone PROVE IsMade(h)'
    <3>1. h.owner \in Objects /\ IsMade(h)
      BY DEF IInv, TypeOK, Made, Handler
    <3> QED
      BY <2>1, <3>1
  <2>7. ASSUME NEW h \in joining
        PROVE  /\ call'[h.owner] = "start" /\ h.gateway \in todo'[h.owner]
               /\ h.nr = starts'[h.owner]
    <3>1. h.owner \in Objects /\ h.owner # o
      BY DEF IInv, TypeOK, Made, Handler
    <3> QED
      BY <1>o, <3>1 DEF IInv, Made
  <2> QED
    BY <2>2, <2>3, <2>4, <2>5, <2>6, <2>7 DEF IInv, Made
<1>3. Undo'
  <2> SUFFICES ASSUME NEW q \in Objects PROVE Begun(q)' /\ (q \notin restarted' => UndoOf(q)')
    BY DEF Undo
  <2>0. Begun(q) /\ (q \notin restarted => UndoOf(q))
    BY DEF IInv, Undo
  <2>1. CASE q # o
    <3>1. Mine(q)' = Mine(q)
      BY <2>1 DEF Mine
    <3> QED
      BY <1>n, <1>o, <2>0, <2>1, <3>1, OtherObject
  <2>2. CASE q = o
    <3>1. Begun(q)'
      BY <1>o, <2>2 DEF Begun
    <3>2. q \notin restarted' => UndoOf(q)'
      BY <2>2 DEF UndoOf, Mine
    <3> QED
      BY <3>1, <3>2
  <2> QED
    BY <2>1, <2>2
<1>4. Calls'
  BY DEF IInv, Calls
<1>5. Cache'
  <2>1. \A h \in to_call \cup timeout_handlers : h.owner \in Objects
    BY DEF IInv, TypeOK, Handler
  <2> QED
    BY <1>0, <1>n, <2>1 DEF IInv, Cache, Kept, DataIsOfThisTime
<1> QED
  BY <1>1, <1>2, <1>3, <1>4, <1>5 DEF IInv

\* stop finds all handlers subscribed, or none.
LEMMA StopHolds ==
    ASSUME IInv, NEW o \in Objects, Stop(o)
    PROVE  IInv'
<1>0. /\ todo[o] = {}
      /\ call' = [call EXCEPT ![o] = "stop"]
      /\ todo' = [todo EXCEPT ![o] = subscription_handlers[o]]
      /\ UNCHANGED <<ips, starts, subscription_handlers, restarted, telling, joining,
                     subscribed, thread, StreamSets, timeout_handlers, packet, to_call,
                     dataVars, gone>>
  BY DEF Stop, Free, loopVars, othersVars, callVars, StreamSets
<1>1. call'[o] = "stop" /\ todo'[o] = subscription_handlers[o]
  BY <1>0 DEF IInv, TypeOK
<1>2. ASSUME o \notin restarted PROVE UndoOf(o)'
  <2>1. UndoOf(o) /\ Mine(o)' = Mine(o) /\ subscription_handlers'[o] = subscription_handlers[o]
    BY <1>0, <1>2 DEF IInv, Undo, Mine
  <2>2. call[o] \in {"none", "start", "stop"}
    BY DEF IInv, TypeOK
  <2> QED
    BY <1>0, <1>1, <2>1, <2>2 DEF UndoOf
<1>3. StreamTypes'
  BY <1>0 DEF IInv, TypeOK, StreamTypes, StreamSets
<1> QED
  BY <1>0, <1>2, <1>3, StopStepHolds

\* The next handler is subscribed, so that the others are.
LEMMA UnsubscribeHolds ==
    ASSUME IInv, NEW o \in Objects, NEW h \in subscription_handlers[o], Unsubscribe(o, h)
    PROVE  IInv'
<1>0. /\ call[o] = "stop"
      /\ h \in todo[o] \cap subscribed
      /\ todo' = [todo EXCEPT ![o] = @ \ {h}]
      /\ subscribed' = subscribed \ {h}
      /\ watched' \subseteq watched /\ timeout_sessions' \subseteq timeout_sessions
      /\ recv_socks' \subseteq recv_socks /\ cleaned' = cleaned
      /\ UNCHANGED <<ips, starts, call, subscription_handlers, restarted, telling, joining,
                     thread, timeout_handlers, packet, to_call, dataVars, gone>>
  BY DEF Unsubscribe, Loop!Unsubscribe, othersVars, callVars
<1>1. h.owner = o /\ todo[o] \subseteq subscription_handlers[o]
  BY <1>0 DEF IInv, TypeOK
<1>2. call' = [call EXCEPT ![o] = "stop"] /\ call'[o] = "stop" /\ todo'[o] = todo[o] \ {h}
  BY <1>0 DEF IInv, TypeOK
<1>3. ASSUME o \notin restarted PROVE UndoOf(o)'
  <2>1. UndoOf(o) /\ h \in Mine(o) /\ Mine(o)' = Mine(o) \ {h}
    BY <1>0, <1>1, <1>3 DEF IInv, Undo, Mine
  <2> QED
    BY <1>0, <1>2, <2>1 DEF UndoOf
<1>4. StreamTypes'
  BY <1>0 DEF IInv, TypeOK, StreamTypes
<1> QED
  BY <1>0, <1>1, <1>2, <1>3, <1>4, StopStepHolds

\* A stop that fails has nothing to undo, unless the object was restarted.
LEMMA StopFailsHolds ==
    ASSUME IInv, NEW o \in Objects, NEW h \in subscription_handlers[o], StopFails(o, h)
    PROVE  IInv'
<1>0. /\ call[o] = "stop"
      /\ h \in todo[o] \ subscribed
      /\ todo' = [todo EXCEPT ![o] = {}]
      /\ UNCHANGED <<ips, starts, call, subscription_handlers, restarted, telling, joining,
                     subscribed, thread, StreamSets, timeout_handlers, packet, to_call,
                     dataVars, gone>>
  BY DEF StopFails, loopVars, othersVars, callVars, StreamSets
<1>1. call' = [call EXCEPT ![o] = "stop"] /\ call'[o] = "stop" /\ todo'[o] = {}
  BY <1>0 DEF IInv, TypeOK
<1>2. ASSUME o \notin restarted PROVE UndoOf(o)'
  <2>1. UndoOf(o) /\ h \notin Mine(o) /\ Mine(o)' = Mine(o)
    BY <1>0, <1>2 DEF IInv, Undo, Mine
  <2> QED
    BY <1>0, <1>1, <2>1 DEF UndoOf
<1>3. StreamTypes'
  BY <1>0 DEF IInv, TypeOK, StreamTypes, StreamSets
<1> QED
  BY <1>0, <1>1, <1>2, <1>3, StopStepHolds

---------------------------------------------------------------------------
(* The thread's round.                                                     *)

\* What a step of the round has to show: what it sets itself.
LEMMA RoundStepHolds ==
    ASSUME IInv,
           UNCHANGED <<userVars, joining, subscribed>>,
           thread' \in {"sockets", "handlers", "select", "timeouts", "receive", "dead"},
           StreamTypes',
           timeout_handlers' \subseteq Handler,
           packet' \in Packet \cup {NoPacket},
           to_call' \subseteq Handler,
           ip_to_hostname' \subseteq Gateways,
           decoded_data_cache' \in [Gateways -> Decoded],
           given' \subseteq Given,
           came' \subseteq Gateways,
           gone' \subseteq Handler,
           \A h \in gone' : IsMade(h),
           Calls', Cache'
    PROVE  IInv'
<1>0. UNCHANGED <<ips, starts, call, todo, subscription_handlers, restarted, telling,
                 joining, subscribed>>
  BY DEF userVars
<1>1. TypeOK'
  BY <1>0 DEF IInv, TypeOK, StreamTypes
<1>2. Made' /\ Undo'
  BY RoundKeeps
<1> QED
  BY <1>1, <1>2 DEF IInv

\* The facts of IInv that the round's steps start from.
LEMMA RoundFacts ==
    ASSUME IInv
    PROVE  /\ StreamTypes /\ timeout_handlers \subseteq Handler
           /\ thread \in {"sockets", "handlers", "select", "timeouts", "receive", "dead"}
           /\ packet \in Packet \cup {NoPacket}
           /\ to_call \subseteq Handler /\ subscribed \subseteq Handler
           /\ ip_to_hostname \subseteq Gateways
           /\ decoded_data_cache \in [Gateways -> Decoded]
           /\ given \subseteq Given
           /\ came \subseteq Gateways
           /\ gone \subseteq Handler
           /\ \A h \in gone : IsMade(h)
           /\ \A h \in subscribed : h.gateway \in Names(h.owner)
BY DEF IInv, TypeOK, Made, StreamTypes

\* Streams are those of whoever subscribes, or is about to.
LEMMA StreamsAreTheirs ==
    ASSUME IInv
    PROVE  Loop!StreamsOf(subscribed \cup joining) \subseteq Streams
<1> SUFFICES ASSUME NEW h \in subscribed \cup joining PROVE Stream(h) \in Streams
  BY DEF Loop!StreamsOf
<1>1. h.owner \in Objects /\ h.gateway \in Names(h.owner)
  BY DEF IInv, TypeOK, Made, Handler
<1>2. CASE h.owner \in MonitorSessions
  <2>1. h.gateway \in Gateways
    BY <1>1, <1>2, NamesAreGateways, ObjectsAssumption DEF IInv
  <2> QED
    BY <1>2, <2>1 DEF Stream, Streams
<1>3. CASE h.owner \notin MonitorSessions
  <2>1. h.owner \in MonitorPorts /\ h.gateway = NoGateway
    BY <1>1, <1>3, NamesAreGateways DEF IInv
  <2> QED
    BY <2>1 DEF Stream, Streams
<1> QED
  BY <1>2, <1>3

\* Whom a step may call: those subscribed, or fewer than before.
LEMMA CallsHold ==
    ASSUME IInv, UNCHANGED <<userVars, joining, subscribed, gone>>,
           to_call' \subseteq to_call \cup subscribed \cup timeout_handlers,
           timeout_handlers' \subseteq subscribed \cup timeout_handlers,
           thread' \in {"sockets", "handlers", "select"} => to_call' = {},
           thread' \in {"timeouts", "receive", "sockets"} => timeout_handlers' = {},
           packet' # NoPacket => to_call' # {}
    PROVE  /\ Calls'
           /\ \A h \in to_call' \cup timeout_handlers' : h.gateway \in Names(h.owner)'
<1>1. gone' \cap (subscribed' \cup to_call' \cup timeout_handlers') = {}
  BY DEF IInv, Calls
<1>2. \A h \in to_call' \cup timeout_handlers' : h.gateway \in Names(h.owner)'
  <2> SUFFICES ASSUME NEW h \in to_call' \cup timeout_handlers'
               PROVE  h.gateway \in Names(h.owner)'
    OBVIOUS
  <2>1. h.owner \in Objects /\ h.gateway \in Names(h.owner)
    BY RoundFacts DEF IInv, Cache, Handler
  <2> QED
    BY <2>1, RoundKeeps
<1> QED
  BY <1>1, <1>2 DEF Calls

\* Who is gone when the round begins is not subscribed.
LEMMA TakeSocketsHolds ==
    ASSUME IInv, TakeSockets
    PROVE  IInv'
<1>0. /\ thread = "sockets" /\ thread' = "handlers"
      /\ watched' \subseteq Loop!StreamsOf(subscribed \cup joining)
      /\ UNCHANGED <<userVars, joining, subscribed, timeout_sessions, recv_socks, cleaned,
                     timeout_handlers, packet, to_call, ip_to_hostname, decoded_data_cache,
                     given, came>>
  BY DEF TakeSockets, Loop!TakeSockets, Loop!Step, Loop!users, callVars, dataVars
<1>g. \A h \in gone' :
        h \notin subscribed /\ \E o \in Objects : h \in subscription_handlers[o]
  BY DEF TakeSockets
<1>1. to_call = {} /\ timeout_handlers = {} /\ packet = NoPacket
  BY <1>0 DEF IInv, Calls
<1>2. gone' \subseteq Handler /\ \A h \in gone' : IsMade(h)
  BY <1>g DEF IInv, TypeOK, Made
<1>3. Calls'
  <2>1. gone' \cap (subscribed' \cup to_call' \cup timeout_handlers') = {}
    BY <1>0, <1>1, <1>g
  <2> QED
    BY <1>0, <1>1, <2>1 DEF Calls
<1>4. Cache'
  BY <1>0, <1>1 DEF IInv, Cache, Kept, DataIsOfThisTime
<1>5. StreamTypes'
  BY <1>0, RoundFacts, StreamsAreTheirs DEF StreamTypes
<1> QED
  BY <1>0, <1>2, <1>3, <1>4, <1>5, RoundFacts, RoundStepHolds

\* Those with a timeout are subscribed.
LEMMA TakeHandlersHolds ==
    ASSUME IInv, TakeHandlers
    PROVE  IInv'
<1>0. /\ thread = "handlers" /\ thread' = "select"
      /\ timeout_handlers' \subseteq subscribed
      /\ timeout_sessions' \subseteq watched
      /\ UNCHANGED <<userVars, joining, subscribed, watched, recv_socks, cleaned, packet,
                     to_call, ip_to_hostname, decoded_data_cache, given, came, gone>>
  BY DEF TakeHandlers, Loop!TakeHandlers, Loop!Step, Loop!users, dataVars
<1>1. to_call = {} /\ packet = NoPacket
  BY <1>0 DEF IInv, Calls
<1>2. Calls' /\ \A h \in to_call' \cup timeout_handlers' : h.gateway \in Names(h.owner)'
  BY <1>0, <1>1, CallsHold
<1>3. Cache'
  BY <1>0, <1>1, <1>2 DEF IInv, Cache, Kept, DataIsOfThisTime
<1>4. timeout_handlers' \subseteq Handler /\ StreamTypes'
  BY <1>0, RoundFacts DEF StreamTypes
<1> QED
  BY <1>0, <1>2, <1>3, <1>4, RoundFacts, RoundStepHolds

\* When the time moves on, nothing that is cached is valid.
LEMMA SelectHolds ==
    ASSUME IInv, NEW timedout \in SUBSET timeout_handlers, Select(timedout)
    PROVE  IInv'
<1>0. /\ thread = "select" /\ thread' = "timeouts"
      /\ recv_socks' \subseteq watched /\ watched' = {}
      /\ to_call' = timedout
      /\ timeout_handlers' = {}
      /\ Tick \/ UNCHANGED dataVars
      /\ UNCHANGED <<userVars, joining, subscribed, timeout_sessions, cleaned, packet, gone>>
  BY DEF Select, Loop!Select, Loop!Step, Loop!users
<1>1. to_call = {} /\ packet = NoPacket
  BY <1>0 DEF IInv, Calls
<1>2. Calls' /\ \A h \in to_call' \cup timeout_handlers' : h.gateway \in Names(h.owner)'
  BY <1>0, <1>1, CallsHold
<1>3. /\ ip_to_hostname' = ip_to_hostname
      /\ given' \subseteq given /\ came' \subseteq came
      /\ decoded_data_cache' \in [Gateways -> Decoded]
      /\ Kept'
  <2>1. CASE UNCHANGED dataVars
    BY <1>0, <2>1, RoundFacts DEF dataVars, IInv, Cache, Kept
  <2>2. CASE Tick
    <3>1. \A g \in Gateways : decoded_data_cache'[g] =
            [decoded_data_cache[g] EXCEPT !.valid = FALSE]
      BY <2>2 DEF Tick
    <3>2. ASSUME NEW g \in Gateways
          PROVE  decoded_data_cache'[g] \in Decoded /\ decoded_data_cache'[g].valid = FALSE
      <4>1. decoded_data_cache[g] \in Decoded
        BY RoundFacts
      <4>2. decoded_data_cache'[g] = [from |-> decoded_data_cache[g].from, valid |-> FALSE]
        BY <3>1, <4>1 DEF Decoded
      <4> QED
        BY <4>1, <4>2 DEF Decoded
    <3>3. decoded_data_cache' \in [Gateways -> Decoded]
      BY <2>2, <3>2 DEF Tick
    <3>4. packet'.decoded = FALSE
      BY <1>0, <1>1 DEF NoPacket
    <3>5. Kept'
      BY <2>2, <3>2, <3>4 DEF Tick, Kept
    <3> QED
      BY <2>2, <3>3, <3>5 DEF Tick
  <2> QED
    BY <1>0, <2>1, <2>2
<1>4. Cache'
  <2>1. DataIsOfThisTime'
    BY <1>3 DEF IInv, Cache, DataIsOfThisTime
  <2> QED
    BY <1>0, <1>1, <1>2, <1>3, <2>1 DEF Cache
<1>5. to_call' \subseteq Handler /\ StreamTypes'
  BY <1>0, RoundFacts DEF StreamTypes
<1> QED
  BY <1>0, <1>2, <1>3, <1>4, <1>5, RoundFacts, RoundStepHolds

\* Silence, a socket that fails, and the steps between: no packet, the subscribed are
\* called.
LEMMA SilenceHolds ==
    ASSUME IInv, NEW k \in Streams,
           SessionTimeout(k) \/ IgnoreInactive(k) \/ ReceiveFails(k)
    PROVE  IInv'
<1>0. /\ thread \in {"timeouts", "receive"} /\ to_call = {}
      /\ timeout_sessions' \subseteq timeout_sessions /\ recv_socks' \subseteq recv_socks
      /\ cleaned' \subseteq cleaned \cup {k}
      /\ to_call' \subseteq subscribed
      /\ given' \subseteq given
      /\ UNCHANGED <<userVars, joining, subscribed, watched, timeout_handlers, thread, packet,
                     ip_to_hostname, decoded_data_cache, came, gone>>
  BY DEF SessionTimeout, IgnoreInactive, ReceiveFails, Loop!SessionTimeout, Loop!TakeReady,
     Loop!users, HandlersOf, callVars, dataVars
<1>1. packet = NoPacket /\ timeout_handlers = {}
  BY <1>0 DEF IInv, Calls
<1>2. Calls' /\ \A h \in to_call' \cup timeout_handlers' : h.gateway \in Names(h.owner)'
  BY <1>0, <1>1, CallsHold
<1>3. Cache'
  BY <1>0, <1>1, <1>2 DEF IInv, Cache, Kept, DataIsOfThisTime
<1>4. to_call' \subseteq Handler /\ StreamTypes'
  BY <1>0, RoundFacts DEF StreamTypes
<1> QED
  BY <1>0, <1>2, <1>3, <1>4, RoundFacts, RoundStepHolds

\* The handlers a packet is for subscribed to its sender, or to a port.
LEMMA ReceivePacketHolds ==
    ASSUME IInv, NEW k \in Streams, NEW g \in Gateways, NEW good \in BOOLEAN,
           ReceivePacket(k, g, good)
    PROVE  IInv'
<1>0. /\ thread = "receive" /\ to_call = {}
      /\ k.gateway \in {g, NoGateway}
      /\ recv_socks' \subseteq recv_socks
      /\ packet' = IF HandlersOf(k) = {} THEN NoPacket
                   ELSE [from |-> g, good |-> good, decoded |-> FALSE]
      /\ to_call' = HandlersOf(k)
      /\ given' = {}
      /\ UNCHANGED <<userVars, joining, subscribed, watched, timeout_sessions, cleaned,
                     timeout_handlers, thread, ip_to_hostname, decoded_data_cache, came,
                     gone>>
  BY DEF ReceivePacket, Loop!TakeReady, Loop!users
<1>1. timeout_handlers = {} /\ to_call' \subseteq subscribed /\ packet = NoPacket
  BY <1>0 DEF IInv, Calls, HandlersOf
<1>2. Calls' /\ \A h \in to_call' \cup timeout_handlers' : h.gateway \in Names(h.owner)'
  BY <1>0, <1>1, CallsHold
<1>3. \A h \in to_call' : h.gateway \in {g, NoGateway}
  <2>1. \A h \in to_call' : [gateway |-> h.gateway, sub |-> sub[h.owner]] = k
    BY <1>0 DEF HandlersOf, Stream
  <2> QED
    BY <1>0, <2>1
<1>4. Cache'
  <2>1. packet' # NoPacket => packet'.from = g
    BY <1>0
  <2>2. ~packet.decoded /\ ~packet'.decoded
    BY <1>0, <1>1 DEF NoPacket
  <2>3. Kept'
    BY <1>0, <2>2 DEF IInv, Cache, Kept
  <2> QED
    BY <1>0, <1>2, <1>3, <2>1, <2>3 DEF Cache, DataIsOfThisTime
<1>5. /\ to_call' \subseteq Handler /\ StreamTypes'
      /\ packet' \in Packet \cup {NoPacket}
  BY <1>0, <1>1, RoundFacts DEF StreamTypes, Packet
<1> QED
  BY <1>0, <1>2, <1>4, <1>5, RoundFacts, RoundStepHolds

\* Between the parts of a round.
LEMMA EndsHold ==
    ASSUME IInv, EndTimeouts \/ EndRound \/ ThreadDies
    PROVE  IInv'
<1>0. /\ \/ /\ thread \in {"timeouts", "receive"}
            /\ thread' \in {"receive", "sockets"}
            /\ timeout_handlers' = timeout_handlers
         \/ /\ thread \in {"sockets", "handlers", "select"}
            /\ thread' = "dead"
            /\ timeout_handlers' = {}
      /\ to_call = {}
      /\ given' \subseteq given
      /\ UNCHANGED <<userVars, joining, subscribed, packet, to_call, ip_to_hostname,
                     decoded_data_cache, came, gone>>
  BY DEF EndTimeouts, EndRound, ThreadDies, Loop!EndTimeouts, Loop!EndRound, Loop!Die,
     Loop!Step, Loop!users, callVars, dataVars, IInv, Calls
<1>1. packet = NoPacket /\ timeout_handlers' = {}
  BY <1>0 DEF IInv, Calls
<1>2. Calls' /\ \A h \in to_call' \cup timeout_handlers' : h.gateway \in Names(h.owner)'
  BY <1>0, <1>1, CallsHold
<1>3. Cache'
  BY <1>0, <1>1, <1>2 DEF IInv, Cache, Kept, DataIsOfThisTime
<1>4. /\ thread' \in {"sockets", "handlers", "select", "timeouts", "receive", "dead"}
      /\ given' \subseteq Given
  BY <1>0, RoundFacts
<1>5. StreamTypes'
  BY RoundFacts DEF EndTimeouts, EndRound, ThreadDies, Loop!EndTimeouts, Loop!EndRound,
     Loop!Die, callVars, StreamTypes
<1> QED
  BY <1>0, <1>1, <1>2, <1>3, <1>4, <1>5, RoundFacts, RoundStepHolds

---------------------------------------------------------------------------
(* Callbacks.                                                              *)

\* What a callback leaves of those to be made.
LEMMA CallbackHolds ==
    ASSUME IInv, NEW h \in to_call,
           to_call' = to_call \ {h},
           packet' # NoPacket => packet # NoPacket /\ packet'.from = packet.from /\ to_call' # {},
           packet' \in Packet \cup {NoPacket},
           ip_to_hostname' \subseteq Gateways,
           decoded_data_cache' \in [Gateways -> Decoded],
           came' \subseteq Gateways,
           Kept',
           given' \subseteq Given,
           DataIsOfThisTime',
           UNCHANGED <<userVars, loopVars, timeout_handlers, cleaned, gone>>
    PROVE  IInv'
<1>0. UNCHANGED <<joining, subscribed, thread, StreamSets>>
  BY DEF loopVars, StreamSets
<1>2. /\ thread' \in {"sockets", "handlers", "select"} => to_call' = {}
      /\ thread' \in {"timeouts", "receive", "sockets"} => timeout_handlers' = {}
  BY <1>0 DEF IInv, Calls
<1>3. Calls' /\ \A x \in to_call' \cup timeout_handlers' : x.gateway \in Names(x.owner)'
  BY <1>0, <1>2, CallsHold
<1>4. packet' # NoPacket => \A x \in to_call' : x.gateway \in {packet'.from, NoGateway}
  BY DEF IInv, Cache
<1>5. Cache'
  BY <1>3, <1>4 DEF Cache
<1>6. to_call' \subseteq Handler
  BY RoundFacts
<1>7. StreamTypes'
  BY <1>0, RoundFacts DEF StreamTypes, StreamSets
<1> QED
  BY <1>0, <1>3, <1>5, <1>6, <1>7, RoundFacts, RoundStepHolds

\* Of the packet at hand there is left whether it has been decoded.
LEMMA CalledLeaves ==
    ASSUME IInv, NEW h, NEW decodes \in BOOLEAN, Called(h, decodes)
    PROVE  /\ packet \in Packet /\ packet # NoPacket
           /\ to_call' = to_call \ {h}
           /\ packet' # NoPacket => packet'.from = packet.from /\ to_call' # {}
           /\ packet' \in Packet \cup {NoPacket}
           /\ came' \subseteq Gateways
           /\ \A g \in Gateways :
                (g \in came' \/ (packet'.decoded /\ packet'.from = g))
                  <=> (g \in came \/ ((packet.decoded \/ decodes) /\ packet.from = g))
           /\ packet'.decoded => (packet.decoded \/ decodes) /\ packet'.from = packet.from
                                 /\ came' = came
           /\ UNCHANGED <<userVars, loopVars, timeout_handlers, cleaned, gone>>
<1>1. /\ packet \in Packet /\ packet # NoPacket
      /\ to_call' = to_call \ {h}
      /\ UNCHANGED <<userVars, loopVars, timeout_handlers, cleaned, gone>>
  BY RoundFacts DEF Called
<1>2. packet.from \in Gateways /\ packet.decoded \in BOOLEAN /\ came \subseteq Gateways
  BY <1>1, RoundFacts DEF Packet
<1>3. CASE to_call = {h}
  <2>1. packet' = NoPacket /\ packet'.decoded = FALSE
    BY <1>3 DEF Called, NoPacket
  <2>2. came' = IF packet.decoded \/ decodes THEN came \cup {packet.from} ELSE came
    BY <1>3 DEF Called
  <2> QED
    BY <1>1, <1>2, <2>1, <2>2
<1>4. CASE to_call # {h}
  <2>1. packet' = [packet EXCEPT !.decoded = packet.decoded \/ decodes] /\ came' = came
    BY <1>4 DEF Called
  <2>2. /\ packet' \in Packet /\ packet'.from = packet.from
        /\ packet'.decoded = (packet.decoded \/ decodes)
    BY <1>1, <1>2, <2>1 DEF Packet
  <2>3. to_call' # {}
    BY <1>1, <1>4 DEF Called
  <2> QED
    BY <1>1, <1>2, <2>1, <2>2, <2>3
<1> QED
  BY <1>3, <1>4

\* What decode_data gives is of the packet, or cached at its time.
LEMMA GivenIsOfThisTime ==
    ASSUME IInv, NEW h, NEW g \in Gateways,
           h.owner \in Objects,
           g \in IF h.owner \in MonitorSessions THEN gateways[h.owner] ELSE accepted[h.owner],
           packet.from = g,
           Called(h, Decodes(g)),
           CallWith(h, g)
    PROVE  /\ decoded_data_cache' \in [Gateways -> Decoded]
           /\ Kept'
           /\ given' \subseteq Given
           /\ DataIsOfThisTime'
<1> DEFINE call_(from, own) == [owner |-> h.owner, gateway |-> g, from |-> from, own |-> own,
                                before |-> g \in came]
<1>0. /\ decoded_data_cache \in [Gateways -> Decoded]
      /\ decoded_data_cache[g].valid \in BOOLEAN
      /\ packet \in Packet /\ packet.decoded \in BOOLEAN /\ packet.good \in BOOLEAN
      /\ Kept
  BY CalledLeaves, RoundFacts DEF IInv, Cache, Decodes, Cached, Decoded, Packet
<1>d. Decodes(g) \in BOOLEAN
  BY <1>0 DEF Decodes, Cached
<1>c. /\ \A x \in Gateways :
           (x \in came' \/ (packet'.decoded /\ packet'.from = x))
             <=> (x \in came \/ ((packet.decoded \/ Decodes(g)) /\ g = x))
      /\ packet'.decoded => (packet.decoded \/ Decodes(g)) /\ packet'.from = g /\ came' = came
  BY <1>d, CalledLeaves
<1>1. ASSUME NEW own \in BOOLEAN, own <=> g \notin came, given' = {call_(g, own)}
      PROVE  given' \subseteq Given /\ DataIsOfThisTime'
  <2> PICK before \in BOOLEAN : before = (g \in came)
    BY ONLY (g \in came) \in BOOLEAN
  <2> DEFINE c == [owner |-> h.owner, gateway |-> g, from |-> g, own |-> own,
                   before |-> before]
  <2>1. given' = {c}
    BY <1>1
  <2>2. c \in Given /\ c.from = c.gateway /\ c.owner = h.owner /\ c.gateway = g
    BY DEF Given
  <2>3. c.own = own /\ c.before = before
    OBVIOUS
  <2>4. own <=> ~before
    BY ONLY <1>1, before = (g \in came)
  <2>5. c.own <=> ~c.before
    BY <2>3, <2>4
  <2> HIDE DEF c
  <2> QED
    BY <2>1, <2>2, <2>5 DEF DataIsOfThisTime
<1>2. CASE /\ Cached(g)
           /\ given' = {call_(decoded_data_cache[g].from, packet.decoded)}
           /\ UNCHANGED decoded_data_cache
  <2>1. decoded_data_cache[g].from = g /\ (packet.decoded <=> g \notin came) /\ ~Decodes(g)
    BY <1>0, <1>2 DEF Kept, Cached, Decodes
  <2>2. Kept'
    BY <1>0, <1>2, <1>c, <2>1 DEF Kept
  <2> QED
    BY <1>0, <1>1, <1>2, <2>1, <2>2
<1>3. CASE /\ Decodes(g)
           /\ given' = {call_(packet.from, TRUE)}
           /\ decoded_data_cache' =
                [decoded_data_cache EXCEPT ![g] = [from |-> packet.from, valid |-> TRUE]]
  <2>1. g \notin came /\ ~decoded_data_cache[g].valid
    BY <1>0, <1>3 DEF Kept, Cached, Decodes
  <2>2. /\ decoded_data_cache' \in [Gateways -> Decoded]
        /\ decoded_data_cache'[g].from = g /\ decoded_data_cache'[g].valid
        /\ \A x \in Gateways \ {g} : decoded_data_cache'[x] = decoded_data_cache[x]
    BY <1>0, <1>3 DEF Decoded
  <2>3. Kept'
    <3>1. \A x \in Gateways :
            decoded_data_cache'[x].valid => decoded_data_cache'[x].from = x
      BY <1>0, <2>2 DEF Kept
    <3>2. ASSUME NEW x \in Gateways
          PROVE  decoded_data_cache'[x].valid
                   <=> x \in came' \/ (packet'.decoded /\ packet'.from = x)
      <4>1. CASE x = g
        BY <1>3, <1>c, <2>2, <4>1
      <4>2. CASE x # g
        BY <1>0, <1>c, <2>2, <4>2 DEF Kept
      <4> QED
        BY <4>1, <4>2
    <3>3. packet'.decoded => packet'.from \notin came'
      BY <1>c, <2>1
    <3> QED
      BY <3>1, <3>2, <3>3 DEF Kept
  <2> QED
    BY <1>1, <1>3, <2>1, <2>2, <2>3
<1>4. CASE ~Cached(g) /\ ~packet.good /\ given' = {} /\ UNCHANGED decoded_data_cache
  <2>1. ~Decodes(g)
    BY <1>4 DEF Decodes
  <2>2. Kept'
    BY <1>0, <1>4, <1>c, <2>1 DEF Kept
  <2> QED
    BY <1>0, <1>4, <2>2 DEF DataIsOfThisTime
<1> QED
  BY <1>2, <1>3, <1>4 DEF CallWith

\* A callback for a packet that decode_data was asked about.
LEMMA CallOfPacketHolds ==
    ASSUME IInv, NEW h \in to_call, NEW g \in Gateways,
           Called(h, Decodes(g)),
           ip_to_hostname' \subseteq Gateways,
           decoded_data_cache' \in [Gateways -> Decoded],
           Kept', given' \subseteq Given, DataIsOfThisTime'
    PROVE  IInv'
<1>1. Decodes(g) \in BOOLEAN
  <2>1. packet \in Packet
    BY RoundFacts DEF Called
  <2> QED
    BY <2>1, RoundFacts DEF Decodes, Cached, Decoded, Packet
<1>2. /\ packet # NoPacket
      /\ to_call' = to_call \ {h}
      /\ packet' # NoPacket => packet'.from = packet.from /\ to_call' # {}
      /\ packet' \in Packet \cup {NoPacket}
      /\ came' \subseteq Gateways
      /\ UNCHANGED <<userVars, loopVars, timeout_handlers, cleaned, gone>>
  BY <1>1, CalledLeaves
<1> QED
  BY <1>2, CallbackHolds

\* Silence and errors bring no data.
LEMMA CallWithoutDataHolds ==
    ASSUME IInv, NEW h \in to_call,
           CallWithoutData(h) \/ PortFilters(h) \/ PortUnresolved(h)
    PROVE  IInv'
<1>1. CASE CallWithoutData(h)
  <2>0. /\ packet = NoPacket
        /\ to_call' = to_call \ {h}
        /\ UNCHANGED <<userVars, loopVars, timeout_handlers, cleaned, gone>>
        /\ UNCHANGED <<packet, ip_to_hostname, decoded_data_cache, given, came>>
    BY <1>1 DEF CallWithoutData, dataVars
  <2>1. DataIsOfThisTime' /\ Kept'
    BY <2>0 DEF IInv, Cache, Kept, DataIsOfThisTime
  <2> QED
    BY <2>0, <2>1, CallbackHolds, RoundFacts
<1>2. CASE PortFilters(h) \/ PortUnresolved(h)
  <2>0. /\ Called(h, FALSE) /\ given' = {}
        /\ UNCHANGED <<ip_to_hostname, decoded_data_cache>>
    BY <1>2 DEF PortFilters, PortUnresolved
  <2>1. /\ packet # NoPacket
        /\ to_call' = to_call \ {h}
        /\ packet' # NoPacket => packet'.from = packet.from /\ to_call' # {}
        /\ packet' \in Packet \cup {NoPacket}
        /\ came' \subseteq Gateways
        /\ \A g \in Gateways :
             (g \in came' \/ (packet'.decoded /\ packet'.from = g))
               <=> (g \in came \/ (packet.decoded /\ packet.from = g))
        /\ packet'.decoded => packet.decoded /\ packet'.from = packet.from /\ came' = came
        /\ UNCHANGED <<userVars, loopVars, timeout_handlers, cleaned, gone>>
    BY <2>0, CalledLeaves
  <2>2. Kept'
    BY <2>0, <2>1 DEF IInv, Cache, Kept
  <2>3. DataIsOfThisTime' /\ given' \subseteq Given
    BY <2>0 DEF DataIsOfThisTime
  <2> QED
    BY <2>0, <2>1, <2>2, <2>3, CallbackHolds, RoundFacts
<1> QED
  BY <1>1, <1>2

\* A session is called for the gateway it subscribed to, which sent the packet.
LEMMA CallSessionHolds ==
    ASSUME IInv, NEW h \in to_call, CallSession(h)
    PROVE  IInv'
<1>0. /\ h.owner \in MonitorSessions
      /\ Called(h, Decodes(h.gateway))
      /\ CallWith(h, h.gateway)
      /\ ip_to_hostname' = ip_to_hostname
  BY DEF CallSession
<1>1. /\ packet # NoPacket
      /\ h.owner \in Objects
      /\ h.gateway \in Names(h.owner)
      /\ h.gateway \in {packet.from, NoGateway}
  BY <1>0, RoundFacts DEF IInv, Cache, Objects, Called
<1>2. h.gateway \in gateways[h.owner] /\ h.gateway # NoGateway /\ packet.from = h.gateway
  BY <1>0, <1>1, NamesAreGateways DEF IInv
<1>3. h.gateway \in Gateways
  BY <1>0, <1>2, ObjectsAssumption
<1>4. /\ decoded_data_cache' \in [Gateways -> Decoded] /\ Kept'
      /\ given' \subseteq Given /\ DataIsOfThisTime'
  BY <1>0, <1>1, <1>2, <1>3, GivenIsOfThisTime
<1> QED
  BY <1>0, <1>3, <1>4, CallOfPacketHolds, RoundFacts

\* A port is called for the sender, which its filters accept.
LEMMA CallPortHolds ==
    ASSUME IInv, NEW h \in to_call, CallPort(h)
    PROVE  IInv'
<1>0. /\ h.owner \in MonitorPorts
      /\ Called(h, Decodes(packet.from))
      /\ packet.from \in accepted[h.owner]
      /\ ip_to_hostname' = ip_to_hostname \cup {packet.from}
      /\ CallWith(h, packet.from)
  BY DEF CallPort
<1>1. h.owner \in Objects /\ h.owner \notin MonitorSessions
  BY <1>0, ObjectsAssumption DEF Objects
<1>2. packet.from \in Gateways
  BY <1>0, ObjectsAssumption
<1>3. ip_to_hostname' \subseteq Gateways
  BY <1>0, <1>2, RoundFacts
<1>4. /\ decoded_data_cache' \in [Gateways -> Decoded] /\ Kept'
      /\ given' \subseteq Given /\ DataIsOfThisTime'
  BY <1>0, <1>1, <1>2, GivenIsOfThisTime
<1> QED
  BY <1>0, <1>2, <1>3, <1>4, CallOfPacketHolds

---------------------------------------------------------------------------
(* Timers.                                                                 *)

\* Nothing depends on whom they tell.
LEMMA TellingHolds ==
    ASSUME IInv, telling' \in [Timers -> SUBSET Handler],
           UNCHANGED <<ips, starts, call, todo, subscription_handlers, restarted, loopVars,
                       othersVars>>
    PROVE  IInv'
<1>0. UNCHANGED <<joining, subscribed, thread, StreamSets, timeout_handlers, packet, to_call,
                  ip_to_hostname, decoded_data_cache, given, came, gone>>
  BY DEF loopVars, othersVars, callVars, dataVars, StreamSets
<1>1. TypeOK'
  BY <1>0 DEF IInv, TypeOK, StreamSets
<1>2. Made' /\ Undo'
  BY <1>0 DEF IInv, Made, IsMade, Names, Undo, Begun, UndoOf, Mine
<1>3. Calls'
  BY <1>0 DEF IInv, Calls
<1>4. Cache'
  BY <1>0 DEF IInv, Cache, Kept, DataIsOfThisTime, Names
<1> QED
  BY <1>1, <1>2, <1>3, <1>4 DEF IInv

\* A timer tells handlers that were subscribed.
LEMMA TimerHolds ==
    ASSUME IInv, NEW t \in Timers, Timer(t)
    PROVE  IInv'
<1>1. telling \in [Timers -> SUBSET Handler] /\ subscribed \subseteq Handler
  BY DEF IInv, TypeOK
<1>2. telling' \in [Timers -> SUBSET Handler]
  <2>1. ASSUME NEW k \in Streams, StartFails(t, k) PROVE telling' \in [Timers -> SUBSET Handler]
    BY <1>1, <2>1 DEF StartFails, HandlersOf
  <2>2. ASSUME NEW h \in telling[t], CallByTimer(t, h)
        PROVE  telling' \in [Timers -> SUBSET Handler]
    BY <1>1, <2>2 DEF CallByTimer
  <2> QED
    BY <2>1, <2>2 DEF Timer
<1>3. UNCHANGED <<ips, starts, call, todo, subscription_handlers, restarted, loopVars,
                  othersVars>>
  BY DEF Timer, StartFails, CallByTimer
<1> QED
  BY <1>2, <1>3, TellingHolds

---------------------------------------------------------------------------
\* Every step keeps the invariant.
LEMMA StepHolds == IInv /\ [Next]_vars => IInv'
<1> SUFFICES ASSUME IInv, [Next]_vars PROVE IInv'
  OBVIOUS
<1>1. CASE UNCHANGED vars
  <2>1. UNCHANGED <<ips, starts, call, todo, subscription_handlers, restarted, loopVars,
                    othersVars>> /\ telling' = telling
    BY <1>1 DEF vars, userVars
  <2> QED
    BY <2>1, TellingHolds DEF IInv, TypeOK
<1>2. CASE \E o \in Objects : User(o)
  <2> PICK o \in Objects : User(o)
    BY <1>2
  <2>1. CASE Start(o)
    BY <2>1, StartHolds
  <2>2. CASE Stop(o)
    BY <2>2, StopHolds
  <2>3. CASE \E g \in Gateways \cup {NoGateway} : Begin(o, g)
    BY <2>3, BeginHolds
  <2>4. CASE \E h \in subscription_handlers[o] : Unsubscribe(o, h) \/ StopFails(o, h)
    BY <2>4, UnsubscribeHolds, StopFailsHolds
  <2> QED
    BY <2>1, <2>2, <2>3, <2>4 DEF User
<1>3. CASE \E h \in joining : Subscribe(h)
  BY <1>3, SubscribeHolds
<1>4. CASE Round
  <2>1. CASE TakeSockets
    BY <2>1, TakeSocketsHolds
  <2>2. CASE TakeHandlers
    BY <2>2, TakeHandlersHolds
  <2>3. CASE \E timedout \in SUBSET timeout_handlers : Select(timedout)
    BY <2>3, SelectHolds
  <2>4. CASE EndTimeouts \/ EndRound \/ ThreadDies
    BY <2>4, EndsHold
  <2>5. CASE \E k \in Streams : Receiving(k)
    BY <2>5, SilenceHolds, ReceivePacketHolds DEF Receiving
  <2>6. CASE \E h \in to_call : Callback(h)
    BY <2>6, CallWithoutDataHolds, CallSessionHolds, CallPortHolds DEF Callback
  <2> QED
    BY <1>4, <2>1, <2>2, <2>3, <2>4, <2>5, <2>6 DEF Round
<1>5. CASE \E t \in Timers : Timer(t)
  BY <1>5, TimerHolds
<1> QED
  BY <1>1, <1>2, <1>3, <1>4, <1>5 DEF Next

\* The invariant of all that follows.
LEMMA Invariance == Spec => []IInv
BY InitHolds, StepHolds, PTL DEF Spec

\* Every variable keeps its type, however objects are started and stopped.
THEOREM TypeCorrect == Spec => []TypeOK
<1>1. IInv => TypeOK
  BY DEF IInv
<1> QED
  BY <1>1, Invariance, PTL

\* Callbacks of one gateway at one reading of the time get one data, which is the gateway's
\* and of a packet decoded at that time (lines 362, 591-612).
THEOREM CallbacksGetTheirData == Spec => []DataIsOfThisTime
<1>1. IInv => DataIsOfThisTime
  BY DEF IInv, Cache
<1> QED
  BY <1>1, Invariance, PTL

\* A handler that was unsubscribed before the round is not called by the thread in it
\* (lines 328-385), whomever timers tell meanwhile of starts that failed (lines 266-268).
THEOREM StoppedIsNotCalled == Spec => []CallsEndWithTheRound
<1>1. IInv => CallsEndWithTheRound
  BY DEF IInv, Calls, CallsEndWithTheRound
<1> QED
  BY <1>1, Invariance, PTL

\* start subscribes to everything it found, and stop undoes it unless the object was
\* restarted (lines 724-744, 833-843).
THEOREM StopUndoesStart == Spec => []SubscribedFromStartToStop
<1>1. IInv => SubscribedFromStartToStop
  <2> SUFFICES ASSUME IInv, NEW o \in Objects
               PROVE  /\ todo[o] = {} /\ call[o] = "start" =>
                           {h.gateway : h \in Mine(o) \cap subscription_handlers[o]} = Names(o)
                      /\ todo[o] = {} /\ call[o] = "stop" /\ Mine(o) # {} => o \in restarted
    BY DEF SubscribedFromStartToStop, Free, Mine
  <2>1. Begun(o) /\ (o \notin restarted => UndoOf(o))
    BY DEF IInv, Undo
  <2>2. ASSUME todo[o] = {}, call[o] = "start"
        PROVE  {h.gateway : h \in Mine(o) \cap subscription_handlers[o]} = Names(o)
    <3>1. ASSUME NEW h \in Mine(o) \cap subscription_handlers[o] PROVE h.gateway \in Names(o)
      BY DEF IInv, Made, Mine
    <3>2. ASSUME NEW g \in Names(o)
          PROVE  \E h \in Mine(o) \cap subscription_handlers[o] : h.gateway = g
      <4>1. [owner |-> o, gateway |-> g, nr |-> starts[o]] \in Mine(o) \cap subscription_handlers[o]
        BY <2>1, <2>2 DEF Begun
      <4> QED
        BY <4>1
    <3> QED
      BY <3>1, <3>2
  <2>3. ASSUME todo[o] = {}, call[o] = "stop", Mine(o) # {} PROVE o \in restarted
    BY <2>1, <2>3 DEF UndoOf
  <2> QED
    BY <2>2, <2>3
<1> QED
  BY <1>1, Invariance, PTL
---------------------------------------------------------------------------
(* The sessions on the loop.                                               *)

\* A step is one of the loop's, or leaves what the loop has alone.
LEMMA StepOnStreams == IInv /\ [Next]_vars => [Loop!Next]_(Loop!vars)
<1> SUFFICES ASSUME IInv, [Next]_vars PROVE Loop!Next \/ UNCHANGED Loop!vars
  OBVIOUS
<1> USE DEF loopVars, Loop!vars, Loop!users
<1>1. ASSUME NEW o \in Objects, User(o) PROVE Loop!Next \/ UNCHANGED Loop!vars
  <2>1. ASSUME NEW g \in Gateways \cup {NoGateway}, Begin(o, g) PROVE Loop!Next
    <3>1. [owner |-> o, gateway |-> g, nr |-> starts[o]] \in Handler
      BY DEF Handler, IInv, TypeOK
    <3> QED
      BY <2>1, <3>1 DEF Begin, Loop!Next
  <2>2. ASSUME NEW h, Unsubscribe(o, h) PROVE Loop!Next
    BY <2>2 DEF Unsubscribe, Loop!Unsubscribe, Loop!Next
  <2>3. ASSUME NEW h, StopFails(o, h) \/ Start(o) \/ Stop(o) PROVE UNCHANGED Loop!vars
    BY <2>3 DEF StopFails, Start, Stop
  <2> QED
    BY <1>1, <2>1, <2>2, <2>3 DEF User
<1>2. ASSUME NEW h \in joining, Subscribe(h) PROVE Loop!Next
  BY <1>2 DEF Subscribe, Loop!Next
<1>3. ASSUME Round PROVE Loop!Next \/ UNCHANGED Loop!vars
  <2>1. CASE TakeSockets \/ TakeHandlers \/ EndTimeouts \/ EndRound \/ ThreadDies
    BY <2>1 DEF TakeSockets, TakeHandlers, EndTimeouts, EndRound, ThreadDies, Loop!Next, Loop!Round
  <2>2. ASSUME NEW timedout, Select(timedout) PROVE Loop!Next
    BY <2>2 DEF Select, Loop!Next, Loop!Round
  <2>3. ASSUME NEW k, Receiving(k) PROVE Loop!Next
    <3>1. CASE SessionTimeout(k)
      BY <3>1 DEF SessionTimeout, Loop!SessionTimeout, Loop!Next, Loop!Round
    <3>2. CASE Loop!TakeReady(k)
      BY <3>2 DEF Loop!TakeReady, Loop!Next, Loop!Round
    <3> QED
      BY <2>3, <3>1, <3>2 DEF Receiving, IgnoreInactive, ReceiveFails, ReceivePacket
  <2>4. ASSUME NEW h, Callback(h) PROVE UNCHANGED Loop!vars
    BY <2>4 DEF Callback, CallWithoutData, CallSession, PortFilters, CallPort, PortUnresolved, Called
  <2> QED
    BY <1>3, <2>1, <2>2, <2>3, <2>4 DEF Round
<1>4. ASSUME NEW t, Timer(t) PROVE UNCHANGED Loop!vars
  BY <1>4 DEF Timer, StartFails, CallByTimer
<1>5. CASE UNCHANGED vars
  BY <1>5 DEF vars
<1> QED
  BY <1>1, <1>2, <1>3, <1>4, <1>5 DEF Next

\* The sessions and ports take the loop for what MonitorLoopProofs proves it to be, and
\* use it in no other way: what start, stop and the callbacks of a round do to it are steps
\* of the streams (lines 724-744, 833-843, 303-439).
LEMMA SessionsUseStreams == Spec => Loop!Spec
<1>1. Init => Loop!Init
  BY DEF Init
<1>2. IInv /\ [Next]_vars => [Loop!Next]_(Loop!vars)
  BY StepOnStreams
<1> QED
  BY <1>1, <1>2, Invariance, PTL DEF Spec, Loop!Spec
============================================================================
