------------------------ MODULE AsyncProtocolProofs ------------------------
(***************************************************************************)
(* Proofs about AsyncProtocol, for any number of commands and any width of *)
(* the tags.                                                               *)
(*                                                                         *)
(* The three safety invariants are not inductive: that a response finds    *)
(* its own future needs to know where responses come from.  Pairing says   *)
(* so: as long as no tag has been reused, everything in transit belongs to *)
(* a command registered under its tag, and is in one place only.           *)
(***************************************************************************)
EXTENDS AsyncProtocol, TLAPS

InTransit == requests \cup in_flight \cup buffer

Pairing ==
    /\ \A t \in Tags : commands[t] # NoFuture =>
           Tag(commands[t]) = t /\ commands[t] <= tag_counter
    /\ \A n \in InTransit : n <= tag_counter /\ commands[Tag(n)] = n
    /\ requests \cap in_flight = {}
    /\ requests \cap buffer = {}
    /\ in_flight \cap buffer = {}
    /\ \A n \in Commands : call[n] = "waiting" => commands[Tag(n)] = n
    /\ \A n \in Commands : call[n] = "answered" => response[n] = n
    /\ ~unknown_tag

IInv ==
    /\ TypeOK
    /\ \A n \in Commands : n > tag_counter => call[n] = "unused"
    /\ ~tag_reused => Pairing

\* Tags are tags: the numbers of the commands have at most one digit too many.
LEMMA TagType == \A n \in Commands : Tag(n) \in Tags
<1> SUFFICES ASSUME NEW n \in Commands PROVE Tag(n) \in Tags
  OBVIOUS
<1>1. n \in Nat /\ n < Base * TagLimit /\ Base * TagLimit \in Nat
  BY BoundsAssumption DEF Commands
<1>2. n \div Base \in 0..n
  BY <1>1, BoundsAssumption
<1> QED
  BY <1>1, <1>2 DEF Tag, Tags

\* A new connection has no command and no tag in use.
LEMMA InitHolds == Init => IInv
<1> SUFFICES ASSUME Init PROVE IInv
  OBVIOUS
<1>1. 0 \in 0..MaxCommands
  BY BoundsAssumption
<1>2. TypeOK
  BY <1>1 DEF Init, TypeOK
<1>3. Pairing
  BY DEF Init, Pairing, InTransit
<1> QED
  BY <1>2, <1>3 DEF Init, IInv

\* Every step keeps the pairing of commands, tags and responses in transit.
LEMMA StepHolds == IInv /\ [Next]_vars => IInv'
<1> SUFFICES ASSUME IInv, [Next]_vars PROVE IInv'
  OBVIOUS
<1> USE TagType DEF IInv
<1>1. CASE Send
  <2> DEFINE n == tag_counter + 1
  <2>1. n \in Commands /\ Tag(n) \in Tags /\ n # NoFuture /\ tag_counter \in Nat
    BY <1>1, BoundsAssumption DEF Send, TypeOK, NoFuture, Commands
  <2>0. /\ tag_counter' = n /\ n \in 0..MaxCommands
        /\ commands' = [commands EXCEPT ![Tag(n)] = n]
        /\ \E outcome \in {"waiting", "refused"} :
             call' = [call EXCEPT ![n] = outcome]
        /\ requests' = requests \cup {n} \/ requests' = requests
        /\ tag_reused' \in BOOLEAN
        /\ UNCHANGED <<transport, handshake_made, raw_mode, response, in_flight,
                       buffer, parsing, unknown_tag>>
    BY <1>1, <2>1, BoundsAssumption DEF Send, Commands, TypeOK
  <2>2. TypeOK'
    BY <2>0, <2>1 DEF TypeOK, Outcomes
  <2>3. \A m \in Commands : m > tag_counter' => call'[m] = "unused"
    BY <2>0, <2>1 DEF TypeOK, Commands
  <2>4. ASSUME ~tag_reused' PROVE Pairing'
    <3>1. Pairing /\ commands[Tag(n)] = NoFuture
      BY <1>1, <2>4 DEF Send
    <3>2. /\ tag_counter' = n
          /\ commands' = [commands EXCEPT ![Tag(n)] = n]
          /\ UNCHANGED <<response, in_flight, buffer, unknown_tag>>
          /\ requests' = requests \cup {n} \/ requests' = requests
          /\ \A m \in Commands : m # n => call'[m] = call[m]
          /\ call'[n] \in {"waiting", "refused"}
      BY <1>1, <2>1 DEF Send, TypeOK
    <3>3. \A t \in Tags : commands'[t] # NoFuture =>
             Tag(commands'[t]) = t /\ commands'[t] <= tag_counter'
      BY <2>1, <3>1, <3>2 DEF Pairing, TypeOK, Commands
    <3>4. \A m \in InTransit : m \in Commands /\ m # n /\ Tag(m) # Tag(n)
      BY <2>1, <3>1 DEF Pairing, InTransit, TypeOK, Commands, NoFuture
    <3>5. ASSUME NEW m \in InTransit'
          PROVE  m <= tag_counter' /\ commands'[Tag(m)] = m
      <4>1. CASE m = n
        BY <2>1, <3>2, <4>1 DEF TypeOK, Commands
      <4>2. CASE m # n
        <5>1. m \in InTransit
          BY <3>2, <4>2 DEF InTransit
        <5> QED
          BY <2>1, <3>1, <3>2, <3>4, <5>1 DEF Pairing, TypeOK, Commands
      <4> QED BY <4>1, <4>2
    <3>6. /\ (requests \cap in_flight)' = {}
          /\ (requests \cap buffer)' = {}
          /\ (in_flight \cap buffer)' = {}
      BY <3>1, <3>2, <3>4 DEF Pairing, InTransit
    <3>7. ASSUME NEW m \in Commands, call'[m] = "waiting"
          PROVE  commands'[Tag(m)] = m
      BY <2>1, <3>1, <3>2, <3>7 DEF Pairing, TypeOK, NoFuture, Commands
    <3>8. \A m \in Commands : call'[m] = "answered" => response'[m] = m
      BY <3>1, <3>2 DEF Pairing
    <3> QED
      BY <3>1, <3>2, <3>3, <3>5, <3>6, <3>7, <3>8 DEF Pairing
  <2> QED BY <2>2, <2>3, <2>4
<1>2. ASSUME NEW n \in Commands, TimeOut(n) PROVE IInv'
  BY <1>2 DEF TimeOut, TypeOK, Outcomes, Pairing, InTransit, Commands
<1>3. ASSUME NEW n \in Commands, Answer(n) PROVE IInv'
  BY <1>3 DEF Answer, TypeOK, Pairing, InTransit
<1>4. ASSUME NEW n \in Commands, Resolve(n) PROVE IInv'
  <2> DEFINE m == commands[Tag(n)]
  <2>1. m \in Commands /\ m # NoFuture /\ Tag(n) \in Tags
    BY <1>4 DEF Resolve, SetResult, TypeOK
  <2>2. TypeOK'
    BY <1>4, <2>1 DEF Resolve, SetResult, TypeOK, Outcomes
  <2>3. \A k \in Commands : k > tag_counter' => call'[k] = "unused"
    BY <1>4, <2>1 DEF Resolve, SetResult, TypeOK, Commands
  <2>4. ASSUME ~tag_reused' PROVE Pairing'
    <3>1. Pairing /\ m = n /\ n \in buffer
      BY <1>4, <2>4 DEF Resolve, SetResult, Pairing, InTransit
    <3>2. /\ UNCHANGED <<tag_counter, requests, in_flight, unknown_tag>>
          /\ buffer' = buffer \ {n}
          /\ commands' = [commands EXCEPT ![Tag(n)] = NoFuture]
      BY <1>4 DEF Resolve, SetResult
    <3>3. /\ \A k \in Commands : k # n => call'[k] = call[k] /\ response'[k] = response[k]
          /\ call'[n] # "waiting"
          /\ call'[n] = "answered" => response'[n] = n
      BY <1>4, <3>1 DEF Resolve, SetResult, TypeOK, Pairing
    <3>4. \A k \in InTransit' : k \in InTransit /\ k # n /\ k \in Commands
      BY <3>1, <3>2 DEF InTransit, Pairing, TypeOK
    <3>5. \A k \in InTransit' : k <= tag_counter' /\ commands'[Tag(k)] = k
      BY <2>1, <3>1, <3>2, <3>4 DEF Pairing, InTransit, TypeOK, Commands
    <3>6. \A t \in Tags : commands'[t] # NoFuture =>
             Tag(commands'[t]) = t /\ commands'[t] <= tag_counter'
      BY <2>1, <3>1, <3>2 DEF Pairing, TypeOK
    <3>7. \A k \in Commands : call'[k] = "waiting" => commands'[Tag(k)] = k
      BY <2>1, <3>1, <3>2, <3>3 DEF Pairing, TypeOK
    <3>8. \A k \in Commands : call'[k] = "answered" => response'[k] = k
      BY <3>1, <3>3 DEF Pairing
    <3> QED
      BY <3>1, <3>2, <3>5, <3>6, <3>7, <3>8 DEF Pairing
  <2> QED BY <2>2, <2>3, <2>4
<1>5. ASSUME NEW n \in Commands, ResolveUnknown(n) PROVE IInv'
  <2>1. tag_reused
    <3>1. ASSUME Pairing PROVE FALSE
      BY <1>5, <3>1 DEF ResolveUnknown, TagUnknown, Pairing, InTransit, NoFuture, Commands
    <3> QED BY <3>1
  <2> QED
    BY <1>5, <2>1 DEF ResolveUnknown, TagUnknown, TypeOK
<1>6. ASSUME NEW chunk \in SUBSET in_flight, ReceiveHandshake(chunk) PROVE IInv'
  <2>1. TypeOK' /\ \A n \in Commands : n > tag_counter' => call'[n] = "unused"
    BY <1>6 DEF ReceiveHandshake, TypeOK
  <2>2. ASSUME ~tag_reused' PROVE Pairing'
    BY <1>6, <2>2 DEF ReceiveHandshake, Pairing, InTransit
  <2> QED BY <2>1, <2>2
<1>7. ASSUME NEW chunk \in SUBSET in_flight, ReceiveResponses(chunk) PROVE IInv'
  <2>1. TypeOK' /\ \A n \in Commands : n > tag_counter' => call'[n] = "unused"
    BY <1>7 DEF ReceiveResponses, TypeOK
  <2>2. ASSUME ~tag_reused' PROVE Pairing'
    BY <1>7, <2>2 DEF ReceiveResponses, Pairing, InTransit
  <2> QED BY <2>1, <2>2
<1>8. CASE RefuseHandshake \/ CloseTransport
  BY <1>8 DEF RefuseHandshake, CloseTransport, TypeOK, Pairing, InTransit
<1>11. CASE BecomeRaw
  <2>1. TypeOK' /\ \A n \in Commands : n > tag_counter' => call'[n] = "unused"
    BY <1>11 DEF BecomeRaw, TypeOK
  <2>2. ASSUME ~tag_reused' PROVE Pairing'
    BY <1>11, <2>2 DEF BecomeRaw, Pairing, InTransit
  <2> QED BY <2>1, <2>2
<1>12. ASSUME NEW chunk \in SUBSET in_flight, ReceiveRaw(chunk) PROVE IInv'
  <2>1. TypeOK' /\ \A n \in Commands : n > tag_counter' => call'[n] = "unused"
    BY <1>12 DEF ReceiveRaw, TypeOK
  <2>2. ASSUME ~tag_reused' PROVE Pairing'
    BY <1>12, <2>2 DEF ReceiveRaw, Pairing, InTransit
  <2> QED BY <2>1, <2>2
<1>9. CASE ConnectionLost
  <2>1. TypeOK' /\ \A n \in Commands : n > tag_counter' => call'[n] = "unused"
    BY <1>9 DEF ConnectionLost, TypeOK, Outcomes, Commands
  <2>2. ASSUME ~tag_reused' PROVE Pairing'
    BY <1>9, <2>2 DEF ConnectionLost, Pairing, InTransit, TypeOK
  <2> QED BY <2>1, <2>2
<1>10. CASE UNCHANGED vars
  BY <1>10 DEF vars, TypeOK, Pairing, InTransit
<1> QED
  BY <1>1, <1>2, <1>3, <1>4, <1>5, <1>6, <1>7, <1>8, <1>9, <1>10, <1>11, <1>12
  DEF Next

\* The pairing holds throughout.
LEMMA Invariance == Spec => []IInv
BY InitHolds, StepHolds, PTL DEF Spec

\* Every variable keeps its type: in particular tags stay within nine digits,
\* whatever the counter (line 222), and futures within the commands sent.
THEOREM TypeCorrect == Spec => []TypeOK
<1>1. IInv => TypeOK
  BY DEF IInv
<1> QED
  BY <1>1, Invariance, PTL

\* Responses and commands are never paired wrongly: until a tag is reused while
\* registered, every answered command has its own response, every waiting one is
\* registered, and no response has an unknown tag.
THEOREM ResponsesArePaired ==
    Spec => [](OwnResponse /\ WaitingIsRegistered /\ NoUnknownTag)
<1>1. IInv => OwnResponse /\ WaitingIsRegistered /\ NoUnknownTag
  BY DEF IInv, Pairing, OwnResponse, WaitingIsRegistered, NoUnknownTag
<1> QED
  BY <1>1, Invariance, PTL

\* No task waits for a future that a response, or the loss of the connection,
\* will not find (connection_lost goes through the dictionary alone).
THEOREM WaitersAreFound == Spec => []WaitingIsRegistered
BY ResponsesArePaired, PTL

\* No response takes the connection down with an unknown tag, however late it
\* is, before tags are reused.
THEOREM TagsAreKnown == Spec => []NoUnknownTag
BY ResponsesArePaired, PTL

\* A command that is over stays what it was, with or without reused tags.
THEOREM OutcomesStay == Spec => OutcomesAreFinal
<1>1. IInv /\ [Next]_vars =>
        [\A n \in Commands :
            call[n] \in Outcomes => call'[n] = call[n] /\ response'[n] = response[n]]_vars
  <2> SUFFICES ASSUME IInv, Next, NEW n \in Commands, call[n] \in Outcomes
               PROVE  call'[n] = call[n] /\ response'[n] = response[n]
    OBVIOUS
  <2>1. /\ call[n] # "unused" /\ call[n] # "waiting"
        /\ n <= tag_counter /\ tag_counter \in Nat
    <3>1. tag_counter \in Nat /\ n \in Nat
      BY BoundsAssumption DEF IInv, TypeOK, Commands
    <3>2. call[n] # "unused" /\ call[n] # "waiting"
      BY DEF Outcomes
    <3> QED
      BY <3>1, <3>2 DEF IInv
  <2>2. CASE Send
    <3>1. n # tag_counter + 1
      BY <2>1 DEF Commands
    <3> QED
      BY <2>2, <3>1 DEF Send, IInv, TypeOK
  <2>3. ASSUME NEW m \in Commands,
               TimeOut(m) \/ Answer(m) \/ Resolve(m) \/ ResolveUnknown(m)
        PROVE  call'[n] = call[n] /\ response'[n] = response[n]
    BY <2>1, <2>3 DEF TimeOut, Answer, Resolve, SetResult, ResolveUnknown,
       TagUnknown, IInv, TypeOK
  <2>4. ASSUME NEW chunk \in SUBSET in_flight,
               ReceiveHandshake(chunk) \/ ReceiveResponses(chunk) \/ ReceiveRaw(chunk)
        PROVE  call'[n] = call[n] /\ response'[n] = response[n]
    BY <2>4 DEF ReceiveHandshake, ReceiveResponses, ReceiveRaw
  <2>5. CASE RefuseHandshake \/ BecomeRaw \/ CloseTransport \/ ConnectionLost
    BY <2>1, <2>5 DEF RefuseHandshake, BecomeRaw, CloseTransport, ConnectionLost
  <2> QED
    BY <2>2, <2>3, <2>4, <2>5 DEF Next
<1> QED
  BY <1>1, Invariance, PTL DEF Spec, OutcomesAreFinal

\* Up to 16^8 commands no tag is ever given out twice, so the conditions above
\* hold without exception.
THEOREM TagsSuffice ==
    ASSUME MaxCommands < TagLimit
    PROVE  Spec => []~tag_reused
<1> DEFINE J == IInv /\ ~tag_reused
<1>1. Init => J
  BY InitHolds DEF Init
<1>2. J /\ [Next]_vars => J'
  <2> SUFFICES ASSUME J, [Next]_vars PROVE ~tag_reused'
    BY StepHolds
  <2>1. CASE Send
    <3> DEFINE n == tag_counter + 1
    <3>1. \A k \in Commands : Tag(k) = k
      BY BoundsAssumption DEF Tag, Commands
    <3>2. n \in Commands /\ n \in Tags /\ Tag(n) = n
      BY <2>1, <3>1, TagType DEF Send
    <3>3. commands[n] = NoFuture
      <4>1. CASE commands[n] # NoFuture
        <5>1. commands[n] \in Commands /\ Tag(commands[n]) = n /\ commands[n] <= tag_counter
          BY <3>2, <4>1 DEF IInv, TypeOK, Pairing
        <5> QED
          BY <3>1, <3>2, <5>1 DEF IInv, TypeOK, Commands
      <4> QED BY <4>1
    <3> QED
      BY <2>1, <3>2, <3>3 DEF Send
  <2> QED
    BY <2>1 DEF Next, TimeOut, Answer, Resolve, SetResult, ResolveUnknown, TagUnknown,
       ReceiveHandshake, ReceiveResponses, ReceiveRaw, BecomeRaw, RefuseHandshake,
       CloseTransport, ConnectionLost, vars
<1> QED
  BY <1>1, <1>2, PTL DEF Spec

---------------------------------------------------------------------------
(* Progress.  ENABLED is beyond the provers, so weak fairness is said with *)
(* the guard of its action written out; what is left is plain induction.   *)

\* What the loop and the loss of the connection leave behind: the loop runs on
\* an open transport only and has something to do, and once the connection is
\* lost nobody waits.
Ending ==
    /\ parsing => transport = "open" /\ handshake_made /\ buffer # {}
    /\ ~tag_reused /\ transport = "lost" =>
         \A n \in Commands : call[n] # "waiting"

LEMMA EndingStep == IInv /\ Ending /\ [Next]_vars => Ending'
<1> SUFFICES ASSUME IInv, Ending, [Next]_vars PROVE Ending'
  OBVIOUS
<1>1. CASE Send
  <2>1. /\ UNCHANGED <<transport, handshake_made, buffer, parsing>> /\ ~parsing
        /\ tag_reused' = FALSE => tag_reused = FALSE
    BY <1>1 DEF Send, IInv, TypeOK
  <2>2. ASSUME ~tag_reused', transport' = "lost", NEW n \in Commands
        PROVE  call'[n] # "waiting"
    <3>1. /\ ~tag_reused /\ transport = "lost"
          /\ call' = [call EXCEPT ![tag_counter + 1] = "refused"]
      BY <1>1, <2>1, <2>2 DEF Send
    <3> QED
      BY <3>1 DEF Ending, IInv, TypeOK
  <2> QED
    BY <2>1, <2>2 DEF Ending
<1>2. ASSUME NEW n \in Commands, TimeOut(n) \/ Answer(n) PROVE Ending'
  <2>1. /\ UNCHANGED <<transport, parsing, tag_reused>> /\ ~parsing
        /\ \A m \in Commands : call'[m] # call[m] => call'[m] = "timed out"
    BY <1>2 DEF TimeOut, Answer, IInv, TypeOK
  <2> QED
    BY <2>1 DEF Ending
<1>3. ASSUME NEW n \in Commands, Resolve(n) PROVE Ending'
  <2>1. /\ UNCHANGED <<transport, handshake_made, tag_reused>>
        /\ transport = "open" /\ handshake_made
        /\ parsing' => buffer' # {}
    BY <1>3 DEF Resolve, Ending
  <2> QED
    BY <2>1 DEF Ending
<1>4. ASSUME NEW n \in Commands, ResolveUnknown(n) PROVE Ending'
  BY <1>4 DEF ResolveUnknown, TagUnknown, Ending
<1>5. ASSUME NEW chunk \in SUBSET in_flight,
             ReceiveHandshake(chunk) \/ ReceiveResponses(chunk) \/ ReceiveRaw(chunk)
      PROVE  Ending'
  BY <1>5 DEF ReceiveHandshake, ReceiveResponses, ReceiveRaw, Ending
<1>6. CASE RefuseHandshake \/ BecomeRaw \/ CloseTransport
  BY <1>6 DEF RefuseHandshake, BecomeRaw, CloseTransport, Ending
<1>7. CASE ConnectionLost
  <2>1. ~parsing' /\ UNCHANGED tag_reused
    BY <1>7 DEF ConnectionLost
  <2>2. ASSUME ~tag_reused, NEW n \in Commands, call'[n] = "waiting" PROVE FALSE
    <3>1. call[n] = "waiting" /\ ~\E t \in Tags : commands[t] = n
      BY <1>7, <2>2 DEF ConnectionLost
    <3>2. commands[Tag(n)] = n /\ Tag(n) \in Tags
      BY <2>2, <3>1, TagType DEF IInv, Pairing
    <3> QED
      BY <3>1, <3>2
  <2> QED
    BY <2>1, <2>2 DEF Ending
<1>8. CASE UNCHANGED vars
  BY <1>8 DEF vars, Ending
<1> QED
  BY <1>1, <1>2, <1>3, <1>4, <1>5, <1>6, <1>7, <1>8 DEF Next

LEMMA EndingHolds == Spec => []Ending
<1>1. Init => Ending
  BY DEF Init, Ending
<1> QED
  BY <1>1, EndingStep, Invariance, PTL DEF Spec

\* Nobody waits on a connection that is lost, whatever was sent before or after
\* (connection_lost, lines 69-70, and send on a closed transport).
NobodyWaitsWhenLost ==
    ~tag_reused /\ transport = "lost" =>
        \A n \in Commands : call[n] # "waiting"

\* The loss of the connection is the last thing anybody had to wait for.
THEOREM LostHasNoWaiters == Spec => []NobodyWaitsWhenLost
<1>1. Ending => NobodyWaitsWhenLost
  BY DEF Ending, NobodyWaitsWhenLost
<1> QED
  BY <1>1, EndingHolds, PTL

\* The event loop calls connection_lost on a transport that is closing, unless
\* it is for ever busy in data_received: weak fairness of
\* transport = "closing" /\ ConnectionLost, with its guard in place of ENABLED.
ConnectionLostIsCalled ==
    \/ []<>~(transport = "closing" /\ ~parsing)
    \/ []<><<transport = "closing" /\ ConnectionLost>>_vars

\* Given that, every task is told: from the moment the connection goes down each
\* call ends, by whatever comes first (lines 69-70).
THEOREM LossIsReported == Spec /\ ConnectionLostIsCalled => LossEndsCalls
<1> SUFFICES ASSUME NEW n \in Commands
             PROVE  Spec /\ ConnectionLostIsCalled =>
                       ((transport # "open" /\ call[n] = "waiting")
                            ~> (call[n] # "waiting" \/ tag_reused))
  BY DEF LossEndsCalls
<1>1. IInv /\ transport = "closing" /\ [Next]_vars =>
        (transport = "closing")' \/ (transport = "lost")'
  BY DEF Next, vars, Send, TimeOut, Answer, Resolve, ResolveUnknown, TagUnknown,
     ReceiveHandshake, ReceiveResponses, ReceiveRaw, BecomeRaw, RefuseHandshake,
     CloseTransport, ConnectionLost
<1>2. <<transport = "closing" /\ ConnectionLost>>_vars => (transport = "lost")'
  BY DEF ConnectionLost
<1>3. Ending /\ transport = "closing" => transport = "closing" /\ ~parsing
  BY DEF Ending
<1>4. Spec /\ ConnectionLostIsCalled => (transport = "closing" ~> transport = "lost")
  BY <1>1, <1>2, <1>3, Invariance, EndingHolds, PTL DEF Spec, ConnectionLostIsCalled
<1>5. NobodyWaitsWhenLost => (transport = "lost" => call[n] # "waiting" \/ tag_reused)
  BY DEF NobodyWaitsWhenLost
<1>6. IInv => (transport # "open" => transport = "closing" \/ transport = "lost")
  BY DEF IInv, TypeOK
<1> QED
  BY <1>4, <1>5, <1>6, LostHasNoWaiters, Invariance, PTL

\* While the loop runs nothing else does, and each of its turns takes one
\* response out of the buffer: it ends after as many turns as there are (204-220).
OneResponseEachTurn ==
    [][parsing => \E n \in buffer : buffer' = buffer \ {n}]_vars

\* The loop is never without a response to take, and nothing delays it.
THEOREM LoopEmptiesBuffer == Spec => [](parsing => buffer # {}) /\ OneResponseEachTurn
<1>1. IInv /\ Ending /\ [Next]_vars =>
        [parsing => \E n \in buffer : buffer' = buffer \ {n}]_vars
  BY DEF Next, vars, Send, TimeOut, Answer, Resolve, ResolveUnknown, Ending,
     ReceiveHandshake, ReceiveResponses, ReceiveRaw, BecomeRaw, RefuseHandshake,
     CloseTransport, ConnectionLost
<1>2. Ending => (parsing => buffer # {})
  BY DEF Ending
<1> QED
  BY <1>1, <1>2, Invariance, EndingHolds, PTL DEF Spec, OneResponseEachTurn
=============================================================================
