--------------------------- MODULE AsyncProtocol ---------------------------
(***************************************************************************)
(* AsyncFgcProtocol of src/pyfgc/protocols/async_fgc.py: one connection on *)
(* which any number of tasks have commands under way, told apart by tags.  *)
(*                                                                         *)
(* Commands are numbered as tag_counter numbers them.  The gateway answers *)
(* in an order of its own, so requests and responses in transit are sets,  *)
(* a response standing for the number of its command; responses arrive     *)
(* whole here.  AsyncStream puts them together from the symbols received,  *)
(* and implements this module.  Everything runs on one event loop: while   *)
(* data_received works through its buffer (parsing) nothing else happens.  *)
(***************************************************************************)
EXTENDS Integers

CONSTANTS
    MaxCommands,  \* bound: commands sent on one connection
    TagLimit,     \* 16^8: the numbers that fit the eight digits of a tag
    Base          \* 16

ASSUME BoundsAssumption ==
    /\ MaxCommands \in Nat
    /\ TagLimit \in Nat \ {0}
    /\ Base \in Nat \ {0, 1}
    /\ MaxCommands < Base * TagLimit

Commands == 1..MaxCommands
NoFuture == 0

\* "{:08X}".format(n)[:8]: a number of nine digits loses the last one.
Tag(n) == IF n < TagLimit THEN n ELSE n \div Base

Tags == 0..(Base * TagLimit)

VARIABLES
    transport,      \* "open", "closing" (is_closing), "lost"
    handshake_made,
    raw_mode,       \* what is received goes to a remote terminal's StreamReader
    tag_counter,
    commands,       \* tag -> the command whose future is registered
    call,           \* what became of each command, for the task that awaits it
    response,       \* the response its future was resolved with
    requests,       \* written and not answered
    in_flight,      \* responses sent by the gateway and not received
    buffer,         \* responses in self.buffer
    parsing,        \* in the loop of __process_responses
    unknown_tag,    \* has the loop raised KeyError?
    tag_reused      \* was a tag given out again while still registered?

vars == <<transport, handshake_made, raw_mode, tag_counter, commands, call, response,
          requests, in_flight, buffer, parsing, unknown_tag, tag_reused>>

Outcomes == {"answered", "timed out", "cancelled", "refused"}

TypeOK ==
    /\ transport \in {"open", "closing", "lost"}
    /\ handshake_made \in BOOLEAN
    /\ raw_mode \in BOOLEAN
    /\ tag_counter \in 0..MaxCommands
    /\ commands \in [Tags -> Commands \cup {NoFuture}]
    /\ call \in [Commands -> Outcomes \cup {"unused", "waiting"}]
    /\ response \in [Commands -> Commands \cup {NoFuture}]
    /\ requests \in SUBSET Commands
    /\ in_flight \in SUBSET Commands
    /\ buffer \in SUBSET Commands
    /\ parsing \in BOOLEAN
    /\ unknown_tag \in BOOLEAN
    /\ tag_reused \in BOOLEAN

\* connection_made: the client's handshake is sent, the gateway's is due.
Init ==
    /\ transport = "open"
    /\ handshake_made = FALSE
    /\ raw_mode = FALSE
    /\ tag_counter = 0
    /\ commands = [t \in Tags |-> NoFuture]
    /\ call = [n \in Commands |-> "unused"]
    /\ response = [n \in Commands |-> NoFuture]
    /\ requests = {}
    /\ in_flight = {}
    /\ buffer = {}
    /\ parsing = FALSE
    /\ unknown_tag = FALSE
    /\ tag_reused = FALSE

---------------------------------------------------------------------------
\* Mutant: the tag is taken before the counter is advanced.
SendOldTag ==
    LET n == tag_counter
    IN  /\ ~parsing
        /\ n + 1 \in Commands
        /\ tag_counter' = n + 1
        /\ commands' = [commands EXCEPT ![Tag(n)] = n]
        /\ call' = [call EXCEPT ![n] = "waiting"]
        /\ requests' = requests \cup {n}
        /\ UNCHANGED <<transport, handshake_made, raw_mode, response,
                       in_flight, buffer, parsing, unknown_tag, tag_reused>>

\* get, set: a new tag, a future registered under it, the command written.  On
\* a closing transport send raises and the future stays registered.
Send ==
    LET n == tag_counter + 1
    IN  /\ ~parsing
        /\ n \in Commands
        /\ tag_counter' = n
        /\ commands' = [commands EXCEPT ![Tag(n)] = n]
        /\ IF transport = "open"
           THEN /\ call' = [call EXCEPT ![n] = "waiting"]
                /\ requests' = requests \cup {n}
           ELSE /\ call' = [call EXCEPT ![n] = "refused"]
                /\ UNCHANGED requests
        /\ tag_reused' = (tag_reused \/ commands[Tag(n)] # NoFuture)
        /\ UNCHANGED <<transport, handshake_made, raw_mode, response,
                       in_flight, buffer, parsing, unknown_tag>>

\* Mutant: the entry is removed with the future.
TimeOutForgets(n) ==
    /\ ~parsing
    /\ call[n] = "waiting"
    /\ call' = [call EXCEPT ![n] = "timed out"]
    /\ commands' = [commands EXCEPT ![Tag(n)] = NoFuture]
    /\ UNCHANGED <<transport, handshake_made, raw_mode, tag_counter, response,
                   requests, in_flight, buffer, parsing, unknown_tag,
                   tag_reused>>

\* wait_for in AsyncFgc.get, set, _set_token: the future is cancelled, and what
\* is registered stays for the response that may still come.
TimeOut(n) ==
    /\ ~parsing
    /\ call[n] = "waiting"
    /\ call' = [call EXCEPT ![n] = "timed out"]
    /\ UNCHANGED <<transport, handshake_made, raw_mode, tag_counter, commands,
                   response, requests, in_flight, buffer, parsing, unknown_tag,
                   tag_reused>>

\* The gateway answers any of the commands it has.
Answer(n) ==
    /\ ~parsing
    /\ n \in requests
    /\ requests' = requests \ {n}
    /\ in_flight' = in_flight \cup {n}
    /\ UNCHANGED <<transport, handshake_made, raw_mode, tag_counter, commands,
                   call, response, buffer, parsing, unknown_tag, tag_reused>>

---------------------------------------------------------------------------
\* data_received on the first chunk: the gateway's "+", and what came with it.
\* One character is taken from the buffer and the rest is not looked at.
ReceiveHandshake(chunk) ==
    /\ transport = "open"
    /\ ~handshake_made
    /\ handshake_made' = TRUE
    /\ in_flight' = in_flight \ chunk
    /\ buffer' = chunk
    /\ UNCHANGED <<transport, raw_mode, tag_counter, commands, call, response,
                   requests, parsing, unknown_tag, tag_reused>>

\* Another character than "+": ConnectionError out of data_received, upon which
\* the event loop closes the transport.
RefuseHandshake ==
    /\ transport = "open"
    /\ ~handshake_made
    /\ transport' = "closing"
    /\ UNCHANGED <<handshake_made, raw_mode, tag_counter, commands, call,
                   response, requests, in_flight, buffer, parsing, unknown_tag,
                   tag_reused>>

\* data_received later: the chunk joins the buffer, the loop starts.  A chunk
\* that completes no response starts it for those the handshake left there.
ReceiveResponses(chunk) ==
    /\ transport = "open"
    /\ ~parsing
    /\ handshake_made
    /\ ~raw_mode
    /\ chunk # {} \/ buffer # {}
    /\ in_flight' = in_flight \ chunk
    /\ buffer' = buffer \cup chunk
    /\ parsing' = TRUE
    /\ UNCHANGED <<transport, handshake_made, raw_mode, tag_counter, commands,
                   call, response, requests, unknown_tag, tag_reused>>

\* Mutants: responses are given out in turn; a future is dropped; a cancelled
\* future is resolved all the same.
SetResultOf(n, m, outcome) ==
    /\ m # NoFuture
    /\ commands' = [commands EXCEPT ![Tag(m)] = NoFuture]
    /\ call' = [call EXCEPT ![m] = outcome]
    /\ response' = [response EXCEPT ![m] = n]
SetResultInTurn(n) ==
    \E m \in Commands :
        /\ call[m] = "waiting"
        /\ \A k \in 1..(m - 1) : call[k] # "waiting"
        /\ SetResultOf(n, m, "answered")
SetResultDrops(n) ==
    SetResultOf(n, commands[Tag(n)],
                IF commands[Tag(n)] = NoFuture THEN "" ELSE call[commands[Tag(n)]])
SetResultAnyway(n) == SetResultOf(n, commands[Tag(n)], "answered")

\* The entry of the response's tag is removed and its future is resolved, if it
\* was not cancelled.
SetResult(n) ==
    LET m == commands[Tag(n)]
    IN  /\ m # NoFuture
        /\ commands' = [commands EXCEPT ![Tag(n)] = NoFuture]
        /\ IF call[m] = "waiting"
           THEN /\ call' = [call EXCEPT ![m] = "answered"]
                /\ response' = [response EXCEPT ![m] = n]
           ELSE UNCHANGED <<call, response>>

\* A turn of the loop: a response is taken out of the buffer.
Resolve(n) ==
    /\ parsing
    /\ n \in buffer
    /\ SetResult(n)
    /\ buffer' = buffer \ {n}
    /\ parsing' = (buffer # {n})
    /\ UNCHANGED <<transport, handshake_made, raw_mode, tag_counter, requests,
                   in_flight, unknown_tag, tag_reused>>

\* No future has the tag: KeyError out of data_received closes the transport.
TagUnknown(n) ==
    /\ commands[Tag(n)] = NoFuture
    /\ unknown_tag' = TRUE
    /\ transport' = "closing"

ResolveUnknown(n) ==
    /\ parsing
    /\ n \in buffer
    /\ TagUnknown(n)
    /\ buffer' = buffer \ {n}
    /\ parsing' = FALSE
    /\ UNCHANGED <<handshake_made, raw_mode, tag_counter, commands, call,
                   response, requests, in_flight, tag_reused>>

---------------------------------------------------------------------------
\* enable_rterm_mode: the lock's response came, and some time later its task
\* switches to the raw mode, with what is in the buffer.
BecomeRaw ==
    /\ ~parsing
    /\ ~raw_mode
    /\ \E n \in Commands : call[n] = "answered"
    /\ raw_mode' = TRUE
    /\ buffer' = {}
    /\ UNCHANGED <<transport, handshake_made, tag_counter, commands, call,
                   response, requests, in_flight, parsing, unknown_tag,
                   tag_reused>>

\* data_received in raw mode: nobody looks for responses any more, and commands
\* that wait for one are left to their timeouts.
ReceiveRaw(chunk) ==
    /\ transport = "open"
    /\ ~parsing
    /\ raw_mode
    /\ in_flight' = in_flight \ chunk
    /\ UNCHANGED <<transport, handshake_made, raw_mode, tag_counter, commands,
                   call, response, requests, buffer, parsing, unknown_tag,
                   tag_reused>>

---------------------------------------------------------------------------
\* disconnect, or the gateway sent its end of file (eof_received).
CloseTransport ==
    /\ ~parsing
    /\ transport = "open"
    /\ transport' = "closing"
    /\ UNCHANGED <<handshake_made, raw_mode, tag_counter, commands, call,
                   response, requests, in_flight, buffer, parsing, unknown_tag,
                   tag_reused>>

\* Mutant: the futures are left pending.
ConnectionLostSilently ==
    /\ ~parsing
    /\ transport # "lost"
    /\ transport' = "lost"
    /\ UNCHANGED <<handshake_made, raw_mode, tag_counter, commands, call,
                   response, requests, in_flight, buffer, parsing, unknown_tag,
                   tag_reused>>

\* connection_lost, after the transport was closed or because of a reset: every
\* registered future is cancelled, and stays registered.
ConnectionLost ==
    /\ ~parsing
    /\ transport # "lost"
    /\ transport' = "lost"
    /\ call' = [n \in Commands |->
                   IF call[n] = "waiting" /\ (\E t \in Tags : commands[t] = n)
                   THEN "cancelled" ELSE call[n]]
    /\ UNCHANGED <<handshake_made, raw_mode, tag_counter, commands, response,
                   requests, in_flight, buffer, parsing, unknown_tag,
                   tag_reused>>

Next ==
    \/ Send
    \/ \E n \in Commands :
         TimeOut(n) \/ Answer(n) \/ Resolve(n) \/ ResolveUnknown(n)
    \/ \E chunk \in SUBSET in_flight :
         ReceiveHandshake(chunk) \/ ReceiveResponses(chunk) \/ ReceiveRaw(chunk)
    \/ RefuseHandshake
    \/ BecomeRaw
    \/ CloseTransport
    \/ ConnectionLost

\* The event loop runs what is scheduled: the loop over the buffer goes on, and
\* connection_lost is called soon after a transport starts closing.
Fairness ==
    /\ WF_vars(\E n \in Commands : Resolve(n) \/ ResolveUnknown(n))
    /\ WF_vars(transport = "closing" /\ ConnectionLost)

Spec == Init /\ [][Next]_vars
FairSpec == Spec /\ Fairness

---------------------------------------------------------------------------
\* Until a tag comes round again while it is still registered (at the earliest
\* after 16^8 commands), a command is answered with its own response, whatever
\* order the responses come in and however late others were (lines 222-254).
OwnResponse ==
    ~tag_reused => \A n \in Commands : call[n] = "answered" => response[n] = n

\* A task that waits has its future registered, where a response or the loss of
\* the connection will find it.
WaitingIsRegistered ==
    ~tag_reused => \A n \in Commands : call[n] = "waiting" => commands[Tag(n)] = n

\* No response of the gateway finds its tag unknown, which would take the whole
\* connection down: a timeout leaves its entry for the response (line 246).
NoUnknownTag == unknown_tag => tag_reused

\* What a task was told stays true: a late response or the loss of the connection
\* changes nothing for a command that is over (lines 249-254).
OutcomesAreFinal ==
    [][\A n \in Commands :
          call[n] \in Outcomes =>
              call'[n] = call[n] /\ response'[n] = response[n]]_vars

\* Once the connection is going down every task is told, even one without a
\* timeout (connection_lost, lines 69-70).
LossEndsCalls ==
    \A n \in Commands :
        (transport # "open" /\ call[n] = "waiting")
            ~> (call[n] # "waiting" \/ tag_reused)

\* "Will resolve when the response arrives" (docstrings of set and get, lines 264
\* and 279): nobody waits for a response that is in the buffer.
ResolvedOnArrival ==
    ~parsing => \A n \in buffer : call[n] # "waiting"
============================================================================
