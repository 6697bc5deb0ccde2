------------------------------ MODULE AsyncFgc ------------------------------
(***************************************************************************)
(* AsyncFgc of src/pyfgc/protocols/async_fgc.py: the asynchronous sessions *)
(* of one event loop, and the connections (AsyncFgcProtocol) they share,   *)
(* one for each gateway.                                                   *)
(*                                                                         *)
(* Tasks run one at a time, so an action is what a task does between two   *)
(* awaits.  Opening a connection and setting its token are awaited with    *)
(* the loop's asyncio.Lock held; disconnect awaits the lock alone, and is  *)
(* one action.  What goes over a connection is in AsyncProtocol.           *)
(***************************************************************************)
EXTENDS Naturals, FiniteSets

CONSTANTS
    Gateways,
    Sessions,      \* AsyncFgc objects; FgcAsyncSession connects each once
    Protocols,     \* bound: the connections that are ever opened
    NoProtocol,    \* Python's None
    NoSession,     \* the lock is free
    TokenHolders,  \* the sessions with an RBAC token, others have None
    Losses         \* how connections end: by an "error", an "eof"

ASSUME SessionsAssumption == IsFiniteSet(Sessions) /\ TokenHolders \subseteq Sessions
ASSUME NoneAssumption == NoProtocol \notin Protocols /\ NoSession \notin Sessions
ASSUME LossesAssumption == Losses \subseteq {"error", "eof"}

VARIABLES
    protocol_dict,   \* gateway -> protocol, NoProtocol: no entry
    protocol_users,  \* protocol -> count, 0: no entry
    async_lock,      \* owner of the loop's lock between two steps
    pc,              \* where each object is in connect and disconnect
    target,          \* target_gw of each object
    protocol,        \* self.protocol of each object
    transport,       \* of each protocol
    callbacks,       \* connection_lost_callbacks of each protocol
    scheduled,       \* objects whose callback's disconnect is still to run
    twice            \* protocols that one object was counted off twice

sharedVars == <<protocol_dict, protocol_users>>
vars == <<sharedVars, async_lock, pc, target, protocol, transport, callbacks,
          scheduled, twice>>

PCs == {"new",        \* connect not called yet
        "waiting",    \* at "async with self.async_lock" of connect
        "opening",    \* in create_connection
        "opened",     \* connection made, connect not resumed yet
        "token",      \* CLIENT.TOKEN sent and not answered
        "answered",   \* answered, connect not resumed yet
        "connected",
        "failed",     \* connect raised
        "gone"}       \* disconnect called

TypeOK ==
    /\ protocol_dict \in [Gateways -> Protocols \cup {NoProtocol}]
    /\ protocol_users \in [Protocols -> Nat]
    /\ async_lock \in Sessions \cup {NoSession}
    /\ pc \in [Sessions -> PCs]
    /\ target \in [Sessions -> Gateways]
    /\ protocol \in [Sessions -> Protocols \cup {NoProtocol}]
    /\ transport \in [Protocols -> {"unused", "open", "closed", "lost"}]
    /\ callbacks \in [Protocols -> SUBSET Sessions]
    /\ scheduled \in SUBSET Sessions
    /\ twice \in SUBSET Protocols

Init ==
    /\ protocol_dict = [g \in Gateways |-> NoProtocol]
    /\ protocol_users = [p \in Protocols |-> 0]
    /\ async_lock = NoSession
    /\ pc = [s \in Sessions |-> "new"]
    /\ target \in [Sessions -> Gateways]
    /\ protocol = [s \in Sessions |-> NoProtocol]
    /\ transport = [p \in Protocols |-> "unused"]
    /\ callbacks = [p \in Protocols |-> {}]
    /\ scheduled = {}
    /\ twice = {}

---------------------------------------------------------------------------
(* connect.                                                                *)

Go(s, from, to) == pc[s] = from /\ pc' = [pc EXCEPT ![s] = to]

\* connect is called and gets to the lock.
Connect(s) ==
    /\ Go(s, "new", "waiting")
    /\ UNCHANGED <<sharedVars, async_lock, target, protocol, transport, callbacks,
                   scheduled, twice>>

\* Mutant: the new user is not counted.
JoinUncounted(s) ==
    LET p == protocol_dict[target[s]]
    IN  /\ Go(s, "waiting", "connected")
        /\ async_lock = NoSession
        /\ p # NoProtocol
        /\ protocol' = [protocol EXCEPT ![s] = p]
        /\ callbacks' = [callbacks EXCEPT ![p] = @ \cup {s}]
        /\ UNCHANGED <<sharedVars, async_lock, target, transport, scheduled, twice>>

\* There is a connection to the gateway: one user more, and the callback.  It
\* is not looked at, and the session's token is not sent.
Join(s) ==
    LET p == protocol_dict[target[s]]
    IN  /\ Go(s, "waiting", "connected")
        /\ async_lock = NoSession
        /\ p # NoProtocol
        /\ protocol' = [protocol EXCEPT ![s] = p]
        /\ protocol_users' = [protocol_users EXCEPT ![p] = @ + 1]
        /\ callbacks' = [callbacks EXCEPT ![p] = @ \cup {s}]
        /\ UNCHANGED <<protocol_dict, async_lock, target, transport, scheduled, twice>>

\* Mutant: the lock is not kept while the connection is opened.
BeginOpenUnlocked(s) ==
    /\ Go(s, "waiting", "opening")
    /\ protocol_dict[target[s]] = NoProtocol
    /\ UNCHANGED <<sharedVars, async_lock, target, protocol, transport, callbacks,
                   scheduled, twice>>

\* There is none: KeyError, and create_connection is awaited with the lock.
BeginOpen(s) ==
    /\ Go(s, "waiting", "opening")
    /\ async_lock = NoSession
    /\ protocol_dict[target[s]] = NoProtocol
    /\ async_lock' = s
    /\ UNCHANGED <<sharedVars, target, protocol, transport, callbacks, scheduled,
                   twice>>

OpenSucceeds(s) ==
    /\ Go(s, "opening", "opened")
    /\ \E p \in Protocols :
         /\ transport[p] = "unused"
         /\ transport' = [transport EXCEPT ![p] = "open"]
         /\ protocol' = [protocol EXCEPT ![s] = p]
    /\ UNCHANGED <<sharedVars, async_lock, target, callbacks, scheduled, twice>>

\* Mutant: the exception leaves the lock taken.
OpenFailsLocked(s) ==
    /\ Go(s, "opening", "failed")
    /\ UNCHANGED <<sharedVars, async_lock, target, protocol, transport, callbacks,
                   scheduled, twice>>

\* Refused, unreachable, or not answered within timeout_s.
OpenFails(s) ==
    /\ Go(s, "opening", "failed")
    /\ async_lock' = NoSession
    /\ UNCHANGED <<sharedVars, target, protocol, transport, callbacks, scheduled,
                   twice>>

\* connect resumes: the connection is stored, and the token sent if there is
\* one; without a token connect is done.
Store(s) ==
    LET p == protocol[s]
    IN  /\ pc[s] = "opened"
        /\ protocol_dict' = [protocol_dict EXCEPT ![target[s]] = p]
        /\ protocol_users' = [protocol_users EXCEPT ![p] = 1]
        /\ IF s \in TokenHolders
           THEN /\ pc' = [pc EXCEPT ![s] = "token"]
                /\ UNCHANGED <<async_lock, callbacks>>
           ELSE /\ pc' = [pc EXCEPT ![s] = "connected"]
                /\ async_lock' = NoSession
                /\ callbacks' = [callbacks EXCEPT ![p] = @ \cup {s}]
        /\ UNCHANGED <<target, protocol, transport, scheduled, twice>>

\* The response to CLIENT.TOKEN arrived and its future is resolved.
TokenAnswered(s) ==
    /\ Go(s, "token", "answered")
    /\ transport[protocol[s]] = "open"
    /\ UNCHANGED <<sharedVars, async_lock, target, protocol, transport, callbacks,
                   scheduled, twice>>

\* The token was accepted: the callback is added, also to a connection that was
\* lost by now.
FinishConnect(s) ==
    /\ Go(s, "answered", "connected")
    /\ async_lock' = NoSession
    /\ callbacks' = [callbacks EXCEPT ![protocol[s]] = @ \cup {s}]
    /\ UNCHANGED <<sharedVars, target, protocol, transport, scheduled, twice>>

\* Any exception but TimeoutError leaves connect and nothing is taken back: the
\* token was refused (FgcResponseError), or the connection was lost and with it
\* the future (CancelledError) or the way to send (RuntimeError).
TokenFails(s) ==
    /\ \/ Go(s, "answered", "failed")
       \/ Go(s, "token", "failed") /\ transport[protocol[s]] # "open"
    /\ async_lock' = NoSession
    /\ UNCHANGED <<sharedVars, target, protocol, transport, callbacks, scheduled,
                   twice>>

\* What remains of an open connection that the program itself closes.
ClosedTransport(p) ==
    transport' = [transport EXCEPT ![p] = IF @ = "open" THEN "closed" ELSE @]

\* Mutant: the connection is forgotten, not closed.
TokenTimesOutOpen(s) ==
    /\ Go(s, "token", "failed")
    /\ protocol_dict' = [protocol_dict EXCEPT ![target[s]] = NoProtocol]
    /\ protocol_users' = [protocol_users EXCEPT ![protocol[s]] = 0]
    /\ protocol' = [protocol EXCEPT ![s] = NoProtocol]
    /\ async_lock' = NoSession
    /\ UNCHANGED <<target, transport, callbacks, scheduled, twice>>

\* No answer within timeout_s: the connection is removed and closed.
TokenTimesOut(s) ==
    /\ Go(s, "token", "failed")
    /\ protocol_dict' = [protocol_dict EXCEPT ![target[s]] = NoProtocol]
    /\ protocol_users' = [protocol_users EXCEPT ![protocol[s]] = 0]
    /\ ClosedTransport(protocol[s])
    /\ protocol' = [protocol EXCEPT ![s] = NoProtocol]
    /\ async_lock' = NoSession
    /\ UNCHANGED <<target, callbacks, scheduled, twice>>

---------------------------------------------------------------------------
(* disconnect.                                                             *)

\* Mutants: an unknown protocol is counted down; the last but one user closes.
CountOffUnknown(s) ==
    /\ async_lock = NoSession
    /\ protocol[s] # NoProtocol
    /\ protocol_users' = [protocol_users EXCEPT ![protocol[s]] = @ - 1]
    /\ UNCHANGED <<protocol_dict, protocol, transport>>
CountOffEarly(s) ==
    LET p == protocol[s]
    IN  /\ async_lock = NoSession
        /\ p # NoProtocol
        /\ protocol_users[p] \in {1, 2}
        /\ protocol_users' = [protocol_users EXCEPT ![p] = 0]
        /\ protocol_dict' = [protocol_dict EXCEPT ![target[s]] = NoProtocol]
        /\ ClosedTransport(p)
        /\ protocol' = [protocol EXCEPT ![s] = NoProtocol]

\* The body of disconnect.  An object without a protocol returns; one whose
\* protocol was removed meanwhile gets a KeyError; both change nothing.  Only
\* the last user forgets its protocol.
CountOff(s) ==
    LET p == protocol[s]
    IN  /\ async_lock = NoSession
        /\ IF p = NoProtocol \/ protocol_users[p] = 0
           THEN UNCHANGED <<sharedVars, protocol, transport>>
           ELSE /\ protocol_users' = [protocol_users EXCEPT ![p] = @ - 1]
                /\ IF protocol_users[p] = 1
                   THEN /\ protocol_dict' =
                             [protocol_dict EXCEPT ![target[s]] = NoProtocol]
                        /\ ClosedTransport(p)
                        /\ protocol' = [protocol EXCEPT ![s] = NoProtocol]
                   ELSE UNCHANGED <<protocol_dict, protocol, transport>>

Disconnect(s) ==
    /\ Go(s, "connected", "gone")
    /\ CountOff(s)
    /\ UNCHANGED <<async_lock, target, callbacks, scheduled, twice>>

\* disconnect is called once more on the same object.
DisconnectAgain(s) ==
    /\ pc[s] = "gone"
    /\ CountOff(s)
    /\ twice' = twice \cup ({protocol[s]} \ {NoProtocol})
    /\ UNCHANGED <<async_lock, pc, target, callbacks, scheduled>>

\* The disconnect that connection_lost scheduled for the object.
CallbackDisconnect(s) ==
    /\ s \in scheduled
    /\ scheduled' = scheduled \ {s}
    /\ CountOff(s)
    /\ UNCHANGED <<async_lock, pc, target, callbacks, twice>>

---------------------------------------------------------------------------
(* The network.                                                            *)

\* connection_lost with an exception runs the callbacks; after an end of file
\* it has none, and runs nothing.
Lose(p, loss) ==
    /\ loss \in Losses
    /\ transport[p] = "open"
    /\ transport' = [transport EXCEPT ![p] = "lost"]
    /\ scheduled' = IF loss = "error" THEN scheduled \cup callbacks[p] ELSE scheduled
    /\ UNCHANGED <<sharedVars, async_lock, pc, target, protocol, callbacks, twice>>

Opening(s) == OpenSucceeds(s) \/ OpenFails(s)
SettingToken(s) ==
    TokenAnswered(s) \/ FinishConnect(s) \/ TokenFails(s) \/ TokenTimesOut(s)

Next ==
    \/ \E s \in Sessions :
         \/ Connect(s) \/ Join(s) \/ BeginOpen(s)
         \/ Opening(s) \/ Store(s) \/ SettingToken(s)
         \/ Disconnect(s) \/ DisconnectAgain(s) \/ CallbackDisconnect(s)
    \/ \E p \in Protocols, loss \in Losses : Lose(p, loss)

\* wait_for bounds create_connection and the token, the event loop resumes tasks
\* that are ready, and asyncio.Lock wakes who waits for it.
Fairness ==
    \A s \in Sessions :
        /\ WF_vars(Join(s) \/ BeginOpen(s))
        /\ WF_vars(Opening(s))
        /\ WF_vars(Store(s))
        /\ WF_vars(SettingToken(s))
        /\ WF_vars(CallbackDisconnect(s))

Spec == Init /\ [][Next]_vars
FairSpec == Spec /\ Fairness

---------------------------------------------------------------------------
\* protocol_dict and protocol_users agree at every await: a protocol has users
\* exactly while it is the one protocol some gateway is mapped to, so neither
\* connect's "+= 1" nor disconnect's "del" can miss an entry (lines 339-353,
\* 378-387).
DictMatchesUsers ==
    /\ \A p \in Protocols :
         protocol_users[p] > 0 <=> \E g \in Gateways : protocol_dict[g] = p
    /\ \A g, h \in Gateways :
         protocol_dict[g] = protocol_dict[h] /\ protocol_dict[g] # NoProtocol => g = h

\* No connection is open that the program has forgotten; the one exception is
\* the one that is being made (lines 343-354, 383-386).
OpenIsRegistered ==
    \A p \in Protocols : transport[p] = "open" =>
        \/ \E g \in Gateways : protocol_dict[g] = p
        \/ \E s \in Sessions : pc[s] = "opened" /\ protocol[s] = p

\* The objects that use a connection, those whose token was refused included:
\* they keep it for ever, nobody can disconnect them.
Users(p) ==
    {s \in Sessions : /\ protocol[s] = p
                      /\ pc[s] \in {"token", "answered", "connected", "failed"}}

\* The count of a live connection is the number of its users, as long as nobody
\* disconnects twice (lines 341, 345, 382).
UsersAreCounted ==
    \A p \in Protocols : transport[p] = "open" /\ p \notin twice =>
        protocol_users[p] = Cardinality(Users(p))

\* A connected session loses its connection to the network only, never to
\* another session's disconnect, unless one of them disconnects twice.
NotClosedUnderneath ==
    \A s \in Sessions : pc[s] = "connected" /\ protocol[s] # NoProtocol =>
        transport[protocol[s]] # "closed" \/ protocol[s] \in twice

\* connect ends, with a session or an exception, though it may wait for the
\* connects of others to other gateways: the lock is the loop's (line 338).
ConnectsEnd ==
    \A s \in Sessions :
        (pc[s] = "waiting") ~> (pc[s] \in {"connected", "failed", "gone"})

\* "If for some future reason the protocol fails, it should be disconnected
\* properly" (comment at line 357): it does not stay to be used by others.
LostIsDisconnected ==
    \A p \in Protocols :
        (transport[p] = "lost" /\ protocol_users[p] > 0) ~> (protocol_users[p] = 0)
============================================================================
