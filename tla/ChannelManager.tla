-------------------------- MODULE ChannelManager --------------------------
(***************************************************************************)
(* The registry of channels of src/pyfgc/channel_manager.py and the        *)
(* protocol objects that take channels from it and give them back.         *)
(*                                                                         *)
(* A target is the triple (gateway, channel type, fgc) the registry is     *)
(* keyed by.  The nested dictionaries                                      *)
(*   ChannelCollection._channels[gateway]._channel_types[type]             *)
(* are flattened: a target is registered when its innermost entry exists,  *)
(* and the outer dictionaries, which the code deletes as soon as they are  *)
(* empty, exist when some target below them is registered.                 *)
(*                                                                         *)
(* Every public operation runs under ChannelCollection._lock, so it is one *)
(* action, with two exceptions: creating a channel blocks (connect and     *)
(* handshake, up to a minute) with the lock held, and add_channel reads    *)
(* the registry once more after it has released the lock.                  *)
(***************************************************************************)
EXTENDS Naturals, FiniteSets

CONSTANTS
    Targets,           \* the (gateway, type, fgc) triples that are addressed
    SharedTypes,       \* ChannelTypes.SYNC and ASYNC: one channel per gateway
    Sessions,          \* threads, each with at most one protocol object
    Channels,          \* identities of channel objects
    NoChannel,         \* Python's None where a channel is expected
    NoSession,         \* the registry lock is free
    RepeatedDisconnect \* the targets whose objects may be disconnected again

ASSUME TargetsAssumption ==
    \A k \in Targets : k = [gw |-> k.gw, type |-> k.type, fgc |-> k.fgc]
ASSUME FiniteAssumption == IsFiniteSet(Targets) /\ IsFiniteSet(Sessions)
ASSUME NoneAssumption == NoChannel \notin Channels /\ NoSession \notin Sessions
ASSUME RepeatedAssumption == RepeatedDisconnect \subseteq Targets

VARIABLES
    gw_channel,  \* FgcToGwChannelMap._fgc_to_gw_channel, NoChannel: no entry
    clients,     \* FgcToGwChannelMap._fgc_to_clients, 0: no entry
    ref_count,   \* GwSingleChannel.ref_count, by the channel it wraps
    open,        \* the channels whose socket or port is open
    lock,        \* owner of ChannelCollection._lock between two steps
    pc,          \* where each thread is in connect and disconnect
    target,      \* (target_gw, PROTOCOL_NAME, target_fgc) of each object
    channel      \* self.channel of each object

registryVars == <<gw_channel, clients, ref_count, open>>
vars == <<registryVars, lock, pc, target, channel>>

PCs == {"idle",        \* no object, or its constructor raised
        "connecting",  \* in get_channel, before the registry lock
        "creating",    \* in ChannelFactory.create, holding the lock
        "added",       \* add_channel released the lock, before its return
        "token",       \* has the channel, CLIENT.TOKEN not answered yet
        "holding",     \* connected
        "gone"}        \* disconnected, the object is still referenced

TypeOK ==
    /\ gw_channel \in [Targets -> Channels \cup {NoChannel}]
    /\ clients \in [Targets -> Nat]
    /\ ref_count \in [Channels -> Nat]
    /\ open \in SUBSET Channels
    /\ lock \in Sessions \cup {NoSession}
    /\ pc \in [Sessions -> PCs]
    /\ target \in [Sessions -> Targets]
    /\ channel \in [Sessions -> Channels \cup {NoChannel}]

---------------------------------------------------------------------------
(* The registry.                                                           *)

Registered(k) == gw_channel[k] # NoChannel

\* Targets that go through one channel: same gateway, same shared type.
ShareLine(j, k) ==
    /\ j.gw = k.gw
    /\ j.type = k.type
    /\ k.type \in SharedTypes

\* Mutant: the type is forgotten.
SiblingsOfAnyType(k) == {j \in Targets : Registered(j) /\ j.gw = k.gw}

\* The registered targets whose channel a target takes over.
Siblings(k) == {j \in Targets : Registered(j) /\ ShareLine(j, k)}

\* The targets a channel serves.
MappedTo(c) == {k \in Targets : gw_channel[k] = c}

\* No registry entry and no protocol object refers to the channel any more.
Unreferenced(c) ==
    /\ c \notin open
    /\ \A k \in Targets : gw_channel[k] # c
    /\ \A s \in Sessions : channel[s] # c

\* Mutants: the client is not counted; it is counted as a target of the channel.
AddClientUncounted(k) == Registered(k) /\ UNCHANGED registryVars
AddClientAsTarget(k) ==
    /\ Registered(k)
    /\ clients' = [clients EXCEPT ![k] = @ + 1]
    /\ ref_count' = [ref_count EXCEPT ![gw_channel[k]] = @ + 1]
    /\ UNCHANGED <<gw_channel, open>>

\* The target is known: one client more (update_data, else branch).
AddClient(k) ==
    /\ Registered(k)
    /\ clients' = [clients EXCEPT ![k] = @ + 1]
    /\ UNCHANGED <<gw_channel, ref_count, open>>

\* Another fgc of a gateway already connected: it shares the channel.  Which
\* sibling comes first in the dictionary does not matter.
ShareChannel(k) ==
    /\ ~Registered(k)
    /\ \E j \in Siblings(k) :
         /\ gw_channel' = [gw_channel EXCEPT ![k] = gw_channel[j]]
         /\ ref_count' = [ref_count EXCEPT ![gw_channel[j]] = @ + 1]
    /\ clients' = [clients EXCEPT ![k] = 1]
    /\ UNCHANGED open

\* A new GwSingleChannel, once its channel is connected.
InstallChannel(k, c) ==
    /\ Unreferenced(c)
    /\ open' = open \cup {c}
    /\ gw_channel' = [gw_channel EXCEPT ![k] = c]
    /\ ref_count' = [ref_count EXCEPT ![c] = 1]
    /\ clients' = [clients EXCEPT ![k] = 1]

\* Mutants: any target closes the channel; no target does.
CloseAtAnyTarget(k) ==
    /\ ref_count' = [ref_count EXCEPT ![gw_channel[k]] = @ - 1]
    /\ open' = open \ {gw_channel[k]}
    /\ gw_channel' = [gw_channel EXCEPT ![k] = NoChannel]
NeverClose(k) ==
    /\ ref_count' = [ref_count EXCEPT ![gw_channel[k]] = @ - 1]
    /\ gw_channel' = [gw_channel EXCEPT ![k] = NoChannel]
    /\ UNCHANGED open

\* The last client of a target takes its entry away, the last target of a
\* channel closes it.
RemoveTarget(k) ==
    LET c == gw_channel[k]
    IN  /\ ref_count' = [ref_count EXCEPT ![c] = @ - 1]
        /\ open' = IF ref_count[c] = 1 THEN open \ {c} ELSE open
        /\ gw_channel' = [gw_channel EXCEPT ![k] = NoChannel]

\* Mutants: an unknown target is counted down; an entry outlives its clients.
FreeUnknown(k) ==
    /\ clients' = [clients EXCEPT ![k] = @ - 1]
    /\ IF clients[k] = 1
       THEN RemoveTarget(k)
       ELSE UNCHANGED <<gw_channel, ref_count, open>>
KeepEntry(k) ==
    /\ clients' = [clients EXCEPT ![k] = IF @ > 0 THEN @ - 1 ELSE 0]
    /\ UNCHANGED <<gw_channel, ref_count, open>>

\* free_channel; an unknown target is a KeyError before anything is changed,
\* which the caller logs.
FreeChannel(k) ==
    \/ /\ Registered(k)
       /\ clients' = [clients EXCEPT ![k] = @ - 1]
       /\ IF clients[k] = 1
          THEN RemoveTarget(k)
          ELSE UNCHANGED <<gw_channel, ref_count, open>>
    \/ /\ ~Registered(k)
       /\ UNCHANGED registryVars

---------------------------------------------------------------------------
(* The protocol objects, SyncFgc and SerialFgc.                            *)

Init ==
    /\ gw_channel = [k \in Targets |-> NoChannel]
    /\ clients = [k \in Targets |-> 0]
    /\ ref_count = [c \in Channels |-> 0]
    /\ open = {}
    /\ lock = NoSession
    /\ pc = [s \in Sessions |-> "idle"]
    /\ target \in [Sessions -> Targets]
    /\ channel = [s \in Sessions |-> NoChannel]

\* connect of a new protocol object, up to the registry lock.
Connect(s) ==
    /\ pc[s] = "idle"
    /\ pc' = [pc EXCEPT ![s] = "connecting"]
    /\ \E k \in Targets : target' = [target EXCEPT ![s] = k]
    /\ UNCHANGED <<registryVars, lock, channel>>

\* add_channel when a channel exists that the target can use.
AddChannel(s) ==
    /\ pc[s] = "connecting"
    /\ lock = NoSession
    /\ AddClient(target[s]) \/ ShareChannel(target[s])
    /\ pc' = [pc EXCEPT ![s] = "added"]
    /\ UNCHANGED <<lock, target, channel>>

\* add_channel when it has to create one: it connects with the lock held.
BeginCreate(s) ==
    /\ pc[s] = "connecting"
    /\ lock = NoSession
    /\ ~Registered(target[s])
    /\ Siblings(target[s]) = {}
    /\ lock' = s
    /\ pc' = [pc EXCEPT ![s] = "creating"]
    /\ UNCHANGED <<registryVars, target, channel>>

\* The gateway accepted the connection and answered the handshake.
CreateSucceeds(s) ==
    /\ pc[s] = "creating"
    /\ \E c \in Channels : InstallChannel(target[s], c)
    /\ lock' = NoSession
    /\ pc' = [pc EXCEPT ![s] = "added"]
    /\ UNCHANGED <<target, channel>>

\* Mutant: the exception leaves the lock taken.
CreateFailsLocked(s) ==
    /\ pc[s] = "creating"
    /\ pc' = [pc EXCEPT ![s] = "idle"]
    /\ UNCHANGED <<registryVars, lock, target, channel>>

\* Connecting or the handshake failed or timed out.  The handler of
\* _init_gw_channel raises an AttributeError of its own, which leaves every
\* constructor before it has stored anything.
CreateFails(s) ==
    /\ pc[s] = "creating"
    /\ lock' = NoSession
    /\ pc' = [pc EXCEPT ![s] = "idle"]
    /\ UNCHANGED <<registryVars, target, channel>>

\* The return statement of add_channel looks the channel up without the lock.
ReadBack(s) ==
    /\ pc[s] = "added"
    /\ Registered(target[s])
    /\ channel' = [channel EXCEPT ![s] = gw_channel[target[s]]]
    /\ pc' = [pc EXCEPT ![s] = "token"]
    /\ UNCHANGED <<registryVars, lock, target>>

\* The entry is gone by then: KeyError, the constructor raises.
ReadBackFails(s) ==
    /\ pc[s] = "added"
    /\ ~Registered(target[s])
    /\ pc' = [pc EXCEPT ![s] = "idle"]
    /\ UNCHANGED <<registryVars, lock, target, channel>>

\* The rest of connect: SyncFgc exchanges the token, SerialFgc has none.
TokenSet(s) ==
    /\ pc[s] = "token"
    /\ pc' = [pc EXCEPT ![s] = "holding"]
    /\ UNCHANGED <<registryVars, lock, target, channel>>

\* The token exchange raised: SyncFgc.connect gives the channel back.
TokenFails(s) ==
    /\ pc[s] = "token"
    /\ target[s].type \in SharedTypes
    /\ lock = NoSession
    /\ FreeChannel(target[s])
    /\ channel' = [channel EXCEPT ![s] = NoChannel]
    /\ pc' = [pc EXCEPT ![s] = "idle"]
    /\ UNCHANGED <<lock, target>>

Disconnect(s) ==
    /\ pc[s] = "holding"
    /\ lock = NoSession
    /\ FreeChannel(target[s])
    /\ channel' = [channel EXCEPT ![s] = NoChannel]
    /\ pc' = [pc EXCEPT ![s] = "gone"]
    /\ UNCHANGED <<lock, target>>

\* disconnect on an object that is disconnected already: the code does not
\* look at self.channel and frees the target once more.
DisconnectAgain(s) ==
    /\ target[s] \in RepeatedDisconnect
    /\ pc[s] = "gone"
    /\ lock = NoSession
    /\ FreeChannel(target[s])
    /\ UNCHANGED <<lock, pc, target, channel>>

\* The disconnected object is dropped, the thread may make a new one.
Drop(s) ==
    /\ pc[s] = "gone"
    /\ pc' = [pc EXCEPT ![s] = "idle"]
    /\ UNCHANGED <<registryVars, lock, target, channel>>

Next ==
    \E s \in Sessions :
        \/ Connect(s)
        \/ AddChannel(s)
        \/ BeginCreate(s)
        \/ CreateSucceeds(s)
        \/ CreateFails(s)
        \/ ReadBack(s)
        \/ ReadBackFails(s)
        \/ TokenSet(s)
        \/ TokenFails(s)
        \/ Disconnect(s)
        \/ DisconnectAgain(s)
        \/ Drop(s)

\* The socket and the serial port time out after TIMEOUT_S = 60 seconds, so a
\* creation ends; a thread that is not waiting for anything runs on.
CreationEnds(s) == CreateSucceeds(s) \/ CreateFails(s)
Fairness ==
    \A s \in Sessions :
        /\ WF_vars(CreationEnds(s))
        /\ WF_vars(ReadBack(s) \/ ReadBackFails(s))

Spec == Init /\ [][Next]_vars
FairSpec == Spec /\ Fairness

---------------------------------------------------------------------------
(* What the registry keeps, whatever its callers do.                       *)

\* The count of clients of a target is positive exactly while the target has
\* an entry: no entry outlives its last client (lines 246-254), and no count
\* survives the entry.
EntriesHaveClients ==
    \A k \in Targets : Registered(k) <=> clients[k] > 0

\* A channel's ref_count is the number of targets mapped to it, which is what
\* makes "the last target closes it" (lines 249-251) mean what it says.
RefCountIsTargets ==
    \A c \in Channels : ref_count[c] = Cardinality(MappedTo(c))

\* The registry leaks no connection and offers no closed one: the open
\* channels are exactly those some target is mapped to.
OpenIsRegistered == open = {c \in Channels : MappedTo(c) # {}}

\* Two targets are mapped to one channel exactly when they are the same, or of
\* one gateway and one shared type: all sync sessions of a gateway use one
\* socket (test_sync_channel_is_shared_different_threads), and a serial port
\* or another gateway never ends up behind it.
SameChannelIffSameGateway ==
    \A j, k \in Targets :
        Registered(j) /\ Registered(k) =>
            (gw_channel[j] = gw_channel[k] <=> j = k \/ ShareLine(j, k))

---------------------------------------------------------------------------
(* What the protocol objects of a target rely on, if each of them is       *)
(* disconnected once, whatever is done with the objects of other targets.  *)

Once == Targets \ RepeatedDisconnect

\* The objects the client count of a target has to account for.
Holders(k) ==
    {s \in Sessions : pc[s] \in {"added", "token", "holding"} /\ target[s] = k}

\* Every object that took a channel, and none that gave it back, is counted.
ClientsAreHolders ==
    \A k \in Once : clients[k] = Cardinality(Holders(k))

\* The channel a protocol object uses is the one its target is mapped to, and
\* it is open: another session's disconnect never closes it underneath
\* (free_channel), be it a second one of another target on the same channel,
\* and a channel just added is still there when add_channel looks it up
\* without the lock (line 313).
HolderChannelIsOpen ==
    \A s \in Sessions :
        target[s] \in Once =>
            /\ pc[s] = "added" => Registered(target[s])
            /\ pc[s] \in {"token", "holding"} =>
                 channel[s] \in open /\ channel[s] = gw_channel[target[s]]

\* A thread that connects to an unreachable gateway blocks every other connect
\* and disconnect of the process, whatever its gateway, but not for ever.
LockIsReleased == (lock # NoSession) ~> (lock = NoSession)

---------------------------------------------------------------------------
(* The leases the registry implements.                                     *)

\* The pool of a target: the gateway for a shared type, else the fgc alone.
Pool(k) ==
    IF k.type \in SharedTypes THEN <<k.gw, k.type>> ELSE <<k.gw, k.type, k.fgc>>
PoolTargets(p) == {k \in Targets : Pool(k) = p}
Line(p) ==
    LET mapped == {k \in PoolTargets(p) : Registered(k)}
    IN  IF mapped = {} THEN NoChannel ELSE gw_channel[CHOOSE k \in mapped : TRUE]

\* The pools none of whose objects is disconnected again, the open channels but
\* those of other pools, and the channel of a session of such a pool.
OncePools == {Pool(k) : k \in Targets} \ {Pool(k) : k \in RepeatedDisconnect}
OnceOpen ==
    {c \in open : \A k \in MappedTo(c) : Pool(k) \in OncePools}
OnceChannel(s) ==
    IF Pool(target[s]) \in OncePools THEN channel[s] ELSE NoChannel

Leases == INSTANCE ChannelLeases WITH
    Pools <- OncePools,
    leases <- [p \in OncePools |-> UNION {Holders(k) : k \in PoolTargets(p)}],
    line <- [p \in OncePools |-> Line(p)],
    open <- OnceOpen,
    using <- [s \in Sessions |-> OnceChannel(s)]

\* The registry implements the leases of these pools: with its two counters,
\* its sharing rule and its unlocked return it does what ChannelLeases says
\* (get_channel, free_channel), whatever is done with the other pools.
ImplementsLeases == Leases!Spec
===========================================================================
