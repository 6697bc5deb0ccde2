# pyfgc in TLA+

pyfgc is a Python library that talks to Function Generation Controllers (FGCs),
through gateways (TCP, port 1905) or through serial ports.  These modules model
the parts of it whose correctness depends on the order in which threads, tasks,
gateways and timeouts act: who shares a connection, when it is closed, and which
reply belongs to which command.  TLC checks them on small instances; TLAPS proves
the main invariants for every instance.

Line numbers refer to files under `src/pyfgc/`.

## 1. Inventory

| component | state | operations | used by |
|---|---|---|---|
| Channel registry, `channel_manager.py` | nested dictionaries gateway -> type -> fgc, a count of clients for each target, a count of targets for each channel, one lock | `get_channel`, `free_channel`, `get_channel_data` | sync and serial protocol objects, from any thread |
| Channels, `channel_manager.py` 31-172 | a socket or serial port, a lock | connect and handshake, `read`, `write`, `destroy` | the protocol objects |
| Synchronous protocol, `protocols/sync_fgc.py` | the channel taken, the token | `connect`, `get`, `set`, `renew_token`, `disconnect` | `FgcSession` |
| Serial protocol, `protocols/serial_fgc.py` | the channel taken | `connect`, `get`, `set`, `disconnect` | `FgcSession` |
| Asynchronous protocol, `AsyncFgcProtocol` in `protocols/async_fgc.py` | buffer, handshake flag, tag counter, registered futures, raw mode | `get`, `set`, `data_received`, `connection_lost` | event loop, `AsyncFgc` |
| Asynchronous sessions, `AsyncFgc` | connections and their users by loop and gateway, one lock for each loop | `connect`, `get`, `set`, `disconnect` | `FgcAsyncSession` |
| Sessions, `fgc_session.py` | token and its expiration time | `get`, `set`, `disconnect` | `api.py` |
| Monitor loop, `fgc_monitor.py` 30-447 | sessions by address, period and token, handlers, timers, one lock, a thread | subscribe, unsubscribe, start, time out, receive | monitor sessions and ports |
| Monitor sessions and ports, `fgc_monitor.py` 530-845 | handlers, names found, one cache of decoded data for all | `start`, `stop`, callbacks | user |
| Responses, `fgc_response.py`; commands, `parsers/command.py` | none | parse, format | all protocols |
| API, terminal, adapters, logger | none of their own | wrappers | user |

How they interact: `api.get` makes a session, the session a protocol object; a
synchronous object takes a channel from the registry, which several objects of
several threads may hold at once, and keeps the channel's lock while a command
and its reply are on the socket.  Asynchronous objects live on an event loop and
share one connection for each gateway; commands are told apart by tags and
answered through futures.  The monitor is a thread of its own that user threads
and timers change under its feet.

What is hard in this code:

* *sharing*: two reference counts decide when a shared socket is closed, and the
  code reads the registry once without its lock (`channel_manager.py` 313);
* *pairing*: replies of the synchronous protocol carry no tag, so their order is
  all there is; renewals write without the lock (`sync_fgc.py` 64-66), a timeout leaves a
  reply in the stream, and a `;` in a value the rest of one (92);
* *partial failure*: a token that cannot be set, a connection that cannot be made,
  or one that ends in the middle of a reply;
* *awaits*: what a task saw of the shared dictionaries before an await, and a stream that
  turns from responses to terminal output while the task that will say so has not run;
* *streams*: responses come in pieces of any size, with anything in their data;
* *threads of the monitor*: iteration without a lock, timers that outlive what they
  start, callbacks made from a snapshot by the thread or by a timer, and `start` and `stop` in
  any order.

What would make each component correct:

* registry: exactly the channels in use are open; a holder's channel is never closed
  or replaced; one channel for each gateway and shared type, none across;
* synchronous and serial protocol: one user of a channel at a time, a command gets its
  own whole reply, a call ends;
* asynchronous protocol: a command gets its own response, whole, or learns that there is
  none, once and for good; a terminal gets all of its output;
* asynchronous sessions: one open connection for each gateway, counted users, no
  session cut off by another, a dead connection is not handed out;
* monitor loop: the thread outlives any legal calls, a subscriber's session is the
  registered one and is started again until it is active, what is active is watched,
  nothing stays open without subscribers;
* monitor sessions: a callback gets data of the gateway it is told, those of one time the same,
  `stop` undoes `start`, and the thread's callbacks end with it.

## 2. Modules

| module | models | state and actions |
|---|---|---|
| `ChannelLeases` | what the registry promises, by pools (a gateway, or a serial port) | `Lease`, `Hand`, `Release`; a line opens with its first lease and closes with its last |
| `ChannelManager` | the registry, and the protocol objects' `connect` and `disconnect` as far as it sees them | `gw_channel`, `clients`, `ref_count`, `open`, `lock`; one action for each operation under the lock, creation split in two, the unlocked read an action of its own |
| `SyncFgc` | `sync_fgc.py`, `serial_fgc.py` and the renewal of `FgcSession`, on top of `ChannelManager` | channel locks, the progress of each call, requests and symbols on each connection |
| `AsyncProtocol` | `AsyncFgcProtocol` as its tasks see it: whole responses | tags, registered futures, responses in transit and in the buffer, raw mode |
| `AsyncStream` | the same on the symbols received: `data_received` and all below it; implements `AsyncProtocol` | the stream, `buffer`, `buffer_wait_n`, the loop over responses, the raw stream |
| `AsyncFgc` | `AsyncFgc`, with connections reduced to open, closed or lost | `protocol_dict`, `protocol_users`, the loop's lock, each object's progress, loss callbacks |
| `MonitorStreams` | what `MonitorLoop` promises to sessions and ports | `Begin`, `Subscribe`, `Unsubscribe`, and the thread's round with the streams that were active when it began |
| `MonitorLoop` | `MonitorLoop`, `SessionData`, `SessionlessData`; implements `MonitorStreams` | sessions and handlers, timers, the round of the thread, bytes in the socket pair; three kinds of threads |
| `MonitorSessions` | `MonitorSession`, `MonitorPort`, `decode_data` and the callbacks of a round and of timers, on top of `MonitorStreams` | handlers by object, gateway and start, the round's snapshots, a timer's, the cache |
| `...Proofs` | theorems about the module of that name; `ChannelLeasesProofs` about the step from `ChannelManager` to `ChannelLeases` | |
| `MC...` | instances for TLC | |

`SyncFgc` extends `ChannelManager` and takes its actions, `AsyncStream` extends
`AsyncProtocol` and takes those of the tasks.  `MonitorLoop` and `MonitorSessions` meet in
`MonitorStreams`: the loop implements it (`ImplementsStreams`), and what the sessions, ports and
callbacks do to the loop are its actions, with what the objects add (`Loop == INSTANCE
MonitorStreams`).  So whatever the loop does to its callers is in `MonitorSessions` as well.

Correspondences that are not one to one:

* The three levels of dictionaries are one function on targets (gateway, type,
  fgc).  The outer dictionaries exist exactly when something is below them (lines
  286-289, 315-320), which the flat function expresses by itself.
* `GwSingleChannel` objects are identified with the channel they wrap, and
  `ref_count` is kept by channel.  A channel's identity may be used again when no
  entry and no object refers to it (`Unreferenced`), which keeps the state space
  finite without joining two live channels.
* A failed creation stores nothing.  `_init_gw_channel` means to keep `None`, but
  calls `destroy` on `None` (line 207); the AttributeError leaves every constructor
  above before it has stored anything, and that is what `CreateFails` does.
* In `SyncFgc` a reply is two symbols: text and its end, or the binary flag and the counted
  data, so that a reader can be anywhere in it.  A serial device may not count the `\n;` in the
  length, and then leaves it as a third symbol: the protocol's documents leave that open, so it
  is a choice.  `to_gw` and `from_gw` belong to the connection, and vanish with it.
* In `SyncFgc` a value may hold the byte that ends a text (`;`, at a serial port `!` too,
  `sync_fgc.py` 92, `serial_fgc.py` 73) or the flag: the response patterns allow any byte
  (`fgc_response.py` 8, 12).  Then the reader stops within the symbol (`StopInside`) and its rest
  is the beginning of the next command's reply.  After the flag the four bytes that follow are
  taken for a length, which may end anywhere (`ReadMiscounted`, step `lost`).  Data that were not
  counted, and data met by a reader that looks for a text, are searched for an end like a value.
* In `SyncFgc` a connection the gateway has closed may refuse a request or reset a read
  (`WriteFails`, `ReadFails`): a reset is a closed connection on which these happen.
* In `SyncFgc` a read that times out may also happen with symbols in `from_gw`: these
  are on their way.  A serial read that times out returns too few bytes and raises nothing.
* In `AsyncStream` symbols are the pieces of a response the code tells apart: its beginning
  with the value of a text, the flag, the length, `\n`, and `;`, the last two at the end of a
  response or within data.  `in_flight` and `buffer` of `AsyncProtocol` are an image of the
  stream (`Image`): a response is in the buffer once the loop will find it without more data.
* In `AsyncFgc` a task runs from one await to the next in one action.  `disconnect`
  awaits the lock only, so it is one action, enabled when the lock is free.
* In `MonitorLoop` a step is what the lock does not protect: a read of `active`, the test of
  `sessions_on_try`, the entry that follows, one value of an iteration.  A session is named by
  the handler whose subscription made it.  An iteration fails when the number of entries differs
  from what it was at its start, as Python's does.  `clean` is one step: its two closes with a
  start between them end as they do with the start's steps around them.  `has_tcp` says whether
  `tcp_socket` is not `None`, which is all that `clean` depends on.  Python closes a socket that
  nobody refers to: one that a second start replaced lives on only as long as the thread's
  `udp_sock_sessions` has it (`watched = "replaced"`).
* The streams of `MonitorStreams` are the entries of `session_data`: a gateway with a period and
  token, or a port.  Who has the lock is joining: its session is there, and the thread may find it
  active, before its first handler is.  A session that was removed is no stream, though the thread
  has its socket for the rest of the round; if another with its key is made meanwhile, nothing of
  the old one's round is the new one's (`KeysOf`).  Which streams are active when a round begins
  is a choice there, as is which have something to receive.
* In `MonitorSessions` a handler is named by its object, its gateway and the start that made it,
  since every start makes new closures.  A start goes gateway by gateway, each in two steps, up to
  the handler (`Begin`) and with it (`Subscribe`); a stop handler by handler.  It is over when
  nothing is left to do, or with the KeyError of a handler that is not subscribed.  A packet for a
  stream that is not active is ignored.  Of those watched in a round that can only be one that
  timed out in it, and a timer may have started it again, so both can happen (`cleaned`).
* There packets are their sender and whether `decode` accepts them; decoded data is who
  published it and whether the time it is kept under is `curr_time` as last read; the clock moves
  on between two readings or it does not, and all packets of a round have one time, which is how
  several packets come to be of one time.  That is the local time of reception, whatever time the
  gateway put into the packet.  A user's callback may call `start` and `stop`: that is why these
  are enabled between any two steps.
* A timer whose start of a session failed other than by a refused connection goes through the
  handlers it finds then (266-268): `StartFails` is the snapshot, `CallByTimer` each call.  These
  happen between any steps of the thread and the users, and may reach a handler that was
  unsubscribed many rounds ago.  In `MonitorLoop` the failed start is `StartFails` of that module,
  and who is told of it is left to this one.

## 3. Runs

| run | instance | shows |
|---|---|---|
| `registry` | 3 threads, 5 targets of shared and unshared types on 2 gateways, 3 channels, `disconnect` repeated at will on the objects of one target, which shares its channel with another; 180,375 states | counters, channels and lock stay consistent whatever is called, and a blocked registry is released; where objects are disconnected once, client counts are exact, nobody's channel is closed, and the registry implements `ChannelLeases` |
| `sync_faults` | 2 sessions of one fgc of a gateway, of one serial port, or one of each; renewals, late replies, short reads, values that hold an end or the flag, closed connections; 729,576 states | the lock is respected; replies are mixed up, and calls go on for ever, only after one of these |
| `async_protocol` | `AsyncStream` with 3 commands, 3 tag numbers of one digit, responses of each kind in pieces of any size, 2 symbols of terminal output; 114,835 states | responses are found whole and paired, nobody waits for ever once the connection goes down, outcomes are final, the terminal gets its output, and the stream implements `AsyncProtocol` |
| `async_sharing` | 3 sessions of 2 gateways, 3 connections, errors and ends of file, `disconnect` repeated at will; 229,380 states | connections are registered while open, counted, and closed by their last user only |
| `monitor` | 2 handlers of one session or two, 2 timers at once; 4.3 million states | subscriptions are in registered sessions, sessions are tried again, the sleeping thread misses nothing, what is unsubscribed is closed unless a start was under way, the loop implements `MonitorStreams` |
| `monitor_sessions` | 2 sessions that share a gateway and its stream, one of them on a second gateway, and a port that listens to that one; 2 starts in all, stops at will, a timer that tells of failed starts of the shared stream; 5.2 million states | callbacks of one gateway and time get one data of it, the thread's end with the round in which `stop` returned, and `stop` undoes `start` |

Six runs end in a violation, each of something the repository says of itself:

| run | property | what happens |
|---|---|---|
| `sync_renewal` | `OwnReply` | `renew_token` writes and reads without the channel's lock (line 66): a command returns the reply to another session's `CLIENT.TOKEN` |
| `sync_eof` | `CallsEnd` | the connection ends within binary data; `recv` returns `b""` for ever and the loop of lines 107-111 with it, lock in hand |
| `async_handshake` | `ResolvedOnArrival` | a response that comes in one chunk with the handshake stays in the buffer (lines 84-86, 127) while its command waits |
| `async_eof` | `LostIsDisconnected` | `connection_lost(None)` runs no callback (line 71): the dead connection is given to every later session |
| `monitor_times` | `DataIsOfItsPacket` | callbacks are given the local time (line 362) as "Timestamp of current data, as reported by the gateway" (`api.py` 345, 417), and decoded data is kept under it: a second packet of a gateway in one round gets the data of the first |
| `monitor_thread` | `ThreadSurvives` | a session is subscribed while the thread iterates over the sessions without the lock (line 309): an exception ends it, and with it every subscription |

`sync_faults` and `sync_eof` are about the same thing: a call ends (`CallsEnd`), and the
exceptions, of which `CallsEndUnlessCut` names all: the end of a connection within binary data,
a serial port that falls silent there, and a second thread, a renewal without the lock, that
takes the symbols the call waits for, time after time.

Why the bounds are enough.  The registry's operations touch one target, one sibling
and one channel; three threads suffice for a reference taken, one given back and a
third thread between the two, and two gateways for what must not be shared.  A thread has one
channel at a time, so that three are never used up.  Two
sessions of one gateway are the smallest sharing in which one has a token to renew
(`Requests31`: token, renewal, command) while the other, which has none, has a command under way,
and another after it when it connects anew; the same instance has the serial port, whose sessions
never renew and have three commands, or one.  `MaxBacklog` limits the replies outstanding when a
session connects, not those of the calls that follow: late replies, and the rest of one that was
cut, reach the next command and the one after.  With three
tags of one digit the third of three commands gets the tag of the first, which is the
wrap-around of 16^8; the three are text or binary, binary, and an error, so that each kind comes
before and after another, and the lock of a terminal may succeed as the first command and fails
as the third; the loop over the buffer looks at one response at a time and at what follows it.
Three asynchronous sessions make a
first user, a second user and one that comes at a bad moment; a session connects
once, so three connections are all that can be made.

For the monitor two handlers are the smallest that share a session, and the smallest that have
one each; their keys are chosen in the initial state.  Two timers at once (`MaxTimers`) are the
user's and the thread's for one session, or one for each of two; who would order a third waits.
Of the bytes in the socket pair one is told apart (`MaxKicks`): more would only wake the thread
again.  `late`, a history variable, says which sessions were removed while a start was ordered or
under way, or half open: `ClosedUnlessLate` is what `unsubscribe` achieves, and its exception is
the code's: the timer is not cancelled, starts the removed session, and the gateway goes on
sending to a socket nobody will close.

In `monitor_sessions` one timer at a time tells handlers (`Timers`), since it changes nothing a
second could see, and it does for the stream that two objects share (`Failing`).  Two starts are
two objects that share a stream, or one object started twice, with a stop before the second start or not; a third would meet two of these at once.
Every way in which `start` may not be undone needs one object only: a session stopped and
started again keeps the old handlers, so that its next stop fails at one of them (lines 724,
743); a port started twice forgets the first handler (833).  `restarted` names the objects that
went either way, and the others are what `SubscribedFromStartToStop` is about.

What the properties leave out.  Several hold only until something the code does not prevent, and
a history variable says whether it happened.  What goes wrong then is part of the models, but
these properties do not show it, and the hazards of `PROJECT.json` that name them are covered up
to there:

| variable | says | leaves out of |
|---|---|---|
| `RepeatedDisconnect` (constant) | a target's objects may be disconnected twice, which takes another's reference away (`sync_fgc.py` 56) | `ClientsAreHolders`, `HolderChannelIsOpen`, `ImplementsLeases` |
| `upset` | a reader gave up on its reply, took a byte of a value for its end, or left bytes; a renewal came among other requests (`sync_fgc.py` 66, 92, 129; `serial_fgc.py` 69-90) | `OwnReplyUnlessUpset`, `StreamIsEmpty` |
| `eof` | the gateway closed the connection (`sync_fgc.py` 92, 109) | the same, and `CallsEndUnlessCut`, which leaves out `short` serial reads too; `sync_eof` shows what happens |
| `tag_reused` | a tag came round while it was registered (`async_fgc.py` 224) | `OwnResponse`, `WaitingIsRegistered`, `NoUnknownTag`, `LossEndsCalls`, `RawOutputIsKept`; not `OutcomesAreFinal`, `ImplementsProtocol` |
| `mixed` | the gateway answered a command after it had locked the terminal | `RawOutputIsKept` |
| `twice` | a session was counted off twice (`async_fgc.py` 382) | `UsersAreCounted`, `NotClosedUnderneath`; not `DictMatchesUsers`, `OpenIsRegistered`.  A session whose token was refused counts as a user (349) |
| `late` | a session was removed with a start ordered or under way, or half open (`fgc_monitor.py` 80, 281) | `ClosedUnlessLate` |
| `restarted` | an object was started in a way `stop` does not undo (`fgc_monitor.py` 743, 833) | `SubscribedFromStartToStop` |

`CHECK_DEADLOCK FALSE` is said where the model comes to an end or may really stop:
sessions that connect once (`async_sharing`, `async_eof`), commands used up on a lost connection
(`async_protocol`, `async_handshake`), handlers subscribed once and a thread that died
(`monitor`, `monitor_thread`), and threads stuck behind an endless read
(`sync_faults`, `sync_eof`).  The other runs check deadlock, `registry` in particular.

## 4. Fairness

* Registry: a creation ends, since sockets and ports have `TIMEOUT_S` (lines 33, 41,
  133, 144), and a thread that is past the lock runs on.  Nothing is assumed of threads
  that wait for the lock: `threading.Lock` promises none.
* `SyncFgc`: a thread that has the channel writes and reads, where a read may end in a
  timeout.  The gateway is asked nothing.
* `AsyncProtocol` and `AsyncStream`: the event loop goes on with the responses in the buffer,
  and calls `connection_lost` on a transport that is closing.  The gateway is asked nothing, no
  piece need ever arrive, and a task without a timeout may wait as long as the connection is up.
  The fairness of `AsyncStream` is on its own actions; that it implies `AsyncProtocol`'s
  liveness is not assumed but checked, `LossEndsCalls` being a property of the stream's run.
* `AsyncFgc`: `wait_for` bounds connecting and the token (60 s by default), tasks that are
  ready resume, and `asyncio.Lock` wakes its waiters.  Users need never disconnect.
* `MonitorLoop` and `MonitorSessions` have no fairness and no liveness: that an inactive session
  is tried again, and an active one watched, is said as an invariant of the sleeping thread
  (`SleepsInPeace`), that callbacks end as an invariant of the round (`CallsEndWithTheRound`).

## 5. Proofs

`ChannelManagerProofs`, for all targets, threads and channels:

* `TypeCorrect`, `RegistryConsistent`, `EntriesAreCounted`, `OpenChannelsAreMapped`,
  `SharingFollowsGateways` and `CreatorHasTheLock` follow from one inductive
  invariant, `IInv`: the four registry properties, the types of the threads' variables,
  and `LockIsCreator`, which says who has the lock.  The properties need each other: that the
  last client's `- 1` does not go below zero needs `EntriesHaveClients`; that the last target
  closes the channel needs `RefCountIsTargets`; that a sibling's channel is open needs
  `OpenIsRegistered`; that a new channel is not shared needs that its creator found no sibling,
  and still finds none when the socket is connected, which is `LockIsCreator`.  Each registry
  operation has a lemma; cardinalities of the targets of a channel are handled by `MapOneMore` and
  `MapOneLess`.
* `CountsAreExact` and `NoUseAfterClose` are about the targets whose objects are disconnected
  once (`Once`), whatever is done with the others; of those nothing like it holds, since one
  session can give back another's reference (`sync_fgc.py` 54-62).
  Their invariant adds the two properties to `IInv`; the central lemma is `LastHolder`: a
  count that reaches zero had one holder.  That a second disconnect of another target on the same
  channel does not close it is `RefCountIsTargets`: it takes away that target only.
* `LockComesBack`: `LockIsReleased`, from the fairness of the one thing the lock's holder waits
  for (`CreationsEnd`); by `LockIsCreator` there is nothing else it could be waiting for.

`ChannelLeasesProofs`, for all targets, threads and channels, and the pools whose objects are
disconnected once (`OncePools`):

* `RegistryImplementsLeases`: every step of the registry is a step of `ChannelLeases` or a
  stutter.  The mapping takes the targets of a pool together; that they have one channel is
  `SameChannelIffSameGateway`, that a pool has a line exactly while it has leases is
  `EntriesHaveClients` with `ClientsAreHolders`.  `LInv` adds to the registry's invariant that
  only connected objects have a channel.  Freeing the last target of a pool and freeing another
  are the two cases of `FreeIsRelease`.

`SyncFgcProofs`, for any number of sessions, targets and channels, with slow and closing
gateways, renewals and serial ports.  Two assumptions are named in `SyncFgc`: objects are
disconnected once, and the request counts that bound the runs are natural numbers.

* `SyncImplementsRegistry`: a step of `SyncFgc` is one of the registry or none, so that the
  registry's theorems hold for these callers.
* `SyncTypeCorrect` from `Calls`, which says where a session's call can be, and that it has a
  channel then.
* `LockIsUsers` from `LockOwner`: who is between a write and the end of its reply has the lock
  of its channel, renewals excepted, and only those have it.  Every return and every exception
  is a step of its own in `StepLocks`.
* `RepliesAreOwn` and `NothingIsLeftOver` from `Streams`: on a channel that is not upset, nobody
  reads and the streams are empty, or one session reads and they hold the rest of its reply
  exactly (`Progress`: not yet answered, answered, or begun).  Reading one symbol is
  `ReadKeeps`; a reader that stops within one spoils the channel with that step; a session that
  writes finds the channel quiet because of `LockOwner`; what spoils
  a channel only takes it out of the claim (`SpoilingKeeps`).
* `CallsKeepTheirLine` and `SessionsImplementLeases` carry the registry's guarantees over to
  the calls: what is under way has the channel of its own target, open until it ends.
* `NoCircularWait`: a connect whose token failed waits for the registry's lock with the channel's
  in its hands (`sync_fgc.py` 36-41).  Nobody does the opposite, because who has the registry's
  lock is creating a channel and has none yet; and nobody waits for a second channel.
* `SoundCallsEnd`: on a channel nothing has upset, `Streams` says which stage a reply has reached:
  with the gateway (`GatewayHasIt`), there whole (`ReplyIsThere`), or begun (`RestIsThere`).  A
  read, or a timeout, takes the call to the next stage (`StagesFollow`), and there are three.  The
  fairness is `WriteGoesOn` and `ReadsGoOn`; the sockets must time out, as theirs do.
* `ReadersRunDown` is about upset channels too: four for each request and one for each symbol,
  and one more until the reader has taken bytes of a value for a length, is a
  measure that no step increases while a reader has its channel alone, not even an answer of the
  gateway (three symbols), and that each of its reads decreases.

`AsyncProtocolProofs`, for any number of commands and any length of tags:

* `ResponsesArePaired`, `WaitersAreFound` and `TagsAreKnown` from an invariant that says where
  a command's number can be: waiting commands are registered under their tags, requests,
  responses in transit and responses in the buffer are disjoint and registered.  They are stated
  under `~tag_reused`, and `TagsSuffice` shows that fewer commands than tag numbers never reuse
  one.
* `OutcomesStay` as an action property, with no condition at all.
* `LostHasNoWaiters` from `Ending`: what is sent on a closing transport is registered before
  `connection_lost` runs, and what is sent afterwards fails at once.  `LossIsReported` then needs
  the event loop only: `LossEndsCalls`, from `ConnectionLostIsCalled`.  `LoopEmptiesBuffer` is why
  that loop is not held up by `data_received`.

`AsyncStreamProofs`, for any number of commands, answers and symbols of output:

* `StreamImplementsProtocol`: `SInv` is `AsyncProtocol`'s invariant, with what the stream is like.
  Until the connection turns raw, the received symbols followed by those under way are a sequence
  in which each response lies in one piece (`WellFormed`), wherever the buffer ends.  `Found` is
  about the search: what `Extract` finds is the first response that ends in the buffer, and it
  finds one if there is one; what it waits for is what that response lacks (`Lacking`).
  So a chunk that is not searched completes no response (`NoEnd`: no ";" came; `StillLacking`:
  all of it belongs to one that lacks more), and a turn of the loop takes out one response and
  leaves the others (`TakenOut`).  Each action has a lemma (`ChunkRefines`, `ResolveRefines`, ...).
  With it the safety theorems of `AsyncProtocolProofs` hold of the stream.
* `ResponsesIntact` from `TakenOut`: what is cut out is a reply symbol by symbol.
* `RawOutputKept`: until the gateway answers another command after the lock, output is behind
  everything else in the stream, and the response to the lock is the last thing before it
  (`OutputLast`).  The loop only takes out what ends with a response, so no output goes with it
  (`CutRaw`); when the task of the lock runs, its response is gone, by `AsyncProtocol`'s pairing
  of registered commands and responses, and what is left is output only (`LockRaw`).
* `EachHasItsOwn` joins the two levels: pairing of `AsyncProtocol`, wholeness of the stream.
  `EachHasItsOwnAlways` has fewer commands than tag numbers, and no exception.
* `StreamLossIsReported`: `LossEndsCalls` on the stream, because its `connection_lost` is a step
  of `AsyncProtocol`'s.  `LoopEnds`: a turn takes out at least the one symbol a response ends with.

`AsyncFgcProofs`, for any number of sessions, gateways and connections, all under any calls:

* `MakersAreAlone`: the lock belongs to the one task that makes a connection or sets its token,
  and nobody else has that connection yet.  The other theorems rest on it.
* `UsersMatchDict` and `ConnectionsAreRegistered`: need in addition that a connection in the
  hands of its maker is not in `protocol_dict` before `Store`, and that its gateway has none.
* `CountsAreExact` and `NobodyIsCutOff`: a count is the number of its users until one of them is
  counted off twice (`twice`, a history variable); as long as it is, only the last one closes.
* `LoopLockComesBack`: by `MakersAreAlone` the lock's owner is opening, storing or setting its
  token, and each of these ends.  `EveryConnectEnds`: who waits is let in when the lock has been
  free often enough (`LetsIn`, strong fairness of `asyncio.Lock`'s queue), and goes on from there;
  `WaitsAreBounded` says how often that can be: a session takes the lock once.

`MonitorLoopProofs`, for any number of handlers, keys and ports:

* `SubscribersAreRegistered` rests on the lock alone: the monitor thread and the timers leave
  its variables alone (`OthersLeaveUsers`).  Its invariant `Subscriptions` says that users past
  their lookup hold the lock (`LockIsAdder`), that the session each found is still the one of
  its key (`SessionIsKept`), and that the handlers of a session are the users that joined it.
  The delicate step is the last unsubscribe: nobody is on the way in, because the lock is free,
  and nobody else is in, because `clients` counts handlers.
* `EntriesHaveTimers` is about all three kinds of threads.  A timer that leaves an entry alone
  saw none in its test; one that skips the deletion with a KeyError had it deleted by another.
* `TypeCorrect` needs both the counts and `AtIsSession`, where the thread is in its round.
* `NothingIsMissed` from `Watchful`, `WillWake` and `Attended`: what the thread has seen of a
  session in this round is still so, or somebody on the way will wake it; a wake is the only
  thing that ends such a promise, and the thread then starts over.
* `RemovedStaysClosed` from `LeftClosed`: a session that was removed, and was not late, has no
  timer, is nobody's to start, and its socket is closed.

* `LoopImplementsStreams`: every step of users, timers and the thread is one of `MonitorStreams`
  or none (`StepStreams`, from a lemma for each).  `JoinedAreSubscribed` takes who is subscribed
  from the handlers to the users, `OneKey` takes one session out of a round's set, and
  `UnsubscribeStreams` the last subscriber's stream out of all of them.  Two invariants are added.
  `Wanted`: an entry of `session_data` has a user in it or on the way in, so that no stream of a
  round is without.  `Fresh`: nothing of the present round is left of the session a user is yet to
  make, so that making it changes no round.

`MonitorSessionsProofs`, for any sessions, ports, gateways and starts:

* `SessionsUseStreams`, a lemma: every step is one of `MonitorStreams`, or leaves its variables
  alone.  With `LoopImplementsStreams` it puts the two monitors together: the theorems below rest
  on nothing of the loop that is not proved of it.

* `StopUndoesStart` from `Undo`: an object that was not restarted knows all its handlers, and
  stop finds all of them subscribed or none.  That a new handler is none of the old ones, nor
  one that was gone before the round, is `Made`: handlers are of an earlier start, or of this
  one and of a gateway that is done with.
* `StoppedIsNotCalled` from `Calls`: the round calls who is subscribed when it looks, and it
  looks after it began.  It is about the thread's callbacks.  A timer's have a lemma, `TimerHolds`:
  they change nothing the thread sees.
* `CallbacksGetTheirData` from `Cache`: what is cached as of this time is from the gateway of its
  entry, and it is there exactly when a packet of that gateway was decoded since the time was
  read, the one at hand or an earlier one (`Kept`); a session is called for packets of the gateway
  it subscribed to, because no packet outlives its callbacks, and one that comes before its
  stream's first handler is not kept.

The liveness theorems do not start from `WF_` or `SF_`, whose `ENABLED` the prover cannot expand,
but from formulas that say the same with the guard written out: `[]<>~guard \/ []<><<step>>_vars`
for weak fairness, `<>[]~guard \/ []<><<step>>_vars` for strong.  Where a guard is weaker than
`ENABLED` would be, the invariants make them equal; each was checked by TLC as a consequence of the
specification with fairness, on the runs' instances.

Only model-checked: `CallsEndUnlessCut`.  A call on an upset channel may have to read any number
of old replies, so that its end needs an induction over their number, and a rule for that cannot
be instantiated here.  Proved are the case without old replies (`SoundCallsEnd`) and the measure
such an induction would use (`ReadersRunDown`).

## 6. Not modelled

* A synchronous session object used by several threads at once, or disconnected while in
  use by another (its `self.channel` becomes `None`): nothing in the code promises it, and
  `test_two_threads` of `tests/test_sync.py` gives each thread a session of its own.
* `SyncChannel.destroy` raising: `close` of a socket does not, as used here.
* Serial ports that are unplugged.
* In `AsyncStream`: error messages of more than one line, texts that contain `\n;` (a `;` alone
  starts a search that finds nothing and changes nothing, `async_fgc.py` 207-220), terminal output
  that looks like the beginning of a response: gateways do not send them.  In `SyncFgc` texts may contain anything; what a cut reply, or the rest of one, is then
  parsed to is not looked into.
* Monitor: times other than `curr_time`, the time a packet itself carries among them, more than
  one `MonitorLoop`, the pair's buffer filling up after the thread died,
  and the clean-up after the thread's loop, which nothing in the program ends.  A second
  unsubscribe of a handler raises a KeyError and changes nothing in the loop; what it does to
  `stop` is in `MonitorSessions`.
* Monitor sessions: the validation of arguments, what the names file says, empty packets (they
  are reported like silence).  That a session's packets come from its own gateway is
  assumed of the network: the code has a TODO instead of a check (line 697).  A port's callback
  for a sender whose name is not found gets a KeyError through `callback_err` (lines 602, 806),
  and is `PortUnresolved`.
* Several event loops: everything in `AsyncFgc` is keyed by the loop.
* A session's own `timeout_s` in the synchronous protocol: the code stores and never uses it
  (`sync_fgc.py` 27); the timeout is the channel's constant.  The times of tokens: that one may
  come within an hour of its expiration is a choice (`TokensExpire`).
* Formatting of commands (`parsers/command.py`), parsing of values, error messages, logging, name
  files, RBAC: no state, and nothing that is modelled depends on them.  `api.py`
  calls what is modelled, one call after another.
* `get_channel_data`, `__repr__`: they change nothing.
* Stubs: `AsyncChannel`, `MonitorChannel`, `TerminalChannel`, `adapters.py`, and the empty
  `RemoteTerminal` of `fgc_terminal.py`; the raw mode it would use is in `AsyncStream`.

## 7. What is left

* A clock for the tokens of `FgcSession`: whether a token can expire between the look at it and
  the gateway's, which depends on times the code does not control.
* Liveness of the monitor's rounds, for instance that a packet reaches its handlers: the thread may
  end (`monitor_thread`) or block in `recvfrom`, so that it would hold under conditions only that
  the code does not establish.
