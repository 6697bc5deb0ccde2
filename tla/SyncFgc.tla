------------------------------ MODULE SyncFgc ------------------------------
(***************************************************************************)
(* Synchronous and serial sessions (src/pyfgc/protocols/sync_fgc.py and    *)
(* serial_fgc.py, driven by FgcSession of src/pyfgc/fgc_session.py) on top *)
(* of the channel registry.                                                *)
(*                                                                         *)
(* All sessions of a gateway share one socket and its lock, those of a     *)
(* serial port the port.  A command is written and its reply read under    *)
(* the lock; replies carry no tag, so the pairing of replies with commands *)
(* rests on that lock and on the stream being empty when a command starts. *)
(* The token of a sync session is set in the same way when it connects,    *)
(* but renewed without the lock.  Serial sessions have no token.           *)
(*                                                                         *)
(* A reply is two symbols: "body" and the end, ";" or a serial "!", or the *)
(* 0xFF flag and the counted data, which end in ";" too.  If a serial      *)
(* device does not count the "\n;" in the length, as gateways do not, they *)
(* are a third symbol after the bare data.  The channel is read one symbol *)
(* at a time, by whichever thread is in _receive.  A value may hold the    *)
(* byte that ends a reply, or the flag: a reader may then stop within the  *)
(* symbol, the rest of which stays in the stream.                          *)
(***************************************************************************)
EXTENDS ChannelManager, Sequences

CONSTANTS
    TokenHolders,      \* the sessions with an RBAC token, others have None
    MaxRequests,       \* bound: requests of each session between two connects
    MaxBacklog,        \* bound: replies outstanding when a session connects
    TokensExpire,      \* may a token come within an hour of its expiration?
    GatewayMayBeSlow,  \* may a reply, or a part of it, come too late?
    GatewayMayClose,   \* may the gateway close a connection?
    ValuesMayHoldEnds  \* may a text have ";", a serial "!" or 0xFF in it?

ASSUME TokenHoldersAssumption == TokenHolders \subseteq Sessions
ASSUME MaxRequestsAssumption == MaxRequests \in [Sessions -> Nat]
ASSUME OneDisconnectAssumption == RepeatedDisconnect = {}

VARIABLES
    chan_lock,  \* owner of SyncChannel.lock of each channel
    kind,       \* what the session's thread is doing: token, renew, command
    step,       \* how far it has got
    id,         \* number of the last request the session wrote
    reply,      \* what _receive has collected for a command, kept after it
                \* returned; the replies to tokens are dropped
    to_gw,      \* requests the gateway has not answered
    from_gw,    \* symbols sent by the gateway and not read
    eof,        \* connections closed by the gateway
    upset       \* connections on which a reader gave up on its reply or took
                \* a byte of a value for its end, or a renewal ran together
                \* with another session's request

callVars == <<kind, step, id, reply>>
wireVars == <<chan_lock, to_gw, from_gw, eof, upset>>
syncVars == <<vars, callVars, wireVars>>

Requests == UNION {{s} \X (1..MaxRequests[s]) : s \in Sessions}
Parts == {"body", "end", "flag", "data", "bare", "tail"}
Symbols == [of : Requests, part : Parts]
TextReply == <<"body", "end">>
NetBinReply == <<"flag", "data">>
SerialBinReply == <<"flag", "bare", "tail">>
Steps == {"ready",     \* no call in progress
          "acquire",   \* at "with self.channel.lock"
          "write",     \* before channel.write
          "text",      \* in the first loop of _receive
          "binary",    \* in its second loop, after the flag
          "lost",      \* there too, with a length read from other bytes
          "short",     \* there too, after a serial read with too few bytes
          "cleanup",   \* connect failed to set the token, lock still held
          "spinning"}  \* in the second loop, reading b"" for ever

SyncTypeOK ==
    /\ TypeOK
    /\ chan_lock \in [Channels -> Sessions \cup {NoSession}]
    /\ kind \in [Sessions -> {"none", "token", "renew", "command"}]
    /\ step \in [Sessions -> Steps]
    /\ id \in [Sessions -> Nat]
    /\ \A s \in Sessions : id[s] \in 0..MaxRequests[s]
    /\ reply \in [Sessions -> Seq(Symbols)]
    /\ to_gw \in [Channels -> Seq(Requests)]
    /\ from_gw \in [Channels -> Seq(Symbols)]
    /\ eof \in SUBSET Channels
    /\ upset \in SUBSET Channels

SyncInit ==
    /\ Init
    /\ chan_lock = [c \in Channels |-> NoSession]
    /\ kind = [s \in Sessions |-> "none"]
    /\ step = [s \in Sessions |-> "ready"]
    /\ id = [s \in Sessions |-> 0]
    /\ reply = [s \in Sessions |-> <<>>]
    /\ to_gw = [c \in Channels |-> <<>>]
    /\ from_gw = [c \in Channels |-> <<>>]
    /\ eof = {}
    /\ upset = {}

---------------------------------------------------------------------------
(* Taking and giving back the channel.                                     *)

\* SerialFgc objects, and the channels that are serial ports.
IsSerial(s) == target[s].type = "serial"
IsPort(c) == \E k \in MappedTo(c) : k.type = "serial"

\* The registry's own steps.  New sessions come up to a bounded backlog.
RegistryStep(s) ==
    /\ \/ /\ Connect(s)
          /\ \A c \in Channels :
               Len(to_gw[c]) <= MaxBacklog /\ Len(from_gw[c]) <= 2 * MaxBacklog
       \/ AddChannel(s)
       \/ BeginCreate(s)
       \/ CreateSucceeds(s)
       \/ CreateFails(s)
       \/ Drop(s)
    /\ UNCHANGED <<callVars, wireVars>>

\* get_channel returned: connect goes on to set the token under the lock.
EnterToken(s) ==
    /\ ~IsSerial(s)
    /\ ReadBack(s)
    /\ kind' = [kind EXCEPT ![s] = "token"]
    /\ step' = [step EXCEPT ![s] = "acquire"]
    /\ UNCHANGED <<id, reply, wireVars>>

\* SerialFgc.connect: get_channel is all of it.
ConnectSerial(s) ==
    /\ IsSerial(s)
    /\ ReadBack(s) \/ TokenSet(s)
    /\ UNCHANGED <<callVars, wireVars>>

\* A session gives its channel back; with a connection its streams go.
LeaveChannel(s) ==
    /\ kind' = [kind EXCEPT ![s] = "none"]
    /\ step' = [step EXCEPT ![s] = "ready"]
    /\ id' = [id EXCEPT ![s] = 0]
    /\ reply' = [reply EXCEPT ![s] = <<>>]
    /\ to_gw' = [c \in Channels |-> IF c \in open' THEN to_gw[c] ELSE <<>>]
    /\ from_gw' = [c \in Channels |-> IF c \in open' THEN from_gw[c] ELSE <<>>]
    /\ eof' = eof \cap open'
    /\ upset' = upset \cap open'

SessionDisconnect(s) ==
    /\ step[s] = "ready"
    /\ Disconnect(s)
    /\ LeaveChannel(s)
    /\ UNCHANGED chan_lock

\* connect's except branch: free_channel is called inside the "with".
SetTokenFailed(s) ==
    /\ step[s] = "cleanup"
    /\ TokenFails(s)
    /\ LeaveChannel(s)
    /\ chan_lock' = [chan_lock EXCEPT ![channel[s]] = NoSession]

---------------------------------------------------------------------------
(* One request and its reply.                                              *)

\* get or set with a token that has time left, or with none.
StartCommand(s) ==
    /\ pc[s] = "holding"
    /\ step[s] = "ready"
    /\ id[s] < MaxRequests[s]
    /\ kind' = [kind EXCEPT ![s] = "command"]
    /\ step' = [step EXCEPT ![s] = "acquire"]
    /\ reply' = [reply EXCEPT ![s] = <<>>]
    /\ UNCHANGED <<vars, id, wireVars>>

\* get or set with a token about to expire: renew_token calls _set_token
\* without taking the lock, then the command follows.
StartRenewal(s) ==
    /\ TokensExpire
    /\ s \in TokenHolders /\ ~IsSerial(s)
    /\ pc[s] = "holding"
    /\ step[s] = "ready"
    /\ id[s] + 1 < MaxRequests[s]
    /\ kind' = [kind EXCEPT ![s] = "renew"]
    /\ step' = [step EXCEPT ![s] = "write"]
    /\ reply' = [reply EXCEPT ![s] = <<>>]
    /\ UNCHANGED <<vars, id, wireVars>>

\* Mutant: the lock is not waited for.
AcquireAnyway(s) ==
    /\ step[s] = "acquire"
    /\ kind[s] = "command" \/ s \in TokenHolders
    /\ chan_lock' = [chan_lock EXCEPT ![channel[s]] = s]
    /\ step' = [step EXCEPT ![s] = "write"]
    /\ UNCHANGED <<vars, kind, id, reply, to_gw, from_gw, eof, upset>>

\* with self.channel.lock
AcquireChannel(s) ==
    LET c == channel[s]
    IN  /\ step[s] = "acquire"
        /\ kind[s] = "command" \/ s \in TokenHolders
        /\ chan_lock[c] = NoSession
        /\ chan_lock' = [chan_lock EXCEPT ![c] = s]
        /\ step' = [step EXCEPT ![s] = "write"]
        /\ UNCHANGED <<vars, kind, id, reply, to_gw, from_gw, eof, upset>>

\* connect without a token: the lock is taken and released, nothing is sent.
SkipToken(s) ==
    /\ step[s] = "acquire"
    /\ kind[s] = "token"
    /\ s \notin TokenHolders
    /\ chan_lock[channel[s]] = NoSession
    /\ TokenSet(s)
    /\ kind' = [kind EXCEPT ![s] = "none"]
    /\ step' = [step EXCEPT ![s] = "ready"]
    /\ UNCHANGED <<id, reply, wireVars>>

\* Some thread is in _receive on the channel.
BeingRead(c) ==
    \E s \in Sessions :
        channel[s] = c /\ step[s] \in {"text", "binary", "lost", "short"}

\* A renewal and another session's request are under way together.
AmongOthers(s) ==
    \E r \in Sessions \ {s} :
        /\ channel[r] = channel[s]
        /\ step[r] \in {"text", "binary", "lost"}
        /\ "renew" \in {kind[r], kind[s]}

\* Mutant: the number of the request is counted on after the last one.
WriteUncounted(s) ==
    /\ step[s] = "write"
    /\ to_gw' = [to_gw EXCEPT ![channel[s]] = Append(@, <<s, id[s]>>)]
    /\ reply' = [reply EXCEPT ![s] = <<>>]
    /\ step' = [step EXCEPT ![s] = "text"]
    /\ UNCHANGED <<vars, kind, id, chan_lock, from_gw, eof, upset>>

\* channel.write: sendall hands the request to the connection; to one the
\* gateway has closed it may, as long as no reset came back.
Write(s) ==
    LET c == channel[s]
    IN  /\ step[s] = "write"
        /\ id[s] < MaxRequests[s]
        /\ id' = [id EXCEPT ![s] = @ + 1]
        /\ to_gw' = IF c \in eof THEN to_gw
                    ELSE [to_gw EXCEPT ![c] = Append(@, <<s, id[s] + 1>>)]
        /\ reply' = [reply EXCEPT ![s] = <<>>]
        /\ step' = [step EXCEPT ![s] = "text"]
        /\ upset' = IF AmongOthers(s) THEN upset \cup {c} ELSE upset
        /\ UNCHANGED <<vars, kind, chan_lock, from_gw, eof>>

\* Mutant: a renewal releases the lock it does not hold.
ReleaseAlways(s) ==
    chan_lock' = [chan_lock EXCEPT ![channel[s]] = NoSession]

\* The lock a call holds, if it took it, is released when the call leaves the
\* "with"; a renewal never has it.
Release(s) ==
    chan_lock' = IF kind[s] = "renew" THEN chan_lock
                 ELSE [chan_lock EXCEPT ![channel[s]] = NoSession]

\* _receive returned: connect is done, the renewal is followed by the command,
\* the command returns the reply.  Nobody looks at the reply to a token.
Return(s) ==
    /\ Release(s)
    /\ IF kind[s] = "token" THEN TokenSet(s) ELSE UNCHANGED vars
    /\ kind' = [kind EXCEPT ![s] = IF @ = "renew" THEN "command" ELSE "none"]
    /\ step' = [step EXCEPT ![s] =
                   IF kind[s] = "renew" THEN "acquire" ELSE "ready"]

\* write or _receive raised: connect cleans up, the others pass it on.
Raise(s) ==
    /\ IF kind[s] = "token"
       THEN /\ step' = [step EXCEPT ![s] = "cleanup"]
            /\ UNCHANGED <<kind, chan_lock>>
       ELSE /\ step' = [step EXCEPT ![s] = "ready"]
            /\ kind' = [kind EXCEPT ![s] = "none"]
            /\ Release(s)
    /\ reply' = [reply EXCEPT ![s] = <<>>]
    /\ UNCHANGED vars

\* Only a connection that was reset refuses a request.
WriteFails(s) ==
    /\ step[s] = "write"
    /\ channel[s] \in eof
    /\ Raise(s)
    /\ UNCHANGED <<id, to_gw, from_gw, eof, upset>>

\* The symbols a read takes; a command keeps them.
Take(s, n) ==
    LET c == channel[s]
    IN  /\ n <= Len(from_gw[c])
        /\ from_gw' = [from_gw EXCEPT ![c] = SubSeq(@, n + 1, Len(@))]
        /\ reply' = IF kind[s] = "command"
                    THEN [reply EXCEPT ![s] = @ \o SubSeq(from_gw[c], 1, n)]
                    ELSE reply

\* Mutant: the counted data of a binary reply is left in the stream.
ReadToFlag(s) ==
    LET x == Head(from_gw[channel[s]])
    IN  /\ step[s] \in {"text", "binary"}
        /\ Take(s, 1)
        /\ IF step[s] = "binary" \/ x.part \notin {"body", "bare"}
           THEN Return(s)
           ELSE UNCHANGED <<vars, kind, step, chan_lock>>
        /\ UNCHANGED <<id, to_gw, eof, upset>>

\* Does the reader's next byte begin data, its length first?
AtData(s) == Head(from_gw[channel[s]]).part \in {"data", "bare"}

\* channel.read returned the next symbol of the stream.  The first loop goes
\* on to an end, ";" at the end of data included, or to the flag; the second
\* ends with the counted data and leaves what was not counted.
Read(s) ==
    LET c == channel[s]
        x == Head(from_gw[c])
    IN  /\ step[s] \in {"text", "binary"}
        /\ Take(s, 1)
        /\ step[s] = "binary" => AtData(s)
        /\ IF step[s] = "binary" \/ x.part \in {"end", "data", "tail"}
           THEN Return(s)
           ELSE /\ step' = [step EXCEPT ![s] =
                               IF x.part = "flag" THEN "binary" ELSE "text"]
                /\ UNCHANGED <<vars, kind, chan_lock>>
        /\ upset' = IF step[s] = "binary" /\ x.part = "bare"
                    THEN upset \cup {c} ELSE upset
        /\ UNCHANGED <<id, to_gw, eof>>

\* A byte within a value, or within data that were not counted, is the one the
\* first loop looks for: the command has a part of the symbol, and the rest is
\* for the next one to read; or the four bytes after it are taken for a length.
StopInside(s) ==
    LET c == channel[s]
    IN  /\ step[s] = "text"
        /\ from_gw[c] # <<>>
        /\ AtData(s) \/ (ValuesMayHoldEnds /\ Head(from_gw[c]).part = "body")
        /\ reply' = IF kind[s] = "command"
                    THEN [reply EXCEPT ![s] = Append(@, Head(from_gw[c]))]
                    ELSE reply
        /\ \/ Return(s)
           \/ /\ step' = [step EXCEPT ![s] = "lost"]
              /\ UNCHANGED <<vars, kind, chan_lock>>
        /\ upset' = upset \cup {c}
        /\ UNCHANGED <<id, to_gw, from_gw, eof>>

\* The length is none: it may end within the symbol, with it, or go on.  What
\* is read so is no whole reply any more, and only its beginning is kept.
ReadMiscounted(s) ==
    LET c == channel[s]
    IN  /\ step[s] \in {"binary", "lost"}
        /\ from_gw[c] # <<>>
        /\ step[s] = "binary" => ~AtData(s)
        /\ \/ Return(s) /\ UNCHANGED from_gw
           \/ Return(s) /\ from_gw' = [from_gw EXCEPT ![c] = Tail(@)]
           \/ /\ from_gw' = [from_gw EXCEPT ![c] = Tail(@)]
              /\ step' = [step EXCEPT ![s] = "lost"]
              /\ UNCHANGED <<vars, kind, chan_lock>>
        /\ UNCHANGED <<id, reply, to_gw, eof, upset>>

\* After a short read the serial loop asks for the whole length once more: it
\* gets the rest, and with it what follows.
ReadRest(s) ==
    /\ step[s] = "short"
    /\ \E n \in 1..2 : Take(s, n)
    /\ Return(s)
    /\ UNCHANGED <<id, to_gw, eof, upset>>

\* channel.read returned b"", the connection is at its end.  The first loop
\* takes it for the end of the reply.
ReadEnd(s) ==
    LET c == channel[s]
    IN  /\ step[s] = "text"
        /\ c \in eof /\ from_gw[c] = <<>>
        /\ Return(s)
        /\ UNCHANGED <<id, reply, to_gw, from_gw, eof, upset>>

\* In a binary reply b"" is too short for the length, and unpack raises; in
\* any reply the read itself does if the connection was reset.
ReadFails(s) ==
    /\ step[s] \in {"text", "binary", "lost"}
    /\ channel[s] \in eof /\ from_gw[channel[s]] = <<>>
    /\ Raise(s)
    /\ UNCHANGED <<id, to_gw, from_gw, eof, upset>>

\* After the length it adds nothing to byte_counter, and the loop never ends.
ReadDataEnd(s) ==
    /\ step[s] \in {"binary", "lost"}
    /\ channel[s] \in eof /\ from_gw[channel[s]] = <<>>
    /\ step' = [step EXCEPT ![s] = "spinning"]
    /\ UNCHANGED <<vars, kind, id, reply, wireVars>>

\* Mutant: the socket has no timeout.
ReadWaits(s) == FALSE

\* Nothing arrived for a minute (symbols in from_gw may be on their way), or
\* fewer than the four bytes of a length had when it was read.
ReadTimesOut(s) ==
    /\ GatewayMayBeSlow
    /\ ~IsSerial(s)
    /\ step[s] \in {"text", "binary", "lost"}
    /\ channel[s] \notin eof
    /\ Raise(s)
    /\ upset' = upset \cup {channel[s]}
    /\ UNCHANGED <<id, to_gw, from_gw, eof>>

\* A serial port then returns fewer bytes than it was asked for: none is the
\* end of a text, less than four is no length, and of data more is awaited.
SerialTimesOut(s) ==
    /\ GatewayMayBeSlow
    /\ IsSerial(s)
    /\ \/ step[s] = "text" /\ Return(s) /\ UNCHANGED reply
       \/ step[s] \in {"binary", "lost"} /\ Raise(s)
       \/ /\ step[s] \in {"binary", "lost"}
          /\ step' = [step EXCEPT ![s] = "short"]
          /\ UNCHANGED <<vars, kind, reply, chan_lock>>
    /\ upset' = upset \cup {channel[s]}
    /\ UNCHANGED <<id, to_gw, from_gw, eof>>

---------------------------------------------------------------------------
(* The gateway, or the fgc at a serial port.                               *)

\* It answers the requests of a connection in order, with text or data.
Answer(c) ==
    /\ c \notin eof
    /\ to_gw[c] # <<>>
    /\ to_gw' = [to_gw EXCEPT ![c] = Tail(@)]
    /\ \E parts \in {TextReply, NetBinReply}
                    \cup (IF IsPort(c) THEN {SerialBinReply} ELSE {}) :
         from_gw' = [from_gw EXCEPT ![c] = @ \o
             [i \in DOMAIN parts |-> [of |-> Head(to_gw[c]), part |-> parts[i]]]]
    /\ UNCHANGED <<vars, callVars, chan_lock, eof, upset>>

\* It closes the connection, anywhere in what it was sending.
Close(c) ==
    /\ GatewayMayClose
    /\ c \in open \ eof
    /\ ~IsPort(c)
    /\ eof' = eof \cup {c}
    /\ to_gw' = [to_gw EXCEPT ![c] = <<>>]
    /\ \E n \in 0..Len(from_gw[c]) :
         from_gw' = [from_gw EXCEPT ![c] = SubSeq(@, 1, n)]
    /\ UNCHANGED <<vars, callVars, chan_lock, upset>>

---------------------------------------------------------------------------
Receive(s) ==
    \/ Read(s) \/ StopInside(s) \/ ReadMiscounted(s)
    \/ ReadEnd(s) \/ ReadFails(s) \/ ReadDataEnd(s)
    \/ ReadTimesOut(s) \/ SerialTimesOut(s) \/ ReadRest(s)

SyncNext ==
    \/ \E s \in Sessions :
         \/ RegistryStep(s) \/ EnterToken(s) \/ ConnectSerial(s)
         \/ SessionDisconnect(s) \/ SetTokenFailed(s)
         \/ StartCommand(s) \/ StartRenewal(s)
         \/ AcquireChannel(s) \/ SkipToken(s)
         \/ Write(s) \/ WriteFails(s)
         \/ Receive(s)
    \/ \E c \in Channels : Answer(c) \/ Close(c)

\* A thread that has the channel runs on, and a read returns or times out (the
\* socket has a timeout): nothing is asked of the gateway.
SyncFairness ==
    \A s \in Sessions :
        /\ WF_syncVars(Write(s) \/ WriteFails(s))
        /\ WF_syncVars(Receive(s))

SyncSpec == SyncInit /\ [][SyncNext]_syncVars
FairSyncSpec == SyncSpec /\ SyncFairness

---------------------------------------------------------------------------
\* A channel has at most one thread between its write and the end of its
\* reply, the owner of the lock (lines 36 and 119), renewals excepted.
ChannelLockIsUser ==
    \A s \in Sessions :
        step[s] \notin {"ready", "acquire"} /\ kind[s] # "renew"
        <=> \E c \in Channels : chan_lock[c] = s /\ channel[s] = c

\* A command gets its own reply, the whole of it: results are those of the
\* device that was asked (test_two_threads, assert k == v).
OwnReplyOf(s) ==
    kind[s] = "none" /\ reply[s] # <<>> =>
        \E parts \in {TextReply, NetBinReply, <<"flag", "bare">>} :
            reply[s] = [i \in 1..2 |-> [of |-> <<s, id[s]>>, part |-> parts[i]]]

OwnReply == \A s \in Sessions : OwnReplyOf(s)

\* Only these things can mix replies up: a reader that gave up and left its
\* reply in the stream, a text with an end or the flag in its value, a serial
\* reader that left the two bytes after the data, an unlocked renewal among
\* another session's request, and the end of the connection.  On every other
\* channel a command gets its own reply (sync_fgc 64-66, 92, 119-130,
\* serial_fgc 52-87).
OwnReplyUnlessUpset ==
    \A s \in Sessions : channel[s] \in open \ (upset \cup eof) => OwnReplyOf(s)

\* When nobody has such a channel, nothing of an earlier command is under way: a
\* new command finds the stream empty, as long as none of those things happened.
StreamIsEmpty ==
    \A c \in open \ (upset \cup eof) :
        chan_lock[c] = NoSession /\ ~BeingRead(c)
            => to_gw[c] = <<>> /\ from_gw[c] = <<>>

InCall(s) ==
    step[s] \in {"write", "text", "binary", "lost", "spinning", "short"}

\* A call that has the channel ends, with a reply or an exception: timeout_s
\* is "Timeout in seconds" (api.py, connect).
CallsEnd == \A s \in Sessions : InCall(s) ~> ~InCall(s)

\* Only three things keep a call from ending, whatever the gateway does: the
\* end of the connection within a binary reply, whose loop goes on for ever, a
\* serial port that falls silent within one, and another thread that takes the
\* symbols the call waits for (sync_fgc 88-114, serial_fgc 66-90).
CallsEndUnlessCut ==
    \A s \in Sessions :
        InCall(s) ~> \/ ~InCall(s)
                     \/ step[s] = "short"
                     \/ channel[s] \in eof
                     \/ \E r \in Sessions \ {s} :
                           channel[r] = channel[s] /\ InCall(r)
===========================================================================
