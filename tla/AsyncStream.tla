---------------------------- MODULE AsyncStream ----------------------------
(***************************************************************************)
(* The bytes of an asynchronous connection: how data_received of           *)
(* AsyncFgcProtocol (src/pyfgc/protocols/async_fgc.py) finds the responses *)
(* in what it is given, in pieces of any size, and how the connection      *)
(* turns into the raw stream of a remote terminal.                         *)
(*                                                                         *)
(* What a task can observe is AsyncProtocol's, whose client actions are    *)
(* taken as they are.  Its in_flight and buffer are an image of the stream *)
(* (Image); no action here looks at them.  A response is a few symbols,    *)
(* each a piece of it that data_received could be given or not:            *)
(*   "ok"    "$tag .\n" and the value of a text                            *)
(*   "err"   "$tag !\n" and the one line of the message                    *)
(*   "ff"    the flag of a binary response, "len" its four bytes of length *)
(*   "nl", "semi"  "\n" and ";", at the end of a response or within one    *)
(* Texts have no "\n;" in their value, terminal output does not look like  *)
(* the beginning of a response.                                            *)
(***************************************************************************)
EXTENDS AsyncProtocol, Sequences, FiniteSetsExt

CONSTANTS
    MaxOutput,  \* bound: symbols of terminal output
    Kinds       \* bound: how the gateway may answer each command

ASSUME MaxOutputAssumption == MaxOutput \in Nat
ASSUME KindsAssumption == Kinds \in [Commands -> SUBSET {"text", "binary", "error"}]

VARIABLES
    wire,        \* symbols sent by the gateway and not received
    bytes,       \* self.buffer
    wait_n,      \* self.buffer_wait_n
    received,    \* the raw response each command's future was resolved with
    rterm,       \* the command sent by enable_rterm_mode, NoFuture: none
    raw_stream,  \* what was fed to the StreamReader
    gw_raw,      \* has the gateway locked the terminal, its output in the stream?
    output,      \* symbols of output it has sent
    mixed        \* has it answered another command after that?

connVars == <<transport, handshake_made, raw_mode>>
taskVars == <<tag_counter, commands, call, response>>
flagVars == <<parsing, unknown_tag, tag_reused>>
termVars == <<rterm, raw_stream, gw_raw, output, mixed>>
streamVars == <<wire, bytes, wait_n, received, termVars>>
asyncVars == <<vars, streamVars>>

---------------------------------------------------------------------------
(* Responses.                                                              *)

\* A text, a binary value that is "\n;", an error.
ReplyParts ==
    [text |-> <<"ok", "nl", "semi">>,
     binary |-> <<"ok", "ff", "len", "nl", "semi", "nl", "semi">>,
     error |-> <<"err", "nl", "semi">>]
DataLength == 2

Symbols(n, parts) == [i \in DOMAIN parts |-> [of |-> n, part |-> parts[i]]]
Reply(n, kind) == Symbols(n, ReplyParts[kind])

\* Where the gateway's handshake and output come from.
Gateway == 0
Plus == [of |-> Gateway, part |-> "+"]

Has(seq, part) == \E i \in DOMAIN seq : seq[i].part = part
From(seq) == {seq[i].of : i \in DOMAIN seq} \cap Commands
IsOutput(symbol) == symbol.of > MaxCommands

\* A response is in AsyncProtocol's buffer once all of it was received.
Image ==
    /\ in_flight' = From(wire')
    /\ buffer' = From(bytes') \ From(wire')

IsBinary(b, i) == i < Len(b) /\ b[i].part = "ok" /\ b[i + 1].part = "ff"

\* NCRP_BEGIN matches at i: a flag must have its length, an error its end.
Begins(b, i) ==
    \/ b[i].part = "ok" /\ (IsBinary(b, i) => i + 2 <= Len(b))
    \/ b[i].part = "err" /\ i + 2 <= Len(b)

\* Mutants: the data of a binary response are searched for an end; its own end
\* is not waited for.
EndOf(b, i) ==
    LET ends == {j \in (i + 1)..(Len(b) - 1) :
                    b[j].part = "nl" /\ b[j + 1].part = "semi"}
    IN  IF ends = {} THEN 0 ELSE Min(ends) + 1
BinaryIsText(b, i) == EndOf(b, i)

\* Where the response that begins at i ends, also beyond what is there; 0: not
\* known yet.
LastChar(b, i) ==
    IF IsBinary(b, i) THEN i + 2 + DataLength + 2 ELSE EndOf(b, i)

\* __extract_response on the buffer b: the response found first, from and upto
\* (0: none yet), and how much of it is missing if that is known.
Extract(b) ==
    LET starts == {i \in DOMAIN b : Begins(b, i)}
        last == LastChar(b, Min(starts))
    IN  IF starts = {} THEN [from |-> 0, upto |-> 0, wait |-> 0]
        ELSE [from |-> Min(starts),
              upto |-> IF last <= Len(b) THEN last ELSE 0,
              wait |-> IF last <= Len(b) THEN 0 ELSE last - Len(b)]

---------------------------------------------------------------------------
StreamTypeOK ==
    /\ \A seq \in {wire, bytes, raw_stream} :
         \A i \in DOMAIN seq : seq[i].of \in 0..(MaxCommands + MaxOutput)
    /\ wait_n \in 0..(DataLength + 2)
    /\ \A n \in Commands : received[n] = <<>> <=> response[n] = NoFuture
    /\ rterm \in Commands \cup {NoFuture}
    /\ gw_raw \in BOOLEAN /\ mixed \in BOOLEAN
    /\ output \in 0..MaxOutput

StreamInit ==
    /\ Init
    /\ wire = <<Plus>>
    /\ bytes = <<>>
    /\ wait_n = 0
    /\ received = [n \in Commands |-> <<>>]
    /\ rterm = NoFuture
    /\ raw_stream = <<>>
    /\ gw_raw = FALSE
    /\ output = 0
    /\ mixed = FALSE

\* What does not touch the stream: commands, timeouts, the end of the connection.
Elsewhere ==
    /\ \/ Send
       \/ \E n \in Commands : TimeOut(n)
       \/ RefuseHandshake
       \/ CloseTransport
       \/ ConnectionLost
    /\ UNCHANGED streamVars

\* enable_rterm_mode: a set of CLIENT.RTERMLOCK, which it awaits.
EnableRterm ==
    /\ rterm = NoFuture
    /\ Send
    /\ rterm' = tag_counter + 1
    /\ UNCHANGED <<wire, bytes, wait_n, received, raw_stream, gw_raw, output,
                   mixed>>

\* The gateway answers any command it has, in any way; the lock of a terminal
\* with a text or an error.
StreamAnswer(n, kind) ==
    /\ ~parsing
    /\ n \in requests
    /\ kind \in Kinds[n]
    /\ n = rterm => kind # "binary"
    /\ requests' = requests \ {n}
    /\ wire' = wire \o Reply(n, kind)
    /\ gw_raw' = (gw_raw \/ (n = rterm /\ kind = "text"))
    /\ mixed' = (mixed \/ gw_raw)
    /\ UNCHANGED <<connVars, taskVars, flagVars, bytes, wait_n, received,
                   rterm, raw_stream, output>>
    /\ Image

\* The terminal's screen changes.  There is a ";" in every piece of output:
\* without one it would not even start the loop.
SendOutput ==
    /\ ~parsing
    /\ gw_raw
    /\ output < MaxOutput
    /\ output' = output + 1
    /\ wire' = Append(wire, [of |-> MaxCommands + output + 1, part |-> "semi"])
    /\ UNCHANGED <<vars, bytes, wait_n, received, rterm, raw_stream, gw_raw,
                   mixed>>

---------------------------------------------------------------------------
(* data_received.                                                          *)

\* The first k symbols: the handshake is taken from them.
FirstChunk(k) ==
    /\ transport = "open"
    /\ ~handshake_made
    /\ handshake_made' = TRUE
    /\ bytes' = SubSeq(wire, 2, k)
    /\ wire' = SubSeq(wire, k + 1, Len(wire))
    /\ UNCHANGED <<transport, raw_mode, taskVars, requests, flagVars, wait_n,
                   received, termVars>>
    /\ Image

\* Mutants: the count of what is missing goes below zero; only a payload that
\* ends a response starts the loop.
WaitUnclipped(k) == wait_n - k
EndsPayload(payload) == payload[Len(payload)].part = "semi" /\ Len(payload) > 1

StillMissing(k) == Max({wait_n - k, 0})
MayEnd(payload) == Has(payload, "semi")

\* Later chunks join the buffer.  The loop starts, if there is anything for it,
\* unless more of a binary response is awaited or no ";" came.
Chunk(k) ==
    LET payload == SubSeq(wire, 1, k)
        missing == StillMissing(k)
        next == Extract(bytes')
    IN  /\ transport = "open"
        /\ ~parsing
        /\ handshake_made
        /\ ~raw_mode
        /\ bytes' = bytes \o payload
        /\ wire' = SubSeq(wire, k + 1, Len(wire))
        /\ IF missing > 0 \/ ~MayEnd(payload)
           THEN wait_n' = missing /\ UNCHANGED parsing
           ELSE /\ parsing' = (next.upto > 0)
                /\ wait_n' = IF next.wait > 0 THEN next.wait ELSE missing
        /\ UNCHANGED <<connVars, taskVars, requests, unknown_tag, tag_reused,
                       received, termVars>>
        /\ Image

\* In raw mode all of it goes to the StreamReader.
RawChunk(k) ==
    /\ transport = "open"
    /\ ~parsing
    /\ raw_mode
    /\ raw_stream' = raw_stream \o bytes \o SubSeq(wire, 1, k)
    /\ bytes' = <<>>
    /\ wire' = SubSeq(wire, k + 1, Len(wire))
    /\ UNCHANGED <<connVars, taskVars, requests, flagVars, wait_n, received,
                   rterm, gw_raw, output, mixed>>
    /\ Image

\* A turn of the loop: the buffer is cut after the response, whatever was before
\* it goes too, and the future is resolved, or the tag is unknown.
ResolveNext ==
    LET r == Extract(bytes)
        n == bytes[r.from].of
        next == Extract(bytes')
    IN  /\ parsing
        /\ bytes' = SubSeq(bytes, r.upto + 1, Len(bytes))
        /\ \/ /\ SetResult(n)
              /\ received' = [m \in Commands |->
                     IF response'[m] = response[m] THEN received[m]
                     ELSE SubSeq(bytes, r.from, r.upto)]
              /\ parsing' = (next.upto > 0)
              /\ wait_n' = IF next.wait > 0 THEN next.wait ELSE wait_n
              /\ UNCHANGED <<transport, unknown_tag>>
           \/ /\ TagUnknown(n)
              /\ parsing' = FALSE
              /\ UNCHANGED <<commands, call, response, received, wait_n>>
        /\ UNCHANGED <<handshake_made, raw_mode, tag_counter, requests,
                       tag_reused, wire, termVars>>
        /\ Image

\* Mutant: what is in the buffer is dropped.
LockAnsweredUnflushed ==
    /\ BecomeRaw
    /\ rterm # NoFuture
    /\ received[rterm] # <<>>
    /\ bytes' = <<>>
    /\ UNCHANGED <<wire, wait_n, received, termVars>>

\* The task that awaits the lock runs on, some time after its future was
\* resolved: result.value raises an error, else the buffer is flushed.
LockAnswered ==
    /\ ~parsing
    /\ ~raw_mode
    /\ rterm # NoFuture
    /\ call[rterm] = "answered"
    /\ received[rterm][1].part = "ok"
    /\ raw_mode' = TRUE
    /\ raw_stream' = raw_stream \o bytes
    /\ bytes' = <<>>
    /\ UNCHANGED <<transport, handshake_made, taskVars, requests, flagVars,
                   wire, wait_n, received, rterm, gw_raw, output, mixed>>
    /\ Image

StreamNext ==
    \/ Elsewhere
    \/ EnableRterm
    \/ \E n \in Commands, kind \in DOMAIN ReplyParts : StreamAnswer(n, kind)
    \/ SendOutput
    \/ \E k \in 1..Len(wire) : FirstChunk(k) \/ Chunk(k) \/ RawChunk(k)
    \/ ResolveNext
    \/ LockAnswered

\* As in AsyncProtocol: the loop goes on, connection_lost is called.
StreamFairness ==
    /\ WF_asyncVars(ResolveNext)
    /\ WF_asyncVars(transport = "closing" /\ ConnectionLost /\ UNCHANGED streamVars)

StreamSpec == StreamInit /\ [][StreamNext]_asyncVars
FairStreamSpec == StreamSpec /\ StreamFairness

---------------------------------------------------------------------------
\* The responses cut out of the stream are those the gateway sent, symbol by
\* symbol, whatever pieces they came in and whatever their data look like
\* (lines 137-200).
ResponsesAreIntact ==
    \A n \in Commands :
        call[n] = "answered" =>
            \E kind \in DOMAIN ReplyParts : received[n] = Reply(response[n], kind)

\* Raw output is not lost or swallowed between the response to the lock and the
\* moment its task runs, as long as the gateway sends no other response into it:
\* the raw stream is nothing but output, each symbol sent is there or to come, once
\* and in the order sent (lines 102-111, 132-135).
RawOutputIsKept ==
    ~mixed /\ ~tag_reused =>
        LET all == raw_stream \o bytes \o wire
        IN  /\ \A i \in DOMAIN raw_stream : IsOutput(raw_stream[i])
            /\ \A m \in 1..output : \E i \in DOMAIN all : all[i].of = MaxCommands + m
            /\ \A i, j \in DOMAIN all :
                 i < j /\ IsOutput(all[i]) /\ IsOutput(all[j]) => all[i].of < all[j].of

\* The stream implements AsyncProtocol: received in pieces, the responses do what
\* whole ones do there.  So no response is passed over: after the handshake's
\* chunk one that is complete starts the loop, which leaves none (202-220).
ImplementsProtocol == Spec
============================================================================
