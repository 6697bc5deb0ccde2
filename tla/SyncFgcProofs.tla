--------------------------- MODULE SyncFgcProofs ---------------------------
(***************************************************************************)
(* Proofs about SyncFgc, for any number of sessions, targets and channels, *)
(* and any gateway, slow or closing.                                       *)
(*                                                                         *)
(* A step of SyncFgc is a step of the registry or none, so that what       *)
(* ChannelManagerProofs says of the registry holds here (HInv).  On top of *)
(* it are three layers: where each call can be (CallState), who has the    *)
(* lock of a channel (LockOwner), and what is in its streams (Streams):    *)
(* a channel that is not upset has at most one reader, and no symbols that *)
(* are not those of its request.                                           *)
(***************************************************************************)
EXTENDS SyncFgc, ChannelLeasesProofs, SequenceTheorems

CallState(s) ==
    /\ pc[s] \notin {"token", "holding"} => kind[s] = "none"
    /\ kind[s] = "none" <=> step[s] = "ready"
    /\ kind[s] = "token" => pc[s] = "token" /\ ~IsSerial(s)
    /\ kind[s] \in {"renew", "command"} => pc[s] = "holding"
    /\ step[s] = "cleanup" => kind[s] = "token"
    /\ kind[s] = "renew" => step[s] # "acquire"
    /\ pc[s] # "holding" => reply[s] = <<>>

\* Inside "with self.channel.lock".
InWith(s) ==
    /\ step[s] \in {"write", "text", "binary", "lost", "short", "cleanup", "spinning"}
    /\ kind[s] # "renew"

LockOwner ==
    /\ \A s \in Sessions : InWith(s) => chan_lock[channel[s]] = s
    /\ \A c \in Channels, s \in Sessions :
         chan_lock[c] = s => channel[s] = c /\ InWith(s)

Replies == {TextReply, NetBinReply, SerialBinReply}
Sent(q, parts) == [i \in DOMAIN parts |-> [of |-> q, part |-> parts[i]]]
Reads(s, c) == channel[s] = c /\ step[s] \in {"text", "binary", "lost", "short"}
Quiet(c) == to_gw[c] = <<>> /\ from_gw[c] = <<>>

\* How far the reply to the session's last request has come.
Asked(s, c) ==
    /\ to_gw[c] = <<<<s, id[s]>>>> /\ from_gw[c] = <<>>
    /\ step[s] = "text" /\ reply[s] = <<>>
Answered(s, c, parts) ==
    /\ to_gw[c] = <<>> /\ from_gw[c] = Sent(<<s, id[s]>>, parts)
    /\ step[s] = "text" /\ reply[s] = <<>>
Begun(s, c, parts) ==
    /\ to_gw[c] = <<>> /\ from_gw[c] = Tail(Sent(<<s, id[s]>>, parts))
    /\ step[s] = IF parts = TextReply THEN "text" ELSE "binary"
    /\ kind[s] = "command" => reply[s] = <<[of |-> <<s, id[s]>>, part |-> parts[1]]>>
Progress(s, c) ==
    Asked(s, c) \/ \E parts \in Replies : Answered(s, c, parts) \/ Begun(s, c, parts)

Sound(c) == c \in open \ (upset \cup eof)
Paired(c) ==
    /\ (\A s \in Sessions : ~Reads(s, c)) => Quiet(c)
    /\ \A s \in Sessions : Reads(s, c) =>
         Progress(s, c) /\ \A r \in Sessions : Reads(r, c) => r = s
Streams ==
    /\ \A c \in Channels \ open : Quiet(c)
    /\ upset \cup eof \subseteq open
    /\ \A c \in Channels : Sound(c) => Paired(c)

Calls == SyncTypeOK /\ HInv /\ \A s \in Sessions : CallState(s)
SyncInv == Calls /\ LockOwner /\ Streams /\ OwnReplyUnlessUpset

---------------------------------------------------------------------------
(* The registry underneath.                                                *)

\* A step of a session or a gateway is a step of the registry, or none of it.
LEMMA RegistryUnderneath == [SyncNext]_syncVars => [Next]_vars
<1> SUFFICES ASSUME [SyncNext]_syncVars PROVE [Next]_vars
  OBVIOUS
<1>1. ASSUME NEW s \in Sessions, RegistryStep(s) PROVE Next
  BY <1>1 DEF RegistryStep, Next
<1>2. ASSUME NEW s \in Sessions,
             EnterToken(s) \/ ConnectSerial(s) \/ SessionDisconnect(s)
             \/ SetTokenFailed(s) \/ SkipToken(s)
      PROVE  Next
  BY <1>2 DEF EnterToken, ConnectSerial, SessionDisconnect, SetTokenFailed,
     SkipToken, Next
<1>3. ASSUME NEW s \in Sessions,
             StartCommand(s) \/ StartRenewal(s) \/ AcquireChannel(s)
             \/ Write(s) \/ WriteFails(s)
      PROVE  UNCHANGED vars
  BY <1>3 DEF StartCommand, StartRenewal, AcquireChannel, Write, WriteFails, Raise
<1>4. ASSUME NEW s \in Sessions, Receive(s) PROVE UNCHANGED vars \/ Next
  <2>1. ASSUME Return(s) PROVE UNCHANGED vars \/ Next
    BY <2>1 DEF Return, Next
  <2> QED
    BY <1>4, <2>1 DEF Receive, Read, StopInside, ReadMiscounted, ReadEnd,
       ReadFails, ReadDataEnd, ReadTimesOut, SerialTimesOut, ReadRest, Raise
<1>5. ASSUME NEW c \in Channels, Answer(c) \/ Close(c) PROVE UNCHANGED vars
  BY <1>5 DEF Answer, Close
<1>6. ASSUME UNCHANGED syncVars PROVE UNCHANGED vars
  BY <1>6 DEF syncVars
<1> QED
  BY <1>1, <1>2, <1>3, <1>4, <1>5, <1>6 DEF SyncNext

\* The sessions' protocol implements the registry's specification: what is
\* proved of the registry under any calls holds for the calls made here.
THEOREM SyncImplementsRegistry == SyncSpec => Spec
<1>1. SyncInit => Init
  BY DEF SyncInit
<1> QED
  BY <1>1, RegistryUnderneath, PTL DEF SyncSpec, Spec

\* So the registry keeps what it keeps for any callers that disconnect once.
LEMMA RegistryKeeps ==
    ASSUME HInv, [SyncNext]_syncVars
    PROVE  HInv'
BY RegistryUnderneath, StepHolders

\* Objects are disconnected once, so those of every target.
LEMMA EveryTargetOnce == Once = Targets
BY OneDisconnectAssumption DEF Once

\* A session in a call has an open channel.
LEMMA UserChannel ==
    ASSUME Calls, NEW s \in Sessions, kind[s] # "none"
    PROVE  /\ channel[s] \in Channels /\ channel[s] \in open
           /\ pc[s] \in {"token", "holding"}
<1>1. pc[s] \in {"token", "holding"}
  BY DEF Calls, CallState
<1> QED
  BY <1>1, EveryTargetOnce DEF Calls, HInv, HolderChannelIsOpen, SyncTypeOK, TypeOK

---------------------------------------------------------------------------
(* Types, and where each call can be.                                      *)

\* The next request of a session is one of its requests.
LEMMA NextRequest ==
    ASSUME NEW s \in Sessions, NEW n \in Nat, n < MaxRequests[s]
    PROVE  <<s, n + 1>> \in Requests
<1>1. MaxRequests[s] \in Nat
  BY MaxRequestsAssumption
<1>2. n + 1 \in 1..MaxRequests[s]
  BY <1>1
<1>3. <<s, n + 1>> \in {s} \X (1..MaxRequests[s])
  BY <1>2
<1> QED
  BY <1>3 DEF Requests

\* Cutting a sequence leaves a sequence of the same things.
LEMMA CutSequence ==
    ASSUME NEW S, NEW q \in Seq(S), NEW n \in 0..Len(q)
    PROVE  SubSeq(q, n + 1, Len(q)) \in Seq(S) /\ SubSeq(q, 1, n) \in Seq(S)
<1>1. Len(q) \in Nat
  BY LenProperties
<1>2. \A i \in 1..Len(q) : q[i] \in S
  BY ElementOfSeq
<1>3. SubSeq(q, n + 1, Len(q)) \in Seq(S)
  BY <1>1, <1>2, SubSeqProperties
<1>4. SubSeq(q, 1, n) \in Seq(S)
  BY <1>1, <1>2, SubSeqProperties
<1> QED
  BY <1>3, <1>4

\* Sequences of one, two or three symbols.
LEMMA ShortSequences ==
    ASSUME NEW a, NEW b, NEW d
    PROVE  /\ Head(<<a>>) = a /\ Tail(<<a>>) = <<>>
           /\ Head(<<a, b>>) = a /\ Tail(<<a, b>>) = <<b>>
           /\ Head(<<a, b, d>>) = a /\ Tail(<<a, b, d>>) = <<b, d>>
           /\ <<>> \o <<a>> = <<a>>
           /\ <<a>> \o <<b>> = <<a, b>>
<1>1. PICK S : S = {a, b}
  OBVIOUS
<1>2. <<a>> \in Seq(S) /\ <<b>> \in Seq(S) /\ <<a, b>> \in Seq(S)
  BY <1>1
<1>3. PICK t : t = <<a>> \o <<b>>
  OBVIOUS
<1>4. t \in Seq(S) /\ Len(t) = 2 /\ t[1] = a /\ t[2] = b
  BY <1>2, <1>3, ConcatProperties
<1>5. Len(t) = Len(<<a, b>>) /\ \A i \in 1..Len(t) : t[i] = <<a, b>>[i]
  BY <1>4
<1>6. t = <<a, b>>
  BY <1>2, <1>4, <1>5, SeqEqual
<1>7. /\ Head(<<a>>) = a /\ Head(<<a, b>>) = a /\ Head(<<a, b, d>>) = a
      /\ Tail(<<a>>) = <<>> /\ <<>> \o <<a>> = <<a>>
  OBVIOUS
<1>8. Tail(<<a, b>>) = <<b>>
  OBVIOUS
<1>9. Tail(<<a, b, d>>) = <<b, d>>
  OBVIOUS
<1>10. <<a>> \o <<b>> = <<a, b>>
  BY <1>3, <1>6
<1> QED
  BY <1>7, <1>8, <1>9, <1>10, Zenon

\* Reading one symbol: the head is taken, the tail is left.
LEMMA ReadOne ==
    ASSUME NEW S, NEW q \in Seq(S), Len(q) >= 1
    PROVE  SubSeq(q, 1, 1) = <<Head(q)>> /\ SubSeq(q, 1 + 1, Len(q)) = Tail(q)
<1>1. q # <<>> /\ q[1] \in S /\ Len(q) \in Nat
  BY LenProperties, ElementOfSeq
<1>2. PICK t : t = SubSeq(q, 1, 1)
  OBVIOUS
<1>3. PICK u : u = <<q[1]>>
  OBVIOUS
<1>4. t \in Seq(S) /\ Len(t) = 1 /\ t[1] = q[1]
  BY <1>1, <1>2, SubSeqProperties
<1>5. u \in Seq(S) /\ Len(u) = 1 /\ u[1] = q[1]
  BY <1>1, <1>3
<1>6. t = u
  BY <1>4, <1>5, SeqEqual
<1>7. Head(q) = q[1]
  BY <1>1
<1>8. Tail(q) = SubSeq(q, 2, Len(q))
  BY <1>1, TailIsSubSeq
<1>9. SubSeq(q, 1, 1) = <<Head(q)>>
  BY <1>2, <1>3, <1>6, <1>7, Zenon
<1>10. 1 + 1 = 2
  OBVIOUS
<1> QED
  BY <1>8, <1>9, <1>10, Zenon

\* What a read takes, and what it leaves.
LEMMA TakeTypes ==
    ASSUME SyncTypeOK, NEW s \in Sessions, channel[s] \in Channels,
           NEW n \in Nat, Take(s, n)
    PROVE  /\ from_gw' \in [Channels -> Seq(Symbols)]
           /\ reply' \in [Sessions -> Seq(Symbols)]
<1>1. /\ from_gw[channel[s]] \in Seq(Symbols)
      /\ reply[s] \in Seq(Symbols)
      /\ n \in 0..Len(from_gw[channel[s]])
  BY LenProperties DEF SyncTypeOK, Take
<1>2. PICK rest : rest = SubSeq(from_gw[channel[s]], n + 1, Len(from_gw[channel[s]]))
  OBVIOUS
<1>3. PICK read : read = SubSeq(from_gw[channel[s]], 1, n)
  OBVIOUS
<1>4. rest \in Seq(Symbols) /\ read \in Seq(Symbols)
  BY <1>1, <1>2, <1>3, CutSequence
<1>5. reply[s] \o read \in Seq(Symbols)
  BY <1>1, <1>4, ConcatProperties
<1> QED
  BY <1>2, <1>3, <1>4, <1>5 DEF Take, SyncTypeOK

\* The call state survives in a thread that a step leaves alone.
LEMMA OtherCalls ==
    ASSUME NEW r \in Sessions, CallState(r),
           pc'[r] = pc[r], kind'[r] = kind[r], step'[r] = step[r],
           target'[r] = target[r], reply'[r] = reply[r]
    PROVE  CallState(r)'
BY DEF CallState, IsSerial

\* A reply is a sequence of two or three symbols.
LEMMA SentIs ==
    ASSUME NEW q
    PROVE  /\ Sent(q, TextReply)
                = <<[of |-> q, part |-> "body"], [of |-> q, part |-> "end"]>>
           /\ Sent(q, NetBinReply)
                = <<[of |-> q, part |-> "flag"], [of |-> q, part |-> "data"]>>
           /\ Sent(q, SerialBinReply)
                = <<[of |-> q, part |-> "flag"], [of |-> q, part |-> "bare"],
                    [of |-> q, part |-> "tail"]>>
BY DEF Sent, TextReply, NetBinReply, SerialBinReply

\* Its parts, one after the other.
LEMMA SentParts ==
    ASSUME NEW q
    PROVE  /\ \A parts \in Replies : /\ Head(Sent(q, parts)) = [of |-> q, part |-> parts[1]]
                                     /\ parts[1] \in {"body", "flag"}
                                     /\ parts[1] = "body" <=> parts = TextReply
           /\ Tail(Sent(q, TextReply)) = <<[of |-> q, part |-> "end"]>>
           /\ Tail(Sent(q, NetBinReply)) = <<[of |-> q, part |-> "data"]>>
           /\ Head(Tail(Sent(q, SerialBinReply))) = [of |-> q, part |-> "bare"]
<1>1. PICK body, end, flag, data, bare, tail :
        /\ body = [of |-> q, part |-> "body"] /\ end = [of |-> q, part |-> "end"]
        /\ flag = [of |-> q, part |-> "flag"] /\ data = [of |-> q, part |-> "data"]
        /\ bare = [of |-> q, part |-> "bare"] /\ tail = [of |-> q, part |-> "tail"]
  OBVIOUS
<1>2. /\ Sent(q, TextReply) = <<body, end>>
      /\ Sent(q, NetBinReply) = <<flag, data>>
      /\ Sent(q, SerialBinReply) = <<flag, bare, tail>>
  BY <1>1, SentIs
<1>3. /\ TextReply[1] = "body" /\ NetBinReply[1] = "flag" /\ SerialBinReply[1] = "flag"
  BY DEF TextReply, NetBinReply, SerialBinReply
<1>4. /\ Head(Sent(q, TextReply)) = [of |-> q, part |-> TextReply[1]]
      /\ Head(Sent(q, NetBinReply)) = [of |-> q, part |-> NetBinReply[1]]
      /\ Head(Sent(q, SerialBinReply)) = [of |-> q, part |-> SerialBinReply[1]]
  BY <1>1, <1>2, <1>3, ShortSequences
<1>5. /\ Tail(Sent(q, TextReply)) = <<end>>
      /\ Tail(Sent(q, NetBinReply)) = <<data>>
      /\ Tail(Sent(q, SerialBinReply)) = <<bare, tail>>
  BY <1>2, ShortSequences
<1>6. Head(Tail(Sent(q, SerialBinReply))) = bare
  BY <1>5, ShortSequences
<1>7. ASSUME NEW parts \in Replies
      PROVE  /\ Head(Sent(q, parts)) = [of |-> q, part |-> parts[1]]
             /\ parts[1] \in {"body", "flag"}
             /\ parts[1] = "body" <=> parts = TextReply
  <2>1. CASE parts = TextReply
    BY <1>3, <1>4, <2>1
  <2>2. CASE parts = NetBinReply
    BY <1>3, <1>4, <2>2
  <2>3. CASE parts = SerialBinReply
    BY <1>3, <1>4, <2>3
  <2> QED BY <2>1, <2>2, <2>3 DEF Replies
<1> QED
  BY <1>1, <1>5, <1>6, <1>7

\* So what the gateway sends has the type of a stream.
LEMMA SentType ==
    ASSUME NEW q \in Requests, NEW parts \in Replies
    PROVE  Sent(q, parts) \in Seq(Symbols)
<1>1. \A x \in Parts : [of |-> q, part |-> x] \in Symbols
  BY DEF Symbols
<1>2. {"body", "end", "flag", "data", "bare", "tail"} \subseteq Parts
  BY DEF Parts
<1>a. \A x, y \in Symbols : <<x, y>> \in Seq(Symbols)
  OBVIOUS
<1>b. \A x, y, z \in Symbols : <<x, y, z>> \in Seq(Symbols)
  OBVIOUS
<1>c. \A x \in {"body", "end", "flag", "data", "bare", "tail"} :
        [of |-> q, part |-> x] \in Symbols
  BY <1>1, <1>2
<1>3. CASE parts = TextReply
  BY <1>3, <1>a, <1>c, SentIs, Zenon
<1>4. CASE parts = NetBinReply
  BY <1>4, <1>a, <1>c, SentIs, Zenon
<1>5. CASE parts = SerialBinReply
  BY <1>5, <1>b, <1>c, SentIs, Zenon
<1> QED
  BY <1>3, <1>4, <1>5 DEF Replies

\* Calls stay well formed when their registry does (the other conjuncts).
LEMMA StepCalls == Calls /\ [SyncNext]_syncVars => Calls'
<1> SUFFICES ASSUME Calls, [SyncNext]_syncVars PROVE Calls'
  OBVIOUS
<1>h. HInv' /\ TypeOK'
  BY RegistryKeeps DEF Calls, HInv, IInv, Registry, RegistryType, ThreadType, TypeOK
<1>i. SyncTypeOK /\ TypeOK /\ \A r \in Sessions : CallState(r)
  BY DEF Calls, SyncTypeOK
<1> SUFFICES SyncTypeOK' /\ \A r \in Sessions : CallState(r)'
  BY <1>h DEF Calls
<1>1. ASSUME NEW s \in Sessions, RegistryStep(s)
      PROVE  SyncTypeOK' /\ \A r \in Sessions : CallState(r)'
  <2>1. SyncTypeOK'
    BY <1>h, <1>i, <1>1 DEF SyncTypeOK, RegistryStep, callVars, wireVars
  <2>2. /\ UNCHANGED <<kind, step, reply>>
        /\ pc[s] \notin {"token", "holding"} /\ pc'[s] \notin {"token", "holding"}
        /\ \A r \in Sessions \ {s} : pc'[r] = pc[r] /\ target'[r] = target[r]
    BY <1>i, <1>1 DEF RegistryStep, callVars, Connect, AddChannel, BeginCreate,
       CreateSucceeds, CreateFails, Drop, TypeOK
  <2>3. CallState(s)'
    BY <1>i, <2>2 DEF CallState
  <2>4. ASSUME NEW r \in Sessions \ {s} PROVE CallState(r)'
    BY <1>i, <2>2, <2>4, OtherCalls
  <2> QED BY <2>1, <2>3, <2>4
<1>2. ASSUME NEW s \in Sessions, EnterToken(s)
      PROVE  SyncTypeOK' /\ \A r \in Sessions : CallState(r)'
  <2>1. SyncTypeOK'
    BY <1>h, <1>i, <1>2 DEF SyncTypeOK, EnterToken, wireVars, Steps
  <2> QED
    BY <1>i, <1>2, <2>1 DEF EnterToken, ReadBack, CallState, IsSerial, SyncTypeOK, TypeOK
<1>3. ASSUME NEW s \in Sessions, ConnectSerial(s)
      PROVE  SyncTypeOK' /\ \A r \in Sessions : CallState(r)'
  <2>1. SyncTypeOK'
    BY <1>h, <1>i, <1>3 DEF SyncTypeOK, ConnectSerial, callVars, wireVars
  <2> QED
    BY <1>i, <1>3, <2>1 DEF ConnectSerial, callVars, ReadBack, TokenSet, CallState,
       IsSerial, SyncTypeOK, TypeOK
<1>4. ASSUME NEW s \in Sessions, SessionDisconnect(s) \/ SetTokenFailed(s)
      PROVE  SyncTypeOK' /\ \A r \in Sessions : CallState(r)'
  <2>1. /\ LeaveChannel(s)
        /\ pc'[s] \in {"idle", "gone"}
        /\ \A r \in Sessions \ {s} : pc'[r] = pc[r]
        /\ target' = target
        /\ chan_lock' \in [Channels -> Sessions \cup {NoSession}]
    BY <1>i, <1>4 DEF SessionDisconnect, SetTokenFailed, Disconnect, TokenFails,
       TypeOK, SyncTypeOK
  <2>2. /\ kind' \in [Sessions -> {"none", "token", "renew", "command"}]
        /\ step' \in [Sessions -> Steps]
        /\ id' \in [Sessions -> Nat]
        /\ \A r \in Sessions : id'[r] \in {id[r], 0}
    BY <1>i, <2>1 DEF LeaveChannel, SyncTypeOK, Steps
  <2>3. reply' \in [Sessions -> Seq(Symbols)]
    BY <1>i, <2>1 DEF LeaveChannel, SyncTypeOK
  <2>4. /\ to_gw' \in [Channels -> Seq(Requests)]
        /\ from_gw' \in [Channels -> Seq(Symbols)]
        /\ eof' \in SUBSET Channels /\ upset' \in SUBSET Channels
    BY <1>i, <2>1 DEF LeaveChannel, SyncTypeOK
  <2>8. \A r \in Sessions : id'[r] \in 0..MaxRequests[r]
    <3> SUFFICES ASSUME NEW r \in Sessions PROVE id'[r] \in 0..MaxRequests[r]
      OBVIOUS
    <3>1. MaxRequests[r] \in Nat /\ id[r] \in 0..MaxRequests[r]
      BY <1>i, MaxRequestsAssumption DEF SyncTypeOK
    <3> QED BY <2>2, <3>1
  <2>5. SyncTypeOK'
    BY <1>h, <2>1, <2>2, <2>3, <2>4, <2>8 DEF SyncTypeOK
  <2>6. CallState(s)'
    BY <1>i, <2>1 DEF LeaveChannel, CallState, SyncTypeOK
  <2>7. ASSUME NEW r \in Sessions \ {s} PROVE CallState(r)'
    BY <1>i, <2>1, <2>7, OtherCalls DEF LeaveChannel, SyncTypeOK
  <2> QED BY <2>5, <2>6, <2>7
<1>5. ASSUME NEW s \in Sessions, StartCommand(s) \/ StartRenewal(s)
      PROVE  SyncTypeOK' /\ \A r \in Sessions : CallState(r)'
  <2>2. reply' \in [Sessions -> Seq(Symbols)]
    <3>1. reply' = [reply EXCEPT ![s] = <<>>]
      BY <1>5 DEF StartCommand, StartRenewal
    <3> QED BY <1>i, <3>1 DEF SyncTypeOK
  <2>3. kind' \in [Sessions -> {"none", "token", "renew", "command"}]
    BY <1>i, <1>5 DEF SyncTypeOK, StartCommand, StartRenewal
  <2>4. step' \in [Sessions -> Steps]
    BY <1>i, <1>5 DEF SyncTypeOK, StartCommand, StartRenewal, Steps
  <2>1. SyncTypeOK'
    BY <1>h, <1>i, <1>5, <2>2, <2>3, <2>4
       DEF SyncTypeOK, StartCommand, StartRenewal, wireVars
  <2> QED
    BY <1>i, <1>5, <2>1 DEF StartCommand, StartRenewal, vars, CallState, IsSerial,
       SyncTypeOK, TypeOK
<1>6. ASSUME NEW s \in Sessions, AcquireChannel(s)
      PROVE  SyncTypeOK' /\ \A r \in Sessions : CallState(r)'
  <2>0. /\ step' \in [Sessions -> Steps]
        /\ chan_lock' \in [Channels -> Sessions \cup {NoSession}]
    BY <1>i, <1>6 DEF SyncTypeOK, AcquireChannel, Steps
  <2>1. SyncTypeOK'
    BY <1>h, <1>i, <1>6, <2>0 DEF SyncTypeOK, AcquireChannel
  <2> QED
    BY <1>i, <1>6, <2>1 DEF AcquireChannel, vars, CallState, IsSerial, SyncTypeOK
<1>17. ASSUME NEW s \in Sessions, SkipToken(s)
      PROVE  SyncTypeOK' /\ \A r \in Sessions : CallState(r)'
  <2>0. /\ step' \in [Sessions -> Steps]
        /\ kind' \in [Sessions -> {"none", "token", "renew", "command"}]
    BY <1>i, <1>17 DEF SyncTypeOK, SkipToken, Steps
  <2>1. SyncTypeOK'
    BY <1>h, <1>i, <1>17, <2>0 DEF SyncTypeOK, SkipToken, wireVars
  <2> QED
    BY <1>i, <1>17, <2>1 DEF SkipToken, TokenSet, CallState, IsSerial,
       SyncTypeOK, TypeOK
<1>7. ASSUME NEW s \in Sessions, Write(s)
      PROVE  SyncTypeOK' /\ \A r \in Sessions : CallState(r)'
  <2>1. /\ channel[s] \in Channels
        /\ id[s] \in Nat /\ id[s] < MaxRequests[s] /\ MaxRequests[s] \in Nat
    BY <1>i, <1>7, UserChannel, MaxRequestsAssumption DEF Write, CallState, SyncTypeOK
  <2>2. <<s, id[s] + 1>> \in Requests
    BY <2>1, NextRequest
  <2>3. to_gw' \in [Channels -> Seq(Requests)]
    BY <1>i, <1>7, <2>1, <2>2, AppendProperties DEF Write, SyncTypeOK
  <2>4. id' \in [Sessions -> Nat] /\ \A r \in Sessions : id'[r] \in 0..MaxRequests[r]
    BY <1>i, <1>7, <2>1 DEF Write, SyncTypeOK
  <2>5. /\ reply' \in [Sessions -> Seq(Symbols)]
        /\ step' \in [Sessions -> Steps]
        /\ upset' \in SUBSET Channels
    BY <1>i, <1>7, <2>1 DEF Write, SyncTypeOK, Steps
  <2>6. SyncTypeOK'
    BY <1>h, <1>i, <1>7, <2>3, <2>4, <2>5 DEF Write, SyncTypeOK
  <2> QED
    BY <1>i, <1>7, <2>6 DEF Write, vars, CallState, IsSerial, SyncTypeOK
<1>8. ASSUME NEW s \in Sessions, Raise(s), kind[s] # "none", step[s] # "ready",
             UNCHANGED <<id, to_gw, from_gw, eof>>,
             upset' = upset \/ upset' = upset \cup {channel[s]}
      PROVE  SyncTypeOK' /\ \A r \in Sessions : CallState(r)'
  <2>1. channel[s] \in Channels
    BY <1>8, UserChannel
  <2>3. reply' \in [Sessions -> Seq(Symbols)]
    BY <1>i, <1>8 DEF SyncTypeOK, Raise
  <2>4. kind' \in [Sessions -> {"none", "token", "renew", "command"}]
    BY <1>i, <1>8 DEF SyncTypeOK, Raise
  <2>5. step' \in [Sessions -> Steps]
    BY <1>i, <1>8 DEF SyncTypeOK, Raise, Steps
  <2>6. chan_lock' \in [Channels -> Sessions \cup {NoSession}]
    BY <1>i, <1>8 DEF SyncTypeOK, Raise, Release
  <2>2. SyncTypeOK'
    BY <1>h, <1>i, <1>8, <2>1, <2>3, <2>4, <2>5, <2>6 DEF SyncTypeOK
  <2> QED
    BY <1>i, <1>8, <2>2 DEF Raise, vars, CallState, IsSerial, SyncTypeOK
<1>9. ASSUME NEW s \in Sessions, Return(s), kind[s] # "none",
             reply' \in [Sessions -> Seq(Symbols)],
             \A r \in Sessions \ {s} : reply'[r] = reply[r],
             kind[s] # "command" => reply'[s] = reply[s],
             from_gw' \in [Channels -> Seq(Symbols)],
             UNCHANGED <<id, to_gw, eof>>,
             upset' = upset \/ upset' = upset \cup {channel[s]}
      PROVE  SyncTypeOK' /\ \A r \in Sessions : CallState(r)'
  <2>1. channel[s] \in Channels
    BY <1>9, UserChannel
  <2>2. SyncTypeOK'
    BY <1>h, <1>i, <1>9, <2>1 DEF SyncTypeOK, Return, Release, Steps
  <2>3. /\ target' = target
        /\ IF kind[s] = "token" THEN pc' = [pc EXCEPT ![s] = "holding"] ELSE pc' = pc
        /\ kind' = [kind EXCEPT ![s] = IF @ = "renew" THEN "command" ELSE "none"]
        /\ step' = [step EXCEPT ![s] = IF kind[s] = "renew" THEN "acquire" ELSE "ready"]
    BY <1>9 DEF Return, TokenSet, vars
  <2>4. \A r \in Sessions \ {s} : CallState(r)'
    BY <1>i, <1>9, <2>3 DEF CallState, IsSerial, SyncTypeOK, TypeOK
  <2>5. CallState(s)'
    BY <1>i, <1>9, <2>3 DEF CallState, IsSerial, SyncTypeOK, TypeOK
  <2> QED
    BY <2>2, <2>4, <2>5
<1>10. ASSUME NEW s \in Sessions, kind[s] # "none", NEW to \in Steps,
              to \notin {"ready", "acquire", "cleanup"},
              step[s] # "ready",
              step' = [step EXCEPT ![s] = to],
              UNCHANGED <<vars, kind, chan_lock, id, to_gw, eof>>,
              reply' \in [Sessions -> Seq(Symbols)],
              \A r \in Sessions \ {s} : reply'[r] = reply[r],
              kind[s] # "command" => reply'[s] = reply[s],
              from_gw' \in [Channels -> Seq(Symbols)],
              upset' = upset \/ upset' = upset \cup {channel[s]}
       PROVE  SyncTypeOK' /\ \A r \in Sessions : CallState(r)'
  <2>1. channel[s] \in Channels
    BY <1>10, UserChannel
  <2>2. SyncTypeOK'
    BY <1>h, <1>i, <1>10, <2>1 DEF SyncTypeOK
  <2> QED
    BY <1>i, <1>10, <2>2 DEF vars, CallState, IsSerial, SyncTypeOK
<1>11. ASSUME NEW s \in Sessions, WriteFails(s) \/ ReadFails(s) \/ ReadTimesOut(s)
       PROVE  SyncTypeOK' /\ \A r \in Sessions : CallState(r)'
  <2>1. kind[s] # "none"
    BY <1>i, <1>11 DEF CallState, WriteFails, ReadFails, ReadTimesOut
  <2> QED
    BY <1>8, <1>11, <2>1 DEF WriteFails, ReadFails, ReadTimesOut
<1>12. ASSUME NEW s \in Sessions, Read(s) \/ ReadRest(s)
       PROVE  SyncTypeOK' /\ \A r \in Sessions : CallState(r)'
  <2>1. kind[s] # "none" /\ channel[s] \in Channels
    BY <1>i, <1>12, UserChannel DEF CallState, Read, ReadRest
  <2>2. PICK n \in Nat : Take(s, n)
    BY <1>12 DEF Read, ReadRest
  <2>3. /\ from_gw' \in [Channels -> Seq(Symbols)]
        /\ reply' \in [Sessions -> Seq(Symbols)]
        /\ \A r \in Sessions \ {s} : reply'[r] = reply[r]
        /\ kind[s] # "command" => reply'[s] = reply[s]
    <3>1. /\ from_gw' \in [Channels -> Seq(Symbols)]
          /\ reply' \in [Sessions -> Seq(Symbols)]
      BY <1>i, <2>1, <2>2, TakeTypes
    <3> QED
      BY <1>i, <2>2, <3>1 DEF Take, SyncTypeOK
  <2>4. CASE Return(s)
    BY <1>9, <1>12, <2>1, <2>3, <2>4 DEF Read, ReadRest
  <2>5. CASE ~Return(s)
    <3>1. /\ step[s] # "ready"
          /\ \E to \in {"text", "binary"} : step' = [step EXCEPT ![s] = to]
          /\ UNCHANGED <<vars, kind, chan_lock, id, to_gw, eof>>
          /\ upset' = upset \/ upset' = upset \cup {channel[s]}
      BY <1>12, <2>5 DEF Read, ReadRest
    <3> QED
      BY <1>10, <2>1, <2>3, <3>1 DEF Steps
  <2> QED BY <2>4, <2>5
<1>13. ASSUME NEW s \in Sessions, ReadEnd(s) \/ ReadDataEnd(s) \/ SerialTimesOut(s)
       PROVE  SyncTypeOK' /\ \A r \in Sessions : CallState(r)'
  <2>1. /\ kind[s] # "none" /\ step[s] # "ready"
        /\ UNCHANGED <<id, to_gw, from_gw, eof>>
        /\ upset' = upset \/ upset' = upset \cup {channel[s]}
    BY <1>i, <1>13 DEF CallState, ReadEnd, ReadDataEnd, SerialTimesOut, wireVars
  <2>2. /\ from_gw \in [Channels -> Seq(Symbols)]
        /\ reply \in [Sessions -> Seq(Symbols)]
    BY <1>i DEF SyncTypeOK
  <2>3. \/ Return(s) /\ UNCHANGED reply
        \/ Raise(s)
        \/ /\ \E to \in {"spinning", "short"} : step' = [step EXCEPT ![s] = to]
           /\ UNCHANGED <<vars, kind, reply, chan_lock>>
    BY <1>13 DEF ReadEnd, ReadDataEnd, SerialTimesOut, wireVars
  <2>4. CASE Return(s) /\ UNCHANGED reply
    BY <1>9, <2>1, <2>2, <2>4
  <2>5. CASE Raise(s)
    BY <1>8, <2>1, <2>5
  <2>6. CASE /\ \E to \in {"spinning", "short"} : step' = [step EXCEPT ![s] = to]
             /\ UNCHANGED <<vars, kind, reply, chan_lock>>
    BY <1>10, <2>1, <2>2, <2>6 DEF Steps
  <2> QED BY <2>3, <2>4, <2>5, <2>6
<1>14. ASSUME NEW c \in Channels, Answer(c) \/ Close(c)
       PROVE  SyncTypeOK' /\ \A r \in Sessions : CallState(r)'
  <2>1. to_gw[c] \in Seq(Requests) /\ from_gw[c] \in Seq(Symbols)
    BY <1>i DEF SyncTypeOK
  <2>2. UNCHANGED <<vars, callVars, chan_lock, upset>> /\ eof' \in SUBSET Channels
    BY <1>i, <1>14 DEF Answer, Close, SyncTypeOK
  <2>3. to_gw' \in [Channels -> Seq(Requests)]
    <3>1. CASE Answer(c)
      <4>1. Tail(to_gw[c]) \in Seq(Requests)
        BY <2>1, <3>1, HeadTailProperties DEF Answer
      <4> QED BY <1>i, <3>1, <4>1 DEF Answer, SyncTypeOK
    <3>2. CASE Close(c)
      BY <1>i, <3>2 DEF Close, SyncTypeOK
    <3> QED BY <1>14, <3>1, <3>2
  <2>4. from_gw' \in [Channels -> Seq(Symbols)]
    <3>1. ASSUME Answer(c) PROVE from_gw' \in [Channels -> Seq(Symbols)]
      <4>1. Head(to_gw[c]) \in Requests
        BY <2>1, <3>1, HeadTailProperties DEF Answer
      <4>2. PICK parts \in Replies :
              from_gw' = [from_gw EXCEPT ![c] = @ \o Sent(Head(to_gw[c]), parts)]
        BY <3>1 DEF Answer, Sent, Replies
      <4>3. from_gw[c] \o Sent(Head(to_gw[c]), parts) \in Seq(Symbols)
        BY <2>1, <4>1, SentType, ConcatProperties
      <4> QED BY <1>i, <4>2, <4>3 DEF SyncTypeOK
    <3>2. ASSUME Close(c) PROVE from_gw' \in [Channels -> Seq(Symbols)]
      <4>1. PICK n \in 0..Len(from_gw[c]) :
              from_gw' = [from_gw EXCEPT ![c] = SubSeq(@, 1, n)]
        BY <3>2 DEF Close
      <4>2. SubSeq(from_gw[c], 1, n) \in Seq(Symbols)
        BY <2>1, CutSequence
      <4> QED BY <1>i, <4>1, <4>2 DEF SyncTypeOK
    <3> QED BY <1>14, <3>1, <3>2
  <2>5. SyncTypeOK'
    BY <1>h, <1>i, <2>2, <2>3, <2>4 DEF SyncTypeOK, callVars
  <2> QED
    BY <1>i, <2>2, <2>5, OtherCalls DEF callVars, vars
<1>15. ASSUME UNCHANGED syncVars
       PROVE  SyncTypeOK' /\ \A r \in Sessions : CallState(r)'
  <2>1. SyncTypeOK'
    BY <1>h, <1>i, <1>15 DEF SyncTypeOK, syncVars, callVars, wireVars
  <2> QED
    BY <1>i, <1>15, <2>1, OtherCalls DEF syncVars, callVars, vars
<1>18. ASSUME NEW s \in Sessions, StopInside(s) \/ ReadMiscounted(s)
       PROVE  SyncTypeOK' /\ \A r \in Sessions : CallState(r)'
  <2>1. /\ kind[s] # "none" /\ step[s] # "ready" /\ channel[s] \in Channels
        /\ UNCHANGED <<id, to_gw, eof>>
        /\ upset' = upset \/ upset' = upset \cup {channel[s]}
    BY <1>i, <1>18, UserChannel DEF CallState, StopInside, ReadMiscounted
  <2>2. /\ from_gw[channel[s]] \in Seq(Symbols) /\ from_gw[channel[s]] # <<>>
        /\ reply[s] \in Seq(Symbols)
    BY <1>i, <1>18, <2>1 DEF SyncTypeOK, StopInside, ReadMiscounted
  <2>3. /\ Head(from_gw[channel[s]]) \in Symbols
        /\ Tail(from_gw[channel[s]]) \in Seq(Symbols)
    BY <2>2, HeadTailProperties
  <2>4. Append(reply[s], Head(from_gw[channel[s]])) \in Seq(Symbols)
    BY <2>2, <2>3, AppendProperties
  <2>5. /\ from_gw' \in [Channels -> Seq(Symbols)]
        /\ reply' \in [Sessions -> Seq(Symbols)]
        /\ \A r \in Sessions \ {s} : reply'[r] = reply[r]
        /\ kind[s] # "command" => reply'[s] = reply[s]
    BY <1>i, <1>18, <2>3, <2>4 DEF SyncTypeOK, StopInside, ReadMiscounted
  <2>6. \/ Return(s)
        \/ step' = [step EXCEPT ![s] = "lost"] /\ UNCHANGED <<vars, kind, chan_lock>>
    BY <1>18 DEF StopInside, ReadMiscounted
  <2>7. CASE Return(s)
    BY <1>9, <2>1, <2>5, <2>7
  <2>8. CASE step' = [step EXCEPT ![s] = "lost"] /\ UNCHANGED <<vars, kind, chan_lock>>
    BY <1>10, <2>1, <2>5, <2>8 DEF Steps
  <2> QED BY <2>6, <2>7, <2>8
<1>16. ASSUME NEW s \in Sessions, Receive(s)
       PROVE  SyncTypeOK' /\ \A r \in Sessions : CallState(r)'
  BY <1>11, <1>12, <1>13, <1>16, <1>18 DEF Receive
<1> QED
  BY <1>1, <1>2, <1>3, <1>4, <1>5, <1>6, <1>7, <1>11, <1>17, <1>14, <1>15, <1>16 DEF SyncNext

\* What a step of one session's thread leaves alone in the others.
Others(s) ==
    \A r \in Sessions \ {s} :
        /\ channel'[r] = channel[r]
        /\ kind'[r] = kind[r]
        /\ step'[r] = step[r]
        /\ id'[r] = id[r]
        /\ reply'[r] = reply[r]

\* The actions of a session.
SessionStep(s) ==
    \/ RegistryStep(s) \/ EnterToken(s) \/ ConnectSerial(s)
    \/ SessionDisconnect(s) \/ SetTokenFailed(s)
    \/ StartCommand(s) \/ StartRenewal(s)
    \/ AcquireChannel(s) \/ SkipToken(s)
    \/ Write(s) \/ WriteFails(s)
    \/ Receive(s)

\* A thread writes to its own session's attributes only.
LEMMA OwnAttributes ==
    ASSUME Calls, NEW s \in Sessions, SessionStep(s)
    PROVE  Others(s)
<1>i. SyncTypeOK /\ TypeOK
  BY DEF Calls, SyncTypeOK
<1>1. CASE RegistryStep(s)
  BY <1>i, <1>1 DEF RegistryStep, Others, callVars, Connect, AddChannel,
     BeginCreate, CreateSucceeds, CreateFails, Drop
<1>2. CASE EnterToken(s) \/ ConnectSerial(s)
  BY <1>i, <1>2 DEF EnterToken, ConnectSerial, ReadBack, TokenSet, Others, callVars,
     SyncTypeOK, TypeOK
<1>3. CASE SessionDisconnect(s) \/ SetTokenFailed(s)
  BY <1>i, <1>3 DEF SessionDisconnect, SetTokenFailed, Disconnect, TokenFails,
     LeaveChannel, Others, SyncTypeOK, TypeOK
<1>4. CASE StartCommand(s) \/ StartRenewal(s) \/ AcquireChannel(s) \/ SkipToken(s)
  BY <1>i, <1>4 DEF StartCommand, StartRenewal, AcquireChannel, SkipToken, TokenSet,
     Others, vars, SyncTypeOK
<1>5. CASE Write(s)
  BY <1>i, <1>5 DEF Write, Others, vars, SyncTypeOK
<1>6. ASSUME Raise(s), UNCHANGED id PROVE Others(s)
  BY <1>i, <1>6 DEF Raise, Others, vars, SyncTypeOK
<1>7. ASSUME Return(s), UNCHANGED id,
             \A r \in Sessions \ {s} : reply'[r] = reply[r]
      PROVE  Others(s)
  BY <1>i, <1>7 DEF Return, TokenSet, Others, vars, SyncTypeOK
<1>8. CASE WriteFails(s) \/ ReadFails(s) \/ ReadTimesOut(s)
  BY <1>6, <1>8 DEF WriteFails, ReadFails, ReadTimesOut
<1>9. CASE ReadEnd(s) \/ ReadDataEnd(s) \/ SerialTimesOut(s)
  <2>1. CASE Return(s)
    <3>1. UNCHANGED id /\ (UNCHANGED reply \/ Raise(s))
      BY <1>9 DEF ReadEnd, ReadDataEnd, SerialTimesOut
    <3> QED BY <1>6, <1>7, <2>1, <3>1
  <2>2. CASE ~Return(s)
    BY <1>i, <1>6, <1>9, <2>2 DEF ReadEnd, ReadDataEnd, SerialTimesOut, Others,
       vars, wireVars, SyncTypeOK
  <2> QED BY <2>1, <2>2
<1>10. CASE Read(s) \/ ReadRest(s)
  <2>1. \A r \in Sessions \ {s} : reply'[r] = reply[r]
    BY <1>i, <1>10 DEF Read, ReadRest, Take, SyncTypeOK
  <2>2. CASE Return(s)
    BY <1>7, <1>10, <2>1, <2>2 DEF Read, ReadRest
  <2>3. CASE ~Return(s)
    BY <1>i, <1>10, <2>1, <2>3 DEF Read, ReadRest, Others, vars, SyncTypeOK
  <2> QED BY <2>2, <2>3
<1>11. CASE StopInside(s) \/ ReadMiscounted(s)
  <2>1. UNCHANGED id /\ \A r \in Sessions \ {s} : reply'[r] = reply[r]
    BY <1>i, <1>11 DEF StopInside, ReadMiscounted, SyncTypeOK
  <2>2. CASE Return(s)
    BY <1>7, <2>1, <2>2
  <2>3. CASE ~Return(s)
    BY <1>i, <1>11, <2>1, <2>3 DEF StopInside, ReadMiscounted, Others, vars,
       SyncTypeOK
  <2> QED BY <2>2, <2>3
<1> QED
  BY <1>1, <1>2, <1>3, <1>4, <1>5, <1>8, <1>9, <1>10, <1>11 DEF SessionStep, Receive

---------------------------------------------------------------------------
(* Who has the lock of a channel.                                          *)

\* A step that takes or gives back no lock.
LEMMA SameLocks ==
    ASSUME Calls, LockOwner, chan_lock' = chan_lock,
           \A r \in Sessions :
               /\ InWith(r)' <=> InWith(r)
               /\ InWith(r) => channel'[r] = channel[r]
    PROVE  LockOwner'
BY DEF LockOwner, Calls, SyncTypeOK

\* A step that leaves the "with".
LEMMA LockGivenBack ==
    ASSUME Calls, LockOwner, NEW s \in Sessions, Others(s), InWith(s), ~InWith(s)',
           chan_lock' = [chan_lock EXCEPT ![channel[s]] = NoSession]
    PROVE  LockOwner'
<1>1. \A r \in Sessions \ {s} :
        (InWith(r)' <=> InWith(r)) /\ channel'[r] = channel[r]
  BY DEF Others, InWith
<1>2. chan_lock[channel[s]] = s /\ channel[s] \in Channels
  BY UserChannel DEF LockOwner, InWith, Calls, CallState
<1>3. chan_lock \in [Channels -> Sessions \cup {NoSession}]
  BY DEF Calls, SyncTypeOK
<1>4. ASSUME NEW r \in Sessions, InWith(r)' PROVE chan_lock'[channel'[r]] = r
  <2>1. r # s /\ InWith(r) /\ channel'[r] = channel[r] /\ chan_lock[channel[r]] = r
    BY <1>1, <1>4 DEF LockOwner
  <2>2. channel[r] \in Channels
    BY <2>1, UserChannel DEF InWith, Calls, CallState
  <2> QED BY <1>2, <1>3, <2>1, <2>2
<1>5. ASSUME NEW c \in Channels, NEW r \in Sessions, chan_lock'[c] = r
      PROVE  channel'[r] = c /\ InWith(r)'
  <2>1. c # channel[s] /\ r = chan_lock[c]
    BY <1>2, <1>3, <1>5, NoneAssumption
  <2>2. channel[r] = c /\ InWith(r)
    BY <1>3, <1>5, <2>1 DEF LockOwner
  <2> QED BY <1>1, <2>1, <2>2
<1> QED
  BY <1>4, <1>5 DEF LockOwner

\* The locks follow the calls.
LEMMA StepLocks == Calls /\ LockOwner /\ [SyncNext]_syncVars => LockOwner'
<1> SUFFICES ASSUME Calls, LockOwner, [SyncNext]_syncVars PROVE LockOwner'
  OBVIOUS
<1>i. /\ SyncTypeOK /\ TypeOK /\ TypeOK' /\ SyncTypeOK'
      /\ \A r \in Sessions : CallState(r) /\ CallState(r)'
  BY StepCalls DEF Calls, SyncTypeOK
<1>o. ASSUME NEW s \in Sessions, SessionStep(s), chan_lock' = chan_lock,
             InWith(s) <=> InWith(s)', InWith(s) => channel'[s] = channel[s]
      PROVE  LockOwner'
  <2>1. \A r \in Sessions \ {s} :
          (InWith(r)' <=> InWith(r)) /\ channel'[r] = channel[r]
    BY <1>o, OwnAttributes DEF Others, InWith
  <2> QED BY <1>o, <2>1, SameLocks
<1>1. ASSUME NEW s \in Sessions, RegistryStep(s) PROVE LockOwner'
  <2>1. /\ UNCHANGED <<kind, step, chan_lock>>
        /\ channel' = channel
    BY <1>1 DEF RegistryStep, callVars, wireVars, Connect, AddChannel,
       BeginCreate, CreateSucceeds, CreateFails, Drop
  <2> QED BY <2>1, SameLocks DEF InWith
<1>2. ASSUME NEW s \in Sessions, EnterToken(s) \/ ConnectSerial(s) PROVE LockOwner'
  <2>1. ~InWith(s) \/ channel'[s] = channel[s]
    BY <1>i, <1>2 DEF EnterToken, ConnectSerial, ReadBack, TokenSet, InWith,
       CallState
  <2>2. chan_lock' = chan_lock /\ (InWith(s) <=> InWith(s)')
    BY <1>i, <1>2 DEF EnterToken, ConnectSerial, ReadBack, InWith, CallState,
       wireVars, callVars, SyncTypeOK, TypeOK
  <2> QED BY <1>o, <1>2, <2>1, <2>2 DEF SessionStep
<1>3. ASSUME NEW s \in Sessions, SessionDisconnect(s) PROVE LockOwner'
  <2>1. ~InWith(s) /\ ~InWith(s)' /\ chan_lock' = chan_lock
    BY <1>i, <1>3 DEF SessionDisconnect, LeaveChannel, InWith, SyncTypeOK
  <2> QED BY <1>o, <1>3, <2>1 DEF SessionStep
<1>4. ASSUME NEW s \in Sessions, SetTokenFailed(s) PROVE LockOwner'
  <2>1. /\ InWith(s) /\ ~InWith(s)'
        /\ chan_lock' = [chan_lock EXCEPT ![channel[s]] = NoSession]
    BY <1>i, <1>4 DEF SetTokenFailed, LeaveChannel, InWith, SyncTypeOK, CallState
  <2> QED BY <1>4, <2>1, LockGivenBack, OwnAttributes DEF SessionStep
<1>5. ASSUME NEW s \in Sessions, StartCommand(s) \/ StartRenewal(s) \/ SkipToken(s)
      PROVE  LockOwner'
  <2>1. ~InWith(s) /\ ~InWith(s)' /\ chan_lock' = chan_lock
    BY <1>i, <1>5 DEF StartCommand, StartRenewal, SkipToken, InWith, SyncTypeOK, wireVars
  <2> QED BY <1>o, <1>5, <2>1 DEF SessionStep
<1>6. ASSUME NEW s \in Sessions, AcquireChannel(s) PROVE LockOwner'
  <2>1. PICK c : c = channel[s]
    OBVIOUS
  <2>2. /\ c \in Channels /\ channel' = channel
        /\ chan_lock[c] = NoSession
        /\ chan_lock' = [chan_lock EXCEPT ![c] = s]
        /\ kind[s] # "renew" /\ kind' = kind
        /\ step[s] = "acquire" /\ step' = [step EXCEPT ![s] = "write"]
    BY <1>i, <1>6, <2>1, UserChannel DEF AcquireChannel, vars, CallState
  <2>3. ~InWith(s) /\ InWith(s)' /\ \A r \in Sessions \ {s} : InWith(r)' <=> InWith(r)
    BY <1>i, <2>2 DEF InWith, SyncTypeOK
  <2>4. ASSUME NEW r \in Sessions \ {s}, InWith(r) PROVE channel[r] # c
    BY <2>2, <2>4, NoneAssumption DEF LockOwner
  <2>5. ASSUME NEW r \in Sessions, InWith(r)' PROVE chan_lock'[channel'[r]] = r
    <3>1. CASE r = s
      BY <1>i, <2>1, <2>2, <3>1 DEF SyncTypeOK
    <3>2. CASE r # s
      <4>1. InWith(r) /\ channel[r] \in Channels /\ channel[r] # c
        BY <1>i, <2>3, <2>4, <2>5, <3>2, UserChannel DEF InWith, CallState
      <4> QED BY <1>i, <2>2, <3>2, <4>1 DEF LockOwner, SyncTypeOK
    <3> QED BY <3>1, <3>2
  <2>6. ASSUME NEW d \in Channels, NEW r \in Sessions, chan_lock'[d] = r
        PROVE  channel'[r] = d /\ InWith(r)'
    <3>1. CASE d = c
      BY <1>i, <2>1, <2>2, <2>3, <2>6, <3>1 DEF SyncTypeOK
    <3>2. CASE d # c
      <4>1. channel[r] = d /\ InWith(r)
        BY <1>i, <2>2, <2>6, <3>2 DEF SyncTypeOK, LockOwner
      <4> QED BY <2>2, <2>3, <4>1
    <3> QED BY <3>1, <3>2
  <2> QED BY <2>5, <2>6 DEF LockOwner
<1>7. ASSUME NEW s \in Sessions, Write(s) PROVE LockOwner'
  <2>1. (InWith(s) <=> InWith(s)') /\ chan_lock' = chan_lock /\ channel'[s] = channel[s]
    BY <1>i, <1>7 DEF Write, InWith, SyncTypeOK, vars
  <2> QED BY <1>o, <1>7, <2>1 DEF SessionStep
<1>8. ASSUME NEW s \in Sessions, SessionStep(s), Return(s) \/ Raise(s),
             step[s] \in {"write", "text", "binary", "lost", "short"}
      PROVE  LockOwner'
  <2>1. channel'[s] = channel[s]
    BY <1>8 DEF Return, TokenSet, Raise, vars
  <2>2. CASE kind[s] = "renew"
    <3>1. ~InWith(s) /\ ~InWith(s)' /\ chan_lock' = chan_lock
      BY <1>i, <1>8, <2>2 DEF Return, Raise, Release, InWith, SyncTypeOK
    <3> QED BY <1>o, <1>8, <2>1, <3>1
  <2>3. CASE kind[s] = "token" /\ Raise(s)
    <3>1. InWith(s) /\ InWith(s)' /\ chan_lock' = chan_lock
      BY <1>i, <1>8, <2>3 DEF Raise, InWith, SyncTypeOK
    <3> QED BY <1>o, <1>8, <2>1, <3>1
  <2>4. CASE kind[s] # "renew" /\ ~(kind[s] = "token" /\ Raise(s))
    <3>1. /\ InWith(s) /\ ~InWith(s)'
          /\ chan_lock' = [chan_lock EXCEPT ![channel[s]] = NoSession]
      BY <1>i, <1>8, <2>4 DEF Return, Raise, Release, InWith, SyncTypeOK
    <3> QED BY <1>8, <3>1, LockGivenBack, OwnAttributes
  <2> QED BY <2>2, <2>3, <2>4
<1>9. ASSUME NEW s \in Sessions, WriteFails(s) PROVE LockOwner'
  BY <1>8, <1>9 DEF WriteFails, SessionStep
<1>10. ASSUME NEW s \in Sessions, Receive(s) PROVE LockOwner'
  <2>1. step[s] \in {"write", "text", "binary", "lost", "short"}
    BY <1>10 DEF Receive, Read, StopInside, ReadMiscounted, ReadEnd, ReadFails,
       ReadDataEnd, ReadTimesOut, SerialTimesOut, ReadRest
  <2>2. CASE Return(s) \/ Raise(s)
    BY <1>8, <1>10, <2>1, <2>2 DEF SessionStep
  <2>3. CASE ~(Return(s) \/ Raise(s))
    <3>1. /\ UNCHANGED <<vars, kind, chan_lock>>
          /\ \E to \in {"text", "binary", "lost", "short", "spinning"} :
               step' = [step EXCEPT ![s] = to]
      BY <1>10, <2>3 DEF Receive, Read, StopInside, ReadMiscounted, ReadEnd,
         ReadFails, ReadDataEnd, ReadTimesOut, SerialTimesOut, ReadRest, wireVars
    <3>2. (InWith(s) <=> InWith(s)') /\ channel'[s] = channel[s]
      BY <1>i, <2>1, <3>1 DEF InWith, SyncTypeOK, vars
    <3> QED BY <1>o, <1>10, <3>1, <3>2 DEF SessionStep
  <2> QED BY <2>2, <2>3
<1>11. ASSUME NEW c \in Channels, Answer(c) \/ Close(c) PROVE LockOwner'
  <2>1. UNCHANGED <<kind, step, chan_lock, channel>>
    BY <1>11 DEF Answer, Close, vars, callVars
  <2> QED BY <2>1, SameLocks DEF InWith
<1>12. ASSUME UNCHANGED syncVars PROVE LockOwner'
  <2>1. UNCHANGED <<kind, step, chan_lock, channel>>
    BY <1>12 DEF syncVars, vars, callVars, wireVars
  <2> QED BY <2>1, SameLocks DEF InWith
<1> QED
  BY <1>1, <1>2, <1>3, <1>4, <1>5, <1>6, <1>7, <1>9, <1>10, <1>11, <1>12 DEF SyncNext

---------------------------------------------------------------------------
(* What is in the streams.                                                 *)

\* A channel whose streams and readers a step leaves alone.
LEMMA Untouched ==
    ASSUME NEW c, Paired(c), to_gw'[c] = to_gw[c], from_gw'[c] = from_gw[c],
           \A r \in Sessions :
               /\ Reads(r, c)' <=> Reads(r, c)
               /\ Reads(r, c) => /\ id'[r] = id[r] /\ step'[r] = step[r]
                                 /\ reply'[r] = reply[r] /\ kind'[r] = kind[r]
    PROVE  Paired(c)'
<1>1. ASSUME NEW r \in Sessions, Reads(r, c)' PROVE Progress(r, c)'
  <2>1. /\ Progress(r, c)
        /\ id'[r] = id[r] /\ step'[r] = step[r]
        /\ reply'[r] = reply[r] /\ kind'[r] = kind[r]
    BY <1>1 DEF Paired
  <2> QED BY <2>1 DEF Progress, Asked, Answered, Begun
<1>2. (\A r \in Sessions : ~Reads(r, c)') => Quiet(c)'
  BY DEF Paired, Quiet
<1>3. \A r, q \in Sessions : Reads(r, c)' /\ Reads(q, c)' => r = q
  BY DEF Paired
<1> QED
  BY <1>1, <1>2, <1>3 DEF Paired

\* A channel that the thread taking a step does not read, before or after.
LEMMA Elsewhere ==
    ASSUME NEW s \in Sessions, Others(s), NEW c, Paired(c),
           to_gw'[c] = to_gw[c], from_gw'[c] = from_gw[c],
           ~Reads(s, c), ~Reads(s, c)'
    PROVE  Paired(c)'
BY Untouched DEF Others, Reads

\* A step that changes the streams of channels it spoils alone, or none.
LEMMA StreamsLeftAlone ==
    ASSUME Streams, NEW s \in Sessions, Others(s), upset' \cup eof' \subseteq open',
           \A c \in Channels \ open' : Quiet(c)',
           \A c \in Channels : Sound(c)' =>
               /\ Sound(c)
               /\ to_gw'[c] = to_gw[c] /\ from_gw'[c] = from_gw[c]
               /\ ~Reads(s, c) /\ ~Reads(s, c)'
    PROVE  Streams'
BY Elsewhere DEF Streams

\* Results are kept, and only taken from channels that were sound.
LEMMA ResultsKept ==
    ASSUME OwnReplyUnlessUpset, NEW s \in Sessions, Others(s),
           \A r \in Sessions \ {s} : Sound(channel[r])' => Sound(channel[r]),
           Sound(channel[s])' => OwnReplyOf(s)'
    PROVE  OwnReplyUnlessUpset'
<1> SUFFICES ASSUME NEW r \in Sessions, Sound(channel[r])' PROVE OwnReplyOf(r)'
  BY DEF OwnReplyUnlessUpset, Sound
<1>1. CASE r = s
  BY <1>1
<1>2. CASE r # s
  <2>1. OwnReplyOf(r)
    BY <1>2 DEF OwnReplyUnlessUpset, Sound
  <2> QED BY <1>2, <2>1 DEF Others, OwnReplyOf
<1> QED
  BY <1>1, <1>2

\* A channel that is written to is quiet, unless it is upset by the writing.
LEMMA WriterIsAlone ==
    ASSUME Calls, LockOwner, NEW s \in Sessions, step[s] = "write",
           NEW c, c = channel[s], Sound(c), Paired(c), ~AmongOthers(s)
    PROVE  Quiet(c) /\ \A r \in Sessions : ~Reads(r, c)
<1>1. ASSUME NEW r \in Sessions, Reads(r, c) PROVE FALSE
  <2>1. r # s
    BY <1>1 DEF Reads
  <2>2. step[r] \in {"text", "binary"}
    BY <1>1 DEF Paired, Progress, Asked, Answered, Begun
  <2>3. kind[r] # "renew" /\ kind[s] # "renew"
    BY <1>1, <2>1, <2>2 DEF AmongOthers, Reads
  <2>4. InWith(r) /\ InWith(s)
    BY <2>2, <2>3 DEF InWith
  <2> QED BY <1>1, <2>1, <2>4 DEF LockOwner, Reads
<1> QED
  BY <1>1 DEF Paired

\* What the next symbol x of a sound channel is to its reader, whose request is
\* q, and what is left after it.
BeginsReply(s, q, x, rest) ==
    \E parts \in Replies :
        /\ step[s] = "text" /\ reply[s] = <<>>
        /\ x = [of |-> q, part |-> parts[1]]
        /\ rest = Tail(Sent(q, parts))
EndsText(s, q, x, rest) ==
    /\ step[s] = "text" /\ rest = <<>>
    /\ x = [of |-> q, part |-> "end"]
    /\ kind[s] = "command" => reply[s] = <<[of |-> q, part |-> "body"]>>
EndsBinary(s, q, x, rest) ==
    /\ step[s] = "binary" /\ rest = <<>>
    /\ x = [of |-> q, part |-> "data"]
    /\ kind[s] = "command" => reply[s] = <<[of |-> q, part |-> "flag"]>>
IsBare(s, x) == step[s] = "binary" /\ x.part = "bare"

\* These are all the symbols there can be.
LEMMA NextSymbol ==
    ASSUME NEW s \in Sessions, NEW c, Paired(c), Reads(s, c),
           from_gw[c] # <<>>,
           NEW q, q = <<s, id[s]>>, NEW x, x = Head(from_gw[c]),
           NEW rest, rest = Tail(from_gw[c])
    PROVE  /\ to_gw[c] = <<>>
           /\ \/ BeginsReply(s, q, x, rest) \/ EndsText(s, q, x, rest)
              \/ EndsBinary(s, q, x, rest) \/ IsBare(s, x)
<1>1. Progress(s, c)
  BY DEF Paired
<1>2. ~Asked(s, c)
  BY DEF Asked
<1>3. ASSUME NEW parts \in Replies, Answered(s, c, parts)
      PROVE  /\ to_gw[c] = <<>> /\ step[s] = "text" /\ reply[s] = <<>>
             /\ x = [of |-> q, part |-> parts[1]]
             /\ rest = Tail(Sent(q, parts))
  <2>1. x = Head(Sent(q, parts))
    BY <1>3 DEF Answered
  <2>2. Head(Sent(q, parts)) = [of |-> q, part |-> parts[1]]
    BY SentParts
  <2> QED BY <1>3, <2>1, <2>2 DEF Answered
<1>4. ASSUME NEW parts \in Replies, Begun(s, c, parts)
      PROVE  /\ to_gw[c] = <<>>
             /\ \/ EndsText(s, q, x, rest) \/ EndsBinary(s, q, x, rest)
                \/ IsBare(s, x)
  <2>1. from_gw[c] = Tail(Sent(q, parts)) /\ to_gw[c] = <<>>
    BY <1>4 DEF Begun
  <2>2. CASE parts = TextReply
    <3>2. PICK e : e = [of |-> q, part |-> "end"]
      OBVIOUS
    <3>3. from_gw[c] = <<e>>
      BY <2>1, <2>2, <3>2, SentParts
    <3>4. x = e /\ rest = <<>>
      BY <3>3, ShortSequences
    <3>1. x = [of |-> q, part |-> "end"] /\ rest = <<>>
      BY <3>2, <3>4
    <3> QED BY <1>4, <2>1, <2>2, <3>1 DEF Begun, EndsText, TextReply
  <2>3. CASE parts = NetBinReply
    <3>2. PICK e : e = [of |-> q, part |-> "data"]
      OBVIOUS
    <3>3. from_gw[c] = <<e>>
      BY <2>1, <2>3, <3>2, SentParts
    <3>4. x = e /\ rest = <<>>
      BY <3>3, ShortSequences
    <3>1. x = [of |-> q, part |-> "data"] /\ rest = <<>>
      BY <3>2, <3>4
    <3>5. parts[1] = "flag"
      BY <2>3 DEF NetBinReply
    <3>6. parts # TextReply
      BY <3>5 DEF TextReply
    <3> QED BY <1>4, <2>1, <3>1, <3>5, <3>6 DEF Begun, EndsBinary
  <2>4. CASE parts = SerialBinReply
    <3>1. x = [of |-> q, part |-> "bare"]
      BY <2>1, <2>4, SentParts
    <3>2. parts[1] = "flag"
      BY <2>4 DEF SerialBinReply
    <3>3. parts # TextReply
      BY <3>2 DEF TextReply
    <3> QED BY <1>4, <2>1, <3>1, <3>3 DEF Begun, IsBare
  <2> QED BY <2>2, <2>3, <2>4 DEF Replies
<1> QED
  BY <1>1, <1>2, <1>3, <1>4 DEF Progress, BeginsReply

\* On a sound channel the loops of _receive find what they look for: no reader is
\* lost, and behind the flag are data.
LEMMA SoundReader ==
    ASSUME Streams, NEW s \in Sessions, NEW c \in Channels, c = channel[s], Sound(c),
           step[s] \in {"text", "binary", "lost", "short"}
    PROVE  /\ step[s] \in {"text", "binary"}
           /\ step[s] = "binary" /\ from_gw[c] # <<>> => AtData(s)
<1>1. Paired(c) /\ Reads(s, c)
  BY DEF Streams, Reads
<1>2. step[s] \in {"text", "binary"}
  BY <1>1 DEF Paired, Progress, Asked, Answered, Begun
<1>3. ASSUME step[s] = "binary", from_gw[c] # <<>> PROVE AtData(s)
  <2>1. PICK q, x, rest : /\ q = <<s, id[s]>>
                          /\ x = Head(from_gw[c]) /\ rest = Tail(from_gw[c])
    OBVIOUS
  <2>2. \/ BeginsReply(s, q, x, rest) \/ EndsText(s, q, x, rest)
        \/ EndsBinary(s, q, x, rest) \/ IsBare(s, x)
    BY <1>1, <1>3, <2>1, NextSymbol
  <2>3. x.part \in {"data", "bare"}
    BY <1>3, <2>2 DEF BeginsReply, EndsText, EndsBinary, IsBare
  <2> QED BY <2>1, <2>3 DEF AtData
<1> QED
  BY <1>2, <1>3

\* Two symbols that are the whole of a reply.
LEMMA WholeReply ==
    ASSUME NEW q
    PROVE  /\ <<[of |-> q, part |-> "body"], [of |-> q, part |-> "end"]>>
                = [i \in 1..2 |-> [of |-> q, part |-> TextReply[i]]]
           /\ <<[of |-> q, part |-> "flag"], [of |-> q, part |-> "data"]>>
                = [i \in 1..2 |-> [of |-> q, part |-> NetBinReply[i]]]
BY DEF TextReply, NetBinReply

\* One symbol read from a sound channel.
LEMMA ReadKeeps ==
    ASSUME Calls, Calls', Streams, OwnReplyUnlessUpset, NEW s \in Sessions, Read(s)
    PROVE  Streams' /\ OwnReplyUnlessUpset'
<1>1. PICK c : c = channel[s]
  OBVIOUS
<1>i. /\ SyncTypeOK /\ TypeOK /\ SyncTypeOK' /\ CallState(s) /\ CallState(s)'
  BY DEF Calls, SyncTypeOK
<1>2. /\ c \in Channels /\ kind[s] # "none"
      /\ step[s] \in {"text", "binary"} /\ Reads(s, c)
  BY <1>1, <1>i, UserChannel DEF Read, CallState, Reads
<1>3. PICK x, rest, q : /\ x = Head(from_gw[c]) /\ rest = Tail(from_gw[c])
                        /\ q = <<s, id[s]>>
  OBVIOUS
<1>4. /\ Len(from_gw[c]) >= 1
      /\ from_gw' = [from_gw EXCEPT ![c] = rest]
      /\ reply' = IF kind[s] = "command" THEN [reply EXCEPT ![s] = @ \o <<x>>]
                  ELSE reply
  <2>1. Take(s, 1) /\ from_gw[c] \in Seq(Symbols) /\ Len(from_gw[c]) \in Nat
    BY <1>i, <1>2, LenProperties DEF Read, SyncTypeOK
  <2>2. Len(from_gw[c]) >= 1
    BY <1>1, <2>1 DEF Take
  <2>3. SubSeq(from_gw[c], 1, 1) = <<x>> /\ SubSeq(from_gw[c], 1 + 1, Len(from_gw[c])) = rest
    BY <1>3, <2>1, <2>2, ReadOne
  <2> QED BY <1>1, <2>1, <2>2, <2>3 DEF Take
<1>5. /\ channel' = channel /\ open' = open /\ eof' = eof /\ id' = id /\ to_gw' = to_gw
      /\ upset' = upset \/ upset' = upset \cup {c}
      /\ Others(s)
  BY <1>1, OwnAttributes
     DEF Read, Return, TokenSet, vars, registryVars, SessionStep, Receive
<1>6. \A d \in Channels : Sound(d)' => Sound(d) /\ Paired(d)
  BY <1>5 DEF Sound, Streams
<1>7. ASSUME NEW d \in Channels, d # c, Sound(d)' PROVE Paired(d)'
  <2>1. ~Reads(s, d) /\ ~Reads(s, d)'
    BY <1>1, <1>5, <1>7 DEF Reads
  <2>2. to_gw'[d] = to_gw[d] /\ from_gw'[d] = from_gw[d]
    BY <1>4, <1>5, <1>7, <1>i DEF SyncTypeOK
  <2> QED BY <1>5, <1>6, <1>7, <2>1, <2>2, Elsewhere
<1>8. ASSUME Sound(c)' PROVE Paired(c)' /\ OwnReplyOf(s)'
  <2>1. Paired(c)
    BY <1>2, <1>6, <1>8
  <2>2. from_gw'[c] = rest /\ \A r \in Sessions \ {s} : ~Reads(r, c) /\ ~Reads(r, c)'
    <3>1. \A r \in Sessions \ {s} : ~Reads(r, c)
      BY <1>2, <2>1 DEF Paired
    <3> QED BY <1>2, <1>4, <1>5, <1>i, <3>1 DEF Reads, Others, SyncTypeOK
  <2>3. ~(step[s] = "binary" /\ x.part = "bare")
    BY <1>1, <1>2, <1>3, <1>8 DEF Read, Sound
  <2>4. ASSUME NEW parts \in Replies, step[s] = "text", reply[s] = <<>>, to_gw[c] = <<>>,
               x = [of |-> q, part |-> parts[1]], rest = Tail(Sent(q, parts))
        PROVE  Paired(c)' /\ OwnReplyOf(s)'
    <3>1. x.part = parts[1] /\ parts[1] \in {"body", "flag"}
          /\ (parts[1] = "body" <=> parts = TextReply)
      BY <2>4, SentParts
    <3>2. /\ step' = [step EXCEPT ![s] = IF x.part = "flag" THEN "binary" ELSE "text"]
          /\ kind' = kind
      BY <1>1, <1>3, <2>4, <3>1 DEF Read
    <3>3. step'[s] = IF parts = TextReply THEN "text" ELSE "binary"
      BY <1>i, <3>1, <3>2 DEF SyncTypeOK
    <3>4. kind'[s] = "command" => reply'[s] = <<x>>
      BY <1>i, <1>4, <2>4, <3>2, ShortSequences DEF SyncTypeOK
    <3>5. Begun(s, c, parts)'
      BY <1>3, <1>5, <2>2, <2>4, <3>3, <3>4 DEF Begun
    <3>6. Reads(s, c)' /\ Progress(s, c)'
      BY <1>2, <1>5, <3>3, <3>5 DEF Reads, Progress
    <3>7. Paired(c)'
      BY <2>2, <3>6 DEF Paired
    <3> QED BY <1>2, <3>2, <3>7 DEF OwnReplyOf
  <2>5. ASSUME rest = <<>>, to_gw[c] = <<>>, Return(s),
               NEW y, kind[s] = "command" => reply[s] = <<y>>,
               \/ /\ y = [of |-> q, part |-> "body"]
                  /\ x = [of |-> q, part |-> "end"]
               \/ /\ y = [of |-> q, part |-> "flag"]
                  /\ x = [of |-> q, part |-> "data"]
        PROVE  Paired(c)' /\ OwnReplyOf(s)'
    <3>1. step'[s] \in {"ready", "acquire"}
      BY <1>i, <2>5 DEF Return, SyncTypeOK
    <3>2. ~Reads(s, c)' /\ Quiet(c)'
      BY <1>5, <2>2, <2>5, <3>1 DEF Reads, Quiet
    <3>3. Paired(c)'
      BY <2>2, <3>2 DEF Paired
    <3>4. CASE kind[s] = "command"
      <4>1. reply'[s] = <<y, x>>
        BY <1>i, <1>4, <2>5, <3>4, ShortSequences DEF SyncTypeOK
      <4>2. \/ <<y, x>> = <<[of |-> q, part |-> "body"], [of |-> q, part |-> "end"]>>
            \/ <<y, x>> = <<[of |-> q, part |-> "flag"], [of |-> q, part |-> "data"]>>
        BY <2>5
      <4>3. \E parts \in {TextReply, NetBinReply, <<"flag", "bare">>} :
              <<y, x>> = [i \in 1..2 |-> [of |-> q, part |-> parts[i]]]
        BY <4>2, WholeReply
      <4>5. q = <<s, id'[s]>>
        BY <1>3, <1>5
      <4>4. OwnReplyOf(s)'
        BY <4>1, <4>3, <4>5 DEF OwnReplyOf
      <4> QED BY <3>3, <4>4
    <3>5. CASE kind[s] = "renew"
      BY <1>i, <2>5, <3>3, <3>5 DEF Return, OwnReplyOf, SyncTypeOK
    <3>6. CASE kind[s] = "token"
      <4>1. reply'[s] = <<>>
        BY <1>i, <1>4, <3>6 DEF CallState
      <4> QED BY <3>3, <4>1 DEF OwnReplyOf
    <3> QED BY <1>2, <1>i, <3>4, <3>5, <3>6 DEF SyncTypeOK
  <2>6. ASSUME step[s] = "binary" \/ x.part \in {"end", "data", "tail"} PROVE Return(s)
    BY <1>1, <1>3, <2>6 DEF Read
  <2>7. /\ to_gw[c] = <<>>
        /\ \/ BeginsReply(s, q, x, rest) \/ EndsText(s, q, x, rest)
           \/ EndsBinary(s, q, x, rest) \/ IsBare(s, x)
    <3>1. from_gw[c] # <<>>
      BY <1>4
    <3> QED BY <1>2, <1>3, <2>1, <3>1, NextSymbol
  <2>8. CASE BeginsReply(s, q, x, rest)
    BY <2>4, <2>7, <2>8 DEF BeginsReply
  <2>9. CASE EndsText(s, q, x, rest)
    BY <2>5, <2>6, <2>7, <2>9 DEF EndsText
  <2>10. CASE EndsBinary(s, q, x, rest)
    BY <2>5, <2>6, <2>7, <2>10 DEF EndsBinary
  <2> QED BY <2>3, <2>7, <2>8, <2>9, <2>10 DEF IsBare
<1>9. Streams'
  <2>1. \A d \in Channels \ open' : Quiet(d)'
    <3> SUFFICES ASSUME NEW d \in Channels \ open PROVE Quiet(d)'
      BY <1>5
    <3>1. Quiet(d) /\ d # c
      BY <1>1, <1>2, UserChannel DEF Streams
    <3> QED BY <1>4, <1>5, <1>i, <3>1 DEF Quiet, SyncTypeOK
  <2>2. upset' \cup eof' \subseteq open'
    BY <1>1, <1>2, <1>5, UserChannel DEF Streams
  <2> QED BY <1>7, <1>8, <2>1, <2>2 DEF Streams
<1>10. OwnReplyUnlessUpset'
  <2>1. Sound(channel[s])' => OwnReplyOf(s)'
    BY <1>1, <1>5, <1>8 DEF Sound
  <2>2. \A r \in Sessions \ {s} : Sound(channel[r])' => Sound(channel[r])
    BY <1>5 DEF Sound
  <2> QED BY <1>5, <2>1, <2>2, ResultsKept
<1> QED
  BY <1>9, <1>10

\* A thread outside _receive that leaves the streams and the sockets alone.
LEMMA OutsideKeeps ==
    ASSUME Streams, OwnReplyUnlessUpset, NEW s \in Sessions, Others(s),
           UNCHANGED <<open, to_gw, from_gw, eof, upset>>,
           step[s] \notin {"text", "binary", "lost", "short"},
           step'[s] \notin {"text", "binary", "lost", "short"},
           OwnReplyOf(s)'
    PROVE  Streams' /\ OwnReplyUnlessUpset'
<1>1. \A c \in Channels : /\ ~Reads(s, c) /\ ~Reads(s, c)'
                          /\ Sound(c)' => Sound(c)
                          /\ c \notin open => Quiet(c)'
  BY DEF Reads, Sound, Streams, Quiet
<1>2. \A r \in Sessions \ {s} : Sound(channel[r])' => Sound(channel[r])
  BY DEF Sound, Others
<1>3. upset' \cup eof' \subseteq open'
  BY DEF Streams
<1>4. Streams'
  BY <1>1, <1>3, StreamsLeftAlone
<1> QED
  BY <1>2, <1>4, ResultsKept

\* A thread that spoils its channel, or finds it spoilt.
LEMMA SpoilingKeeps ==
    ASSUME Streams, OwnReplyUnlessUpset, NEW s \in Sessions, Others(s),
           channel[s] \in open, UNCHANGED <<channel, open, to_gw, eof>>,
           \A c \in Channels : c # channel[s] => from_gw'[c] = from_gw[c],
           upset' = upset \/ upset' = upset \cup {channel[s]},
           ~Sound(channel[s])'
    PROVE  Streams' /\ OwnReplyUnlessUpset'
<1>1. \A c \in Channels : Sound(c)' => /\ Sound(c) /\ c # channel[s]
                                       /\ ~Reads(s, c) /\ ~Reads(s, c)'
  BY DEF Reads, Sound
<1>2. \A r \in Sessions \ {s} : Sound(channel[r])' => Sound(channel[r])
  BY DEF Sound, Others
<1>3. \A c \in Channels \ open' : Quiet(c)'
  BY DEF Streams, Quiet
<1>4. upset' \cup eof' \subseteq open'
  BY DEF Streams
<1>5. Streams'
  BY <1>1, <1>3, <1>4, StreamsLeftAlone
<1> QED
  BY <1>2, <1>5, ResultsKept

\* A new connection, to which nothing refers yet.
LEMMA CreatingKeeps ==
    ASSUME Calls, Streams, OwnReplyUnlessUpset, NEW s \in Sessions, CreateSucceeds(s),
           UNCHANGED <<callVars, wireVars>>
    PROVE  Streams' /\ OwnReplyUnlessUpset'
<1>1. PICK c \in Channels : Unreferenced(c) /\ open' = open \cup {c}
  BY DEF CreateSucceeds, InstallChannel
<1>2. UNCHANGED <<channel, kind, step, id, reply, to_gw, from_gw, eof, upset>>
  BY DEF CreateSucceeds, callVars, wireVars
<1>3. Paired(c)'
  <2>1. Quiet(c)' /\ \A r \in Sessions : ~Reads(r, c)'
    BY <1>1, <1>2 DEF Unreferenced, Streams, Quiet, Reads
  <2> QED BY <2>1 DEF Paired
<1>4. ASSUME NEW d \in Channels, d # c, Sound(d)' PROVE Paired(d)'
  <2>1. Paired(d)
    BY <1>1, <1>2, <1>4 DEF Sound, Streams
  <2> QED BY <1>2, <2>1, Untouched DEF Reads
<1>5. Streams'
  BY <1>1, <1>2, <1>3, <1>4 DEF Streams, Quiet
<1>6. OwnReplyUnlessUpset'
  BY <1>1, <1>2 DEF OwnReplyUnlessUpset, Unreferenced, OwnReplyOf
<1> QED
  BY <1>5, <1>6

\* A session that gives its channel back; a closed connection takes its streams
\* with it.
LEMMA LeavingKeeps ==
    ASSUME Calls, Streams, OwnReplyUnlessUpset, NEW s \in Sessions, Others(s),
           LeaveChannel(s), step[s] \notin {"text", "binary", "lost", "short"},
           open' \subseteq open
    PROVE  Streams' /\ OwnReplyUnlessUpset'
<1>i. SyncTypeOK
  BY DEF Calls
<1>1. \A c \in Channels : Sound(c)' =>
        /\ Sound(c) /\ to_gw'[c] = to_gw[c] /\ from_gw'[c] = from_gw[c]
        /\ ~Reads(s, c) /\ ~Reads(s, c)'
  BY <1>i DEF LeaveChannel, Sound, Reads, SyncTypeOK
<1>2. \A c \in Channels \ open' : Quiet(c)'
  BY DEF LeaveChannel, Quiet
<1>3. upset' \cup eof' \subseteq open'
  BY DEF LeaveChannel
<1>4. \A r \in Sessions \ {s} : Sound(channel[r])' => Sound(channel[r])
  BY DEF LeaveChannel, Sound, Others
<1>5. OwnReplyOf(s)'
  BY <1>i DEF LeaveChannel, OwnReplyOf, SyncTypeOK
<1> QED
  BY <1>1, <1>2, <1>3, <1>4, <1>5, StreamsLeftAlone, ResultsKept

\* A request on an empty stream, or on a channel that it upsets.
LEMMA WriteKeeps ==
    ASSUME Calls, LockOwner, Streams, OwnReplyUnlessUpset, NEW s \in Sessions, Write(s)
    PROVE  Streams' /\ OwnReplyUnlessUpset'
<1>i. SyncTypeOK /\ CallState(s)
  BY DEF Calls
<1>1. PICK c : c = channel[s]
  OBVIOUS
<1>2. /\ c \in Channels /\ c \in open /\ kind[s] # "none" /\ step[s] = "write"
      /\ step'[s] = "text" /\ reply'[s] = <<>> /\ id'[s] = id[s] + 1
      /\ UNCHANGED <<channel, open, kind, from_gw, eof>>
  BY <1>1, <1>i, UserChannel DEF Write, CallState, SyncTypeOK, vars, registryVars
<1>3. Others(s)
  BY OwnAttributes DEF SessionStep
<1>4. /\ to_gw' = IF c \in eof THEN to_gw
                  ELSE [to_gw EXCEPT ![c] = Append(@, <<s, id[s] + 1>>)]
      /\ upset' = IF AmongOthers(s) THEN upset \cup {c} ELSE upset
  BY <1>1 DEF Write
<1>5. \A d \in Channels : Sound(d)' => Sound(d) /\ Paired(d)
  BY <1>2, <1>4 DEF Sound, Streams
<1>6. ASSUME NEW d \in Channels, d # c, Sound(d)' PROVE Paired(d)'
  <2>1. ~Reads(s, d) /\ ~Reads(s, d)'
    BY <1>1, <1>2, <1>6 DEF Reads
  <2>2. to_gw'[d] = to_gw[d] /\ from_gw'[d] = from_gw[d]
    BY <1>2, <1>4, <1>6, <1>i DEF SyncTypeOK
  <2> QED BY <1>3, <1>5, <1>6, <2>1, <2>2, Elsewhere
<1>7. ASSUME Sound(c)' PROVE Paired(c)'
  <2>1. Sound(c) /\ Paired(c) /\ ~AmongOthers(s) /\ c \notin eof
    BY <1>2, <1>4, <1>5, <1>7 DEF Sound
  <2>2. Quiet(c) /\ \A r \in Sessions : ~Reads(r, c)
    BY <1>1, <1>2, <2>1, WriterIsAlone
  <2>3. Append(<<>>, <<s, id[s] + 1>>) = <<<<s, id[s] + 1>>>>
    OBVIOUS
  <2>4. to_gw'[c] = <<<<s, id'[s]>>>> /\ from_gw'[c] = <<>>
    BY <1>2, <1>4, <1>i, <2>1, <2>2, <2>3 DEF Quiet, SyncTypeOK
  <2>5. Asked(s, c)' /\ Reads(s, c)'
    BY <1>1, <1>2, <2>4 DEF Asked, Reads
  <2>6. \A r \in Sessions \ {s} : ~Reads(r, c)'
    BY <1>3, <2>2 DEF Others, Reads
  <2> QED BY <2>5, <2>6 DEF Paired, Progress
<1>8. \A d \in Channels \ open' : Quiet(d)'
  BY <1>2, <1>4, <1>i DEF Streams, Quiet, SyncTypeOK
<1>9. upset' \cup eof' \subseteq open'
  BY <1>2, <1>4 DEF Streams
<1>10. Streams'
  BY <1>6, <1>7, <1>8, <1>9 DEF Streams
<1>11. OwnReplyOf(s)'
  BY <1>2 DEF OwnReplyOf
<1>12. \A r \in Sessions \ {s} : Sound(channel[r])' => Sound(channel[r])
  BY <1>2, <1>4 DEF Sound
<1> QED
  BY <1>3, <1>10, <1>11, <1>12, ResultsKept

\* The gateway answers what was asked, or closes the connection.
LEMMA GatewayKeeps ==
    ASSUME Calls, Streams, OwnReplyUnlessUpset, NEW c \in Channels,
           Answer(c) \/ Close(c)
    PROVE  Streams' /\ OwnReplyUnlessUpset'
<1>i. SyncTypeOK
  BY DEF Calls
<1>1. /\ UNCHANGED <<channel, open, kind, step, id, reply, upset>>
      /\ c \in open
      /\ eof' = eof \/ (eof' = eof \cup {c} /\ c \in eof')
      /\ \A d \in Channels : d # c => to_gw'[d] = to_gw[d] /\ from_gw'[d] = from_gw[d]
  <2>1. CASE Answer(c)
    <3>1. c \in open
      BY <2>1 DEF Answer, Streams, Quiet
    <3> QED BY <1>i, <2>1, <3>1 DEF Answer, vars, registryVars, callVars, SyncTypeOK
  <2>2. CASE Close(c)
    BY <1>i, <2>2 DEF Close, vars, registryVars, callVars, SyncTypeOK
  <2> QED BY <2>1, <2>2
<1>2. \A d : Sound(d)' => Sound(d)
  BY <1>1 DEF Sound
<1>3. ASSUME NEW d \in Channels, d # c, Sound(d)' PROVE Paired(d)'
  <2>1. Paired(d)
    BY <1>2, <1>3 DEF Streams
  <2> QED BY <1>1, <1>3, <2>1, Untouched DEF Reads
<1>4. ASSUME Sound(c)' PROVE Paired(c)'
  <2>1. Answer(c) /\ Paired(c)
    BY <1>2, <1>4 DEF Close, Sound, Streams
  <2>2. to_gw[c] # <<>>
    BY <2>1 DEF Answer
  <2>3. PICK s \in Sessions : Reads(s, c)
    BY <2>1, <2>2 DEF Paired, Quiet
  <2>4. /\ to_gw[c] = <<<<s, id[s]>>>> /\ from_gw[c] = <<>>
        /\ step[s] = "text" /\ reply[s] = <<>>
    BY <2>1, <2>2, <2>3 DEF Paired, Progress, Asked, Answered, Begun
  <2>5. PICK q : q = <<s, id[s]>>
    OBVIOUS
  <2>6. Head(to_gw[c]) = q /\ Tail(to_gw[c]) = <<>>
    BY <2>4, <2>5, ShortSequences
  <2>7. PICK parts \in Replies :
          from_gw' = [from_gw EXCEPT ![c] = @ \o Sent(Head(to_gw[c]), parts)]
    BY <2>1 DEF Answer, Sent, Replies
  <2>8. q \in Requests
    BY <1>i, <2>2, <2>6, HeadTailProperties DEF SyncTypeOK
  <2>9. <<>> \o Sent(q, parts) = Sent(q, parts)
    BY <2>8, SentType, ConcatEmptySeq
  <2>10. to_gw'[c] = <<>> /\ from_gw'[c] = Sent(q, parts)
    BY <1>i, <2>1, <2>4, <2>6, <2>7, <2>9 DEF Answer, SyncTypeOK
  <2>11. Answered(s, c, parts)'
    BY <1>1, <2>4, <2>5, <2>10 DEF Answered
  <2>12. Reads(s, c)' /\ Progress(s, c)'
    BY <1>1, <2>3, <2>11 DEF Reads, Progress
  <2>13. \A r \in Sessions : Reads(r, c)' => r = s
    BY <1>1, <2>1, <2>3 DEF Paired, Reads
  <2> QED BY <2>12, <2>13 DEF Paired
<1>5. Streams'
  BY <1>1, <1>3, <1>4 DEF Streams, Quiet
<1>6. OwnReplyUnlessUpset'
  BY <1>1 DEF OwnReplyUnlessUpset, OwnReplyOf
<1> QED
  BY <1>5, <1>6

\* No step mixes up the replies of a channel that is not upset.
LEMMA StepStreams ==
    ASSUME Calls, Calls', LockOwner, Streams, OwnReplyUnlessUpset, [SyncNext]_syncVars
    PROVE  Streams' /\ OwnReplyUnlessUpset'
<1>i. /\ SyncTypeOK /\ TypeOK /\ SyncTypeOK'
      /\ \A s \in Sessions : CallState(s) /\ CallState(s)'
  BY DEF Calls, SyncTypeOK
<1>1. ASSUME NEW s \in Sessions, RegistryStep(s)
      PROVE  Streams' /\ OwnReplyUnlessUpset'
  <2>1. CASE CreateSucceeds(s)
    BY <1>1, <2>1, CreatingKeeps DEF RegistryStep
  <2>2. CASE ~CreateSucceeds(s)
    <3>1. /\ UNCHANGED <<open, kind, step, reply, to_gw, from_gw, eof, upset>>
          /\ pc[s] \notin {"token", "holding"}
      BY <1>1, <2>2 DEF RegistryStep, callVars, wireVars, Connect, AddChannel,
         AddClient, ShareChannel, BeginCreate, CreateFails, Drop, registryVars
    <3>2. step[s] = "ready" /\ reply[s] = <<>>
      BY <1>i, <3>1 DEF CallState
    <3>3. OwnReplyOf(s)'
      BY <3>1, <3>2 DEF OwnReplyOf
    <3> QED BY <1>1, <3>1, <3>2, <3>3, OutsideKeeps, OwnAttributes DEF SessionStep
  <2> QED BY <2>1, <2>2
<1>2. ASSUME NEW s \in Sessions, EnterToken(s) \/ ConnectSerial(s)
      PROVE  Streams' /\ OwnReplyUnlessUpset'
  <2>1. UNCHANGED <<open, reply, to_gw, from_gw, eof, upset>>
    BY <1>2 DEF EnterToken, ConnectSerial, ReadBack, TokenSet, callVars, wireVars,
       registryVars
  <2>2. reply[s] = <<>>
    BY <1>i, <1>2 DEF EnterToken, ConnectSerial, ReadBack, TokenSet, CallState
  <2>3. OwnReplyOf(s)'
    BY <2>1, <2>2 DEF OwnReplyOf
  <2>4. /\ step[s] \notin {"text", "binary", "lost", "short"}
        /\ step'[s] \notin {"text", "binary", "lost", "short"}
    BY <1>i, <1>2 DEF EnterToken, ConnectSerial, ReadBack, TokenSet, CallState,
       callVars, SyncTypeOK, TypeOK
  <2> QED BY <1>2, <2>1, <2>3, <2>4, OutsideKeeps, OwnAttributes DEF SessionStep
<1>3. ASSUME NEW s \in Sessions, SessionDisconnect(s) \/ SetTokenFailed(s)
      PROVE  Streams' /\ OwnReplyUnlessUpset'
  <2>1. LeaveChannel(s) /\ step[s] \notin {"text", "binary", "lost", "short"}
    BY <1>3 DEF SessionDisconnect, SetTokenFailed
  <2>2. open' \subseteq open
    BY <1>3 DEF SessionDisconnect, SetTokenFailed, Disconnect, TokenFails, FreeChannel,
       RemoveTarget, registryVars
  <2> QED BY <1>3, <2>1, <2>2, LeavingKeeps, OwnAttributes DEF SessionStep
<1>4. ASSUME NEW s \in Sessions,
             \/ StartCommand(s) \/ StartRenewal(s) \/ AcquireChannel(s)
             \/ SkipToken(s) \/ WriteFails(s)
      PROVE  Streams' /\ OwnReplyUnlessUpset'
  <2>1. UNCHANGED <<open, to_gw, from_gw, eof, upset>>
    BY <1>4 DEF StartCommand, StartRenewal, AcquireChannel, SkipToken, TokenSet,
       WriteFails, Raise, vars, registryVars, wireVars
  <2>2. /\ step[s] \notin {"text", "binary", "lost", "short"}
        /\ step'[s] \notin {"text", "binary", "lost", "short"}
    BY <1>i, <1>4 DEF StartCommand, StartRenewal, AcquireChannel, SkipToken,
       WriteFails, Raise, SyncTypeOK
  <2>3. kind'[s] # "none" \/ reply'[s] = <<>>
    <3>1. CASE StartCommand(s) \/ StartRenewal(s)
      BY <1>i, <3>1 DEF StartCommand, StartRenewal, SyncTypeOK
    <3>2. CASE AcquireChannel(s)
      BY <1>i, <3>2 DEF AcquireChannel, CallState
    <3>3. CASE SkipToken(s)
      BY <1>i, <3>3 DEF SkipToken, TokenSet, CallState
    <3>4. CASE WriteFails(s)
      BY <1>i, <3>4 DEF WriteFails, Raise, SyncTypeOK
    <3> QED BY <1>4, <3>1, <3>2, <3>3, <3>4
  <2>4. OwnReplyOf(s)'
    BY <2>3 DEF OwnReplyOf
  <2> QED BY <1>4, <2>1, <2>2, <2>4, OutsideKeeps, OwnAttributes DEF SessionStep
<1>5. ASSUME NEW s \in Sessions,
             \/ StopInside(s) \/ ReadMiscounted(s)
             \/ ReadEnd(s) \/ ReadFails(s) \/ ReadDataEnd(s)
             \/ ReadTimesOut(s) \/ SerialTimesOut(s) \/ ReadRest(s)
      PROVE  Streams' /\ OwnReplyUnlessUpset'
  <2>1. PICK c : c = channel[s]
    OBVIOUS
  <2>2. step[s] # "ready" /\ kind[s] # "none" /\ c \in Channels /\ c \in open
    BY <1>i, <1>5, <2>1, UserChannel DEF StopInside, ReadMiscounted, ReadEnd,
       ReadFails, ReadDataEnd, ReadTimesOut, SerialTimesOut, ReadRest, CallState
  <2>3. /\ UNCHANGED <<channel, open, to_gw, eof>>
        /\ upset' = upset \/ upset' = upset \cup {c}
        /\ \A d \in Channels : d # c => from_gw'[d] = from_gw[d]
    BY <1>i, <1>5, <2>1 DEF StopInside, ReadMiscounted, ReadEnd, ReadFails,
       ReadDataEnd, ReadTimesOut, SerialTimesOut, ReadRest, Return, Raise,
       TokenSet, Take, vars, registryVars, wireVars, SyncTypeOK
  <2>4. ~Sound(c)'
    <3>1. CASE ReadEnd(s) \/ ReadFails(s) \/ ReadDataEnd(s)
      BY <2>1, <2>3, <3>1 DEF ReadEnd, ReadFails, ReadDataEnd, Sound
    <3>2. CASE ReadTimesOut(s) \/ SerialTimesOut(s) \/ StopInside(s)
      BY <2>1, <3>2 DEF ReadTimesOut, SerialTimesOut, StopInside, Sound
    <3>3. CASE ReadRest(s)
      <4>1. Reads(s, c) /\ step[s] = "short"
        BY <2>1, <3>3 DEF ReadRest, Reads
      <4>2. ~Sound(c)
        BY <2>2, <4>1 DEF Streams, Paired, Progress, Asked, Answered, Begun
      <4> QED BY <2>3, <3>3, <4>2 DEF ReadRest, Sound
    <3>4. CASE ReadMiscounted(s)
      <4>1. ~Sound(c)
        BY <2>1, <2>2, <3>4, SoundReader DEF ReadMiscounted
      <4> QED BY <2>3, <3>4, <4>1 DEF ReadMiscounted, Sound
    <3> QED BY <1>5, <3>1, <3>2, <3>3, <3>4
  <2> QED
    BY <1>5, <2>1, <2>2, <2>3, <2>4, SpoilingKeeps, OwnAttributes DEF SessionStep, Receive
<1>6. ASSUME NEW s \in Sessions, Receive(s) PROVE Streams' /\ OwnReplyUnlessUpset'
  BY <1>5, <1>6, ReadKeeps DEF Receive
<1>7. ASSUME UNCHANGED syncVars PROVE Streams' /\ OwnReplyUnlessUpset'
  <2>1. UNCHANGED <<channel, open, kind, step, id, reply, to_gw, from_gw, eof, upset>>
    BY <1>7 DEF syncVars, vars, registryVars, callVars, wireVars
  <2>2. ASSUME NEW c \in Channels, Sound(c)' PROVE Paired(c)'
    <3>1. Paired(c)
      BY <2>1, <2>2 DEF Streams, Sound
    <3> QED BY <2>1, <3>1, Untouched DEF Reads
  <2>3. Streams'
    BY <2>1, <2>2 DEF Streams, Quiet
  <2> QED BY <2>1, <2>3 DEF OwnReplyUnlessUpset, OwnReplyOf
<1> QED
  BY <1>1, <1>2, <1>3, <1>4, <1>6, <1>7, WriteKeeps, GatewayKeeps DEF SyncNext

---------------------------------------------------------------------------
\* At first nobody is connected, and nothing is on the way.
LEMMA SyncStart == SyncInit => SyncInv
<1> SUFFICES ASSUME SyncInit PROVE SyncInv
  OBVIOUS
<1>1. HInv /\ TypeOK
  BY InitHolders DEF SyncInit, HInv, IInv, Registry, RegistryType, ThreadType, TypeOK
<1>2. SyncTypeOK
  <2>1. \A s \in Sessions : MaxRequests[s] \in Nat
    BY MaxRequestsAssumption
  <2>2. /\ kind \in [Sessions -> {"none", "token", "renew", "command"}]
        /\ step \in [Sessions -> Steps]
        /\ id \in [Sessions -> Nat] /\ \A s \in Sessions : id[s] = 0
    BY DEF SyncInit, Steps
  <2>3. /\ reply \in [Sessions -> Seq(Symbols)]
        /\ to_gw \in [Channels -> Seq(Requests)]
        /\ from_gw \in [Channels -> Seq(Symbols)]
    BY DEF SyncInit
  <2> QED BY <1>1, <2>1, <2>2, <2>3 DEF SyncInit, SyncTypeOK
<1>3. \A s \in Sessions : CallState(s)
  BY DEF SyncInit, Init, CallState
<1>4. LockOwner
  BY NoneAssumption DEF SyncInit, LockOwner, InWith
<1>5. Streams
  BY DEF SyncInit, Init, Streams, Quiet, Sound
<1>6. OwnReplyUnlessUpset
  BY DEF SyncInit, OwnReplyUnlessUpset, OwnReplyOf
<1> QED
  BY <1>1, <1>2, <1>3, <1>4, <1>5, <1>6 DEF SyncInv, Calls

\* The three layers together are inductive.
LEMMA SyncStep == SyncInv /\ [SyncNext]_syncVars => SyncInv'
BY StepCalls, StepLocks, StepStreams DEF SyncInv

\* So they hold throughout.
LEMMA SyncInvariance == SyncSpec => []SyncInv
BY SyncStart, SyncStep, PTL DEF SyncSpec

\* Every variable of the synchronous protocol keeps its type, and no session
\* writes more than its requests.
THEOREM SyncTypeCorrect == SyncSpec => []SyncTypeOK
<1>1. SyncInv => SyncTypeOK
  BY DEF SyncInv, Calls
<1> QED
  BY <1>1, SyncInvariance, PTL

\* The thread between its write and the end of its reply is the owner of the
\* channel's lock, renewals excepted, and an owner is such a thread: no path
\* out of the "with", exceptions and connect's clean-up included, leaves the
\* lock taken or gives back another thread's (sync_fgc 28-41, 117-132).
THEOREM LockIsUsers == SyncSpec => []ChannelLockIsUser
<1>1. SyncInv => ChannelLockIsUser
  <2>2. ASSUME SyncInv, NEW s \in Sessions
        PROVE  InWith(s) <=> step[s] \notin {"ready", "acquire"} /\ kind[s] # "renew"
    <3>1. step[s] \in Steps
      BY <2>2 DEF SyncInv, Calls, SyncTypeOK
    <3> QED BY <3>1 DEF InWith, Steps
  <2> SUFFICES ASSUME SyncInv, NEW s \in Sessions
               PROVE  InWith(s) <=> \E c \in Channels : chan_lock[c] = s /\ channel[s] = c
    BY <2>2 DEF ChannelLockIsUser
  <2>1. ASSUME InWith(s) PROVE channel[s] \in Channels
    BY <2>1, UserChannel DEF SyncInv, Calls, CallState, InWith
  <2> QED BY <2>1 DEF SyncInv, LockOwner
<1> QED
  BY <1>1, SyncInvariance, PTL

\* For any sessions, gateways and serial ports, and any number of requests: a
\* command on a channel that no time-out, uncounted tail, closing or unlocked
\* renewal has touched, and no text with an end or the flag in its value, returns
\* its own reply, the whole of it.
THEOREM RepliesAreOwn == SyncSpec => []OwnReplyUnlessUpset
<1>1. SyncInv => OwnReplyUnlessUpset
  BY DEF SyncInv
<1> QED
  BY <1>1, SyncInvariance, PTL

\* On such a channel nothing is left over when nobody uses it.
THEOREM NothingIsLeftOver == SyncSpec => []StreamIsEmpty
<1>1. SyncInv => StreamIsEmpty
  <2> SUFFICES ASSUME SyncInv, NEW c \in open \ (upset \cup eof), ~BeingRead(c)
               PROVE  to_gw[c] = <<>> /\ from_gw[c] = <<>>
    BY DEF StreamIsEmpty
  <2>1. c \in Channels /\ Sound(c) /\ \A s \in Sessions : ~Reads(s, c)
    BY DEF SyncInv, Calls, SyncTypeOK, TypeOK, Sound, BeingRead, Reads
  <2> QED BY <2>1 DEF SyncInv, Streams, Paired, Quiet
<1> QED
  BY <1>1, SyncInvariance, PTL

---------------------------------------------------------------------------
(* Calls and the registry together.                                        *)

\* A call has the channel its target is mapped to, open from its first step to its
\* last, and two calls have one channel only if they are to one gateway.
CallsHaveTheirLine ==
    /\ \A s \in Sessions : kind[s] # "none" =>
         channel[s] \in open /\ channel[s] = gw_channel[target[s]]
    /\ \A r, s \in Sessions :
         kind[r] # "none" /\ kind[s] # "none" /\ channel[r] = channel[s] =>
           target[r] = target[s] \/ ShareLine(target[r], target[s])

\* No disconnect, failed token or other connect of the process takes the channel
\* from a call, or gives it another gateway's (channel_manager 225-256, sync_fgc
\* 33-41).
THEOREM CallsKeepTheirLine == SyncSpec => []CallsHaveTheirLine
<1>1. ASSUME SyncInv PROVE CallsHaveTheirLine
  <2>1. ASSUME NEW s \in Sessions, kind[s] # "none"
        PROVE  /\ channel[s] \in open /\ channel[s] = gw_channel[target[s]]
               /\ target[s] \in Targets /\ Registered(target[s])
    <3>1. pc[s] \in {"token", "holding"} /\ channel[s] \in Channels
      BY <1>1, <2>1, UserChannel DEF SyncInv
    <3>3. target[s] \in Targets
      BY <1>1 DEF SyncInv, Calls, SyncTypeOK, TypeOK
    <3>2. channel[s] \in open /\ channel[s] = gw_channel[target[s]]
      BY <1>1, <3>1, <3>3, EveryTargetOnce
         DEF SyncInv, Calls, HInv, HolderChannelIsOpen
    <3> QED
      BY <3>1, <3>2, <3>3, NoneAssumption DEF Registered
  <2>2. \A j, k \in Targets :
          Registered(j) /\ Registered(k) /\ gw_channel[j] = gw_channel[k] =>
            j = k \/ ShareLine(j, k)
    BY <1>1 DEF SyncInv, Calls, HInv, IInv, Registry, SameChannelIffSameGateway
  <2> QED
    BY <2>1, <2>2 DEF CallsHaveTheirLine
<1> QED
  BY <1>1, SyncInvariance, PTL

\* Threads wait for the registry's lock with a channel's lock held (a connect whose
\* token failed), never the other way round: who has the registry's lock has no
\* channel's and waits for none.
LocksAreOrdered ==
    \A s \in Sessions : lock = s =>
        /\ step[s] = "ready" /\ kind[s] = "none"
        /\ \A c \in Channels : chan_lock[c] # s

\* And with a channel's lock a thread waits for no other channel's.
OneLockEach ==
    \A s \in Sessions, c, d \in Channels :
        chan_lock[c] = s => step[s] # "acquire" /\ (chan_lock[d] = s => c = d)

\* So there is no circle of threads that wait for each other's locks (sync_fgc 36-41
\* calls free_channel inside its "with").
THEOREM NoCircularWait == SyncSpec => [](LocksAreOrdered /\ OneLockEach)
<1>1. ASSUME SyncInv PROVE LocksAreOrdered /\ OneLockEach
  <2>1. ASSUME NEW s \in Sessions, lock = s
        PROVE  step[s] = "ready" /\ kind[s] = "none"
    <3>1. pc[s] = "creating"
      BY <1>1, <2>1 DEF SyncInv, Calls, HInv, IInv, LockIsCreator
    <3> QED
      BY <1>1, <3>1 DEF SyncInv, Calls, CallState
  <2>2. \A c \in Channels, s \in Sessions :
          chan_lock[c] = s => channel[s] = c /\ step[s] # "ready" /\ step[s] # "acquire"
    BY <1>1 DEF SyncInv, LockOwner, InWith
  <2> QED
    BY <2>1, <2>2 DEF LocksAreOrdered, OneLockEach
<1> QED
  BY <1>1, SyncInvariance, PTL

\* The sessions' protocol lends and returns its channels as ChannelLeases says.
THEOREM SessionsImplementLeases == SyncSpec => ImplementsLeases
BY SyncImplementsRegistry, RegistryImplementsLeases, PTL

---------------------------------------------------------------------------
(* Calls end.  As long as nothing spoils its channel a call goes through a *)
(* few stages, so that fairness alone ends it: the request is sent, the    *)
(* gateway has it, the reply is there, its first symbol was read.  On any  *)
(* channel what is left to read grows less with each read (Remaining).     *)

Reader(s) == step[s] \in {"text", "binary", "lost"}
Spoilt(s) == channel[s] \in upset \cup eof
Done(s) == ~InCall(s) \/ Spoilt(s)

\* The stages of a reader.
GatewayHasIt(s) == Reader(s) /\ to_gw[channel[s]] # <<>>
ReplyIsThere(s) ==
    /\ Reader(s)
    /\ to_gw[channel[s]] = <<>> /\ from_gw[channel[s]] # <<>>
    /\ Head(from_gw[channel[s]]).part \in {"body", "flag"}
RestIsThere(s) ==
    /\ Reader(s)
    /\ to_gw[channel[s]] = <<>> /\ from_gw[channel[s]] # <<>>
    /\ Head(from_gw[channel[s]]).part \in {"end", "data", "bare"}

\* What the loops that do not end leave behind, and that the bound on requests
\* never stops a call that has begun.
Cut(s) ==
    /\ step[s] = "spinning" => channel[s] \in eof
    /\ step[s] = "short" => channel[s] \in upset
Room(s) ==
    /\ pc[s] \notin {"token", "holding"} => id[s] = 0
    /\ kind[s] = "token" /\ step[s] \in {"acquire", "write"} => id[s] = 0
    /\ kind[s] = "command" /\ step[s] \in {"acquire", "write"} => id[s] < MaxRequests[s]
    /\ kind[s] = "renew" => id[s] < MaxRequests[s]
    /\ kind[s] = "renew" /\ step[s] = "write" => id[s] + 1 < MaxRequests[s]
EndInv == SyncInv /\ \A s \in Sessions : Cut(s) /\ Room(s)

\* A thread steps through its own connect only.
LEMMA OwnPc ==
    ASSUME SyncInv, NEW s \in Sessions, SessionStep(s), NEW r \in Sessions, r # s
    PROVE  pc'[r] = pc[r]
<1>i. pc \in [Sessions -> PCs]
  BY DEF SyncInv, Calls, SyncTypeOK, TypeOK
<1>1. CASE RegistryStep(s)
  BY <1>i, <1>1 DEF RegistryStep, Connect, AddChannel, BeginCreate, CreateSucceeds,
     CreateFails, Drop
<1>2. CASE EnterToken(s) \/ ConnectSerial(s) \/ SessionDisconnect(s) \/ SetTokenFailed(s)
  BY <1>i, <1>2 DEF EnterToken, ConnectSerial, SessionDisconnect, SetTokenFailed,
     ReadBack, TokenSet, Disconnect, TokenFails
<1>3. CASE StartCommand(s) \/ StartRenewal(s) \/ AcquireChannel(s) \/ SkipToken(s)
  BY <1>i, <1>3 DEF StartCommand, StartRenewal, AcquireChannel, SkipToken, TokenSet, vars
<1>4. CASE Write(s) \/ WriteFails(s)
  BY <1>4 DEF Write, WriteFails, Raise, vars
<1>5. ASSUME Return(s) PROVE pc'[r] = pc[r]
  BY <1>i, <1>5 DEF Return, TokenSet, vars
<1>6. CASE Receive(s)
  <2>1. Return(s) \/ UNCHANGED vars
    BY <1>6 DEF Receive, Read, StopInside, ReadMiscounted, ReadEnd, ReadFails,
       ReadDataEnd, ReadTimesOut, SerialTimesOut, ReadRest, Raise
  <2> QED
    BY <1>5, <2>1 DEF vars
<1> QED
  BY <1>1, <1>2, <1>3, <1>4, <1>6 DEF SessionStep

\* What a step of another thread, or of a gateway, leaves of a call.
LEMMA CallUntouched ==
    ASSUME SyncInv, SyncInv', [SyncNext]_syncVars, NEW s \in Sessions,
           \/ \E r \in Sessions \ {s} : SessionStep(r)
           \/ \E c \in Channels : Answer(c) \/ Close(c)
           \/ UNCHANGED syncVars
    PROVE  /\ pc'[s] = pc[s] /\ channel'[s] = channel[s] /\ kind'[s] = kind[s]
           /\ step'[s] = step[s] /\ id'[s] = id[s] /\ reply'[s] = reply[s]
           /\ kind[s] # "none" /\ channel[s] \in eof => channel[s] \in eof'
           /\ kind[s] # "none" /\ channel[s] \in upset => channel[s] \in upset'
<1>1. /\ pc'[s] = pc[s] /\ channel'[s] = channel[s] /\ kind'[s] = kind[s]
      /\ step'[s] = step[s] /\ id'[s] = id[s] /\ reply'[s] = reply[s]
  <2>1. ASSUME NEW r \in Sessions \ {s}, SessionStep(r)
        PROVE  /\ pc'[s] = pc[s] /\ channel'[s] = channel[s] /\ kind'[s] = kind[s]
               /\ step'[s] = step[s] /\ id'[s] = id[s] /\ reply'[s] = reply[s]
    BY <2>1, OwnPc, OwnAttributes DEF SyncInv, Others
  <2>2. ASSUME NEW c \in Channels, Answer(c) \/ Close(c)
        PROVE  UNCHANGED <<vars, callVars>>
    BY <2>2 DEF Answer, Close
  <2> QED
    BY <2>1, <2>2 DEF vars, callVars, syncVars
<1>2. eof \cap open' \subseteq eof' /\ upset \cap open' \subseteq upset'
  <2>1. ASSUME NEW r \in Sessions, SessionStep(r)
        PROVE  eof \cap open' \subseteq eof' /\ upset \cap open' \subseteq upset'
    BY <2>1 DEF SessionStep, RegistryStep, EnterToken, ConnectSerial,
       SessionDisconnect, SetTokenFailed, LeaveChannel, StartCommand, StartRenewal,
       AcquireChannel, SkipToken, Write, WriteFails, Receive, Read, StopInside,
       ReadMiscounted, ReadEnd, ReadFails, ReadDataEnd, ReadTimesOut,
       SerialTimesOut, ReadRest, wireVars
  <2>2. ASSUME NEW c \in Channels, Answer(c) \/ Close(c)
        PROVE  eof \subseteq eof' /\ upset \subseteq upset'
    BY <2>2 DEF Answer, Close
  <2> QED
    BY <2>1, <2>2 DEF syncVars, wireVars
<1>3. kind[s] # "none" => channel[s] \in open'
  <2> SUFFICES ASSUME kind'[s] # "none" PROVE channel'[s] \in open'
    BY <1>1
  <2>1. Calls'
    BY DEF SyncInv
  <2>2. pc'[s] \in {"token", "holding"}
    BY <2>1 DEF Calls, CallState
  <2>3. target'[s] \in Once
    BY <2>1, EveryTargetOnce DEF Calls, SyncTypeOK, TypeOK, Once
  <2> QED
    BY <2>1, <2>2, <2>3 DEF Calls, HInv, HolderChannelIsOpen
<1> QED
  BY <1>1, <1>2, <1>3

\* At first nobody calls.
LEMMA EndStart == SyncInit => EndInv
<1>1. SyncInit => \A s \in Sessions : Cut(s) /\ Room(s)
  BY DEF SyncInit, Init, Cut, Room
<1> QED
  BY <1>1, SyncStart DEF EndInv

\* Who is cut off stays so, and there is room for what was begun.
LEMMA EndStep == EndInv /\ [SyncNext]_syncVars => EndInv'
<1> SUFFICES ASSUME EndInv, [SyncNext]_syncVars, NEW s \in Sessions
             PROVE  Cut(s)' /\ Room(s)'
  BY SyncStep DEF EndInv
<1>1. SyncInv /\ SyncInv' /\ Cut(s) /\ Room(s)
  BY SyncStep DEF EndInv
<1>i. /\ SyncTypeOK /\ TypeOK /\ CallState(s) /\ SyncTypeOK'
      /\ id[s] \in Nat /\ MaxRequests[s] \in Nat
  BY <1>1, MaxRequestsAssumption DEF SyncInv, Calls, SyncTypeOK
<1>2. CASE \/ \E r \in Sessions \ {s} : SessionStep(r)
           \/ \E c \in Channels : Answer(c) \/ Close(c)
           \/ UNCHANGED syncVars
  <2>1. /\ pc'[s] = pc[s] /\ channel'[s] = channel[s] /\ kind'[s] = kind[s]
        /\ step'[s] = step[s] /\ id'[s] = id[s]
        /\ kind[s] # "none" /\ channel[s] \in eof => channel[s] \in eof'
        /\ kind[s] # "none" /\ channel[s] \in upset => channel[s] \in upset'
    BY <1>1, <1>2, CallUntouched
  <2>2. step[s] \in {"spinning", "short"} => kind[s] # "none"
    BY <1>i DEF CallState
  <2> QED
    BY <1>1, <2>1, <2>2 DEF Cut, Room
<1>3. CASE RegistryStep(s) \/ EnterToken(s) \/ ConnectSerial(s)
  <2>1. id' = id /\ eof' = eof /\ upset' = upset
    BY <1>3 DEF RegistryStep, EnterToken, ConnectSerial, callVars, wireVars
  <2>2. CASE RegistryStep(s)
    <3>1. pc[s] \notin {"token", "holding"} /\ UNCHANGED <<kind, step>>
      BY <2>2 DEF RegistryStep, callVars, Connect, AddChannel, BeginCreate,
         CreateSucceeds, CreateFails, Drop
    <3>2. kind[s] = "none" /\ step[s] = "ready" /\ id[s] = 0
      BY <1>1, <1>i, <3>1 DEF CallState, Room
    <3> QED
      BY <2>1, <3>1, <3>2 DEF Cut, Room
  <2>3. CASE EnterToken(s)
    <3>1. id[s] = 0 /\ kind'[s] = "token" /\ step'[s] = "acquire" /\ pc'[s] = "token"
      BY <1>1, <1>i, <2>3 DEF EnterToken, ReadBack, Room, SyncTypeOK, TypeOK
    <3> QED
      BY <2>1, <3>1 DEF Cut, Room
  <2>4. CASE ConnectSerial(s)
    <3>1. /\ UNCHANGED <<kind, step>> /\ pc'[s] \in {"token", "holding"}
          /\ kind[s] = "none" /\ step[s] = "ready"
      BY <1>i, <2>4 DEF ConnectSerial, callVars, ReadBack, TokenSet, CallState, TypeOK,
         SyncTypeOK
    <3> QED
      BY <2>1, <3>1 DEF Cut, Room
  <2> QED
    BY <1>3, <2>2, <2>3, <2>4
<1>4. CASE SessionDisconnect(s) \/ SetTokenFailed(s)
  <2>1. kind'[s] = "none" /\ step'[s] = "ready" /\ id'[s] = 0
    BY <1>i, <1>4 DEF SessionDisconnect, SetTokenFailed, LeaveChannel, SyncTypeOK
  <2> QED
    BY <2>1 DEF Cut, Room
<1>5. CASE StartCommand(s) \/ StartRenewal(s) \/ AcquireChannel(s) \/ SkipToken(s)
  <2>1. id' = id /\ step[s] \in {"ready", "acquire"}
    BY <1>5 DEF StartCommand, StartRenewal, AcquireChannel, SkipToken
  <2>2. CASE StartCommand(s) \/ StartRenewal(s)
    BY <1>1, <1>i, <2>2 DEF StartCommand, StartRenewal, vars, Cut, Room, SyncTypeOK
  <2>3. CASE AcquireChannel(s)
    BY <1>1, <1>i, <2>3 DEF AcquireChannel, vars, Cut, Room, SyncTypeOK, CallState
  <2>4. CASE SkipToken(s)
    BY <1>1, <1>i, <2>4 DEF SkipToken, TokenSet, Cut, Room, SyncTypeOK, TypeOK
  <2> QED
    BY <1>5, <2>2, <2>3, <2>4
<1>6. CASE Write(s)
  <2>1. /\ id'[s] = id[s] + 1 /\ step'[s] = "text" /\ UNCHANGED <<vars, kind>>
        /\ step[s] = "write" /\ kind[s] # "none"
    BY <1>i, <1>6 DEF Write, SyncTypeOK, CallState
  <2> QED
    BY <1>1, <1>i, <2>1 DEF vars, Cut, Room, CallState
<1>7. ASSUME Raise(s), UNCHANGED id PROVE Cut(s)' /\ Room(s)'
  <2>1. /\ step'[s] \in {"cleanup", "ready"} /\ UNCHANGED vars
        /\ \/ kind'[s] = kind[s] /\ kind[s] = "token"
           \/ kind'[s] = "none"
    BY <1>i, <1>7 DEF Raise, SyncTypeOK
  <2> QED
    BY <1>1, <1>7, <2>1 DEF vars, Cut, Room
<1>8. ASSUME Return(s), UNCHANGED id, step[s] \in {"text", "binary", "lost", "short"}
      PROVE  Cut(s)' /\ Room(s)'
  <2>1. /\ step'[s] \in {"acquire", "ready"}
        /\ kind[s] = "renew" => kind'[s] = "command"
        /\ kind[s] # "renew" => kind'[s] = "none"
        /\ pc'[s] = pc[s] \/ pc'[s] = "holding"
    BY <1>i, <1>8 DEF Return, TokenSet, vars, SyncTypeOK, TypeOK
  <2> QED
    BY <1>1, <1>8, <2>1 DEF Cut, Room
<1>9. CASE Receive(s)
  <2>1. UNCHANGED id
    BY <1>9 DEF Receive, Read, StopInside, ReadMiscounted, ReadEnd, ReadFails,
       ReadDataEnd, ReadTimesOut, SerialTimesOut, ReadRest
  <2>2. step[s] \in {"text", "binary", "lost", "short"}
    BY <1>9 DEF Receive, Read, StopInside, ReadMiscounted, ReadEnd, ReadFails,
       ReadDataEnd, ReadTimesOut, SerialTimesOut, ReadRest
  <2>3. CASE ~Raise(s) /\ ~Return(s)
    <3>1. /\ UNCHANGED <<vars, kind>>
          /\ \/ step'[s] \in {"text", "binary", "lost"}
             \/ step'[s] = "spinning" /\ channel[s] \in eof'
             \/ step'[s] = "short" /\ channel[s] \in upset'
      BY <1>i, <1>9, <2>3 DEF Receive, Read, StopInside, ReadMiscounted, ReadEnd,
         ReadFails, ReadDataEnd, ReadTimesOut, SerialTimesOut, ReadRest, wireVars,
         SyncTypeOK
    <3> QED
      BY <1>1, <2>1, <2>2, <3>1 DEF vars, Cut, Room
  <2> QED
    BY <1>7, <1>8, <2>1, <2>2, <2>3
<1>10. CASE WriteFails(s)
  BY <1>7, <1>10 DEF WriteFails
<1>11. \/ SessionStep(s)
       \/ \E r \in Sessions \ {s} : SessionStep(r)
       \/ \E c \in Channels : Answer(c) \/ Close(c)
       \/ UNCHANGED syncVars
  BY DEF SyncNext, SessionStep
<1> QED
  BY <1>2, <1>3, <1>4, <1>5, <1>6, <1>9, <1>10, <1>11 DEF SessionStep

\* So it is at all times.
LEMMA EndInvariance == SyncSpec => []EndInv
BY EndStart, EndStep, PTL DEF SyncSpec

\* Sequences that have symbols are not empty.
LEMMA NotEmpty ==
    ASSUME NEW a, NEW b, NEW d
    PROVE  <<a>> # <<>> /\ <<a, b>> # <<>> /\ <<a, b, d>> # <<>>
<1>1. <<a>> # <<>>
  OBVIOUS
<1>2. <<a, b>> # <<>>
  OBVIOUS
<1>3. <<a, b, d>> # <<>>
  OBVIOUS
<1> QED
  BY <1>1, <1>2, <1>3

\* So they have a head behind their head.
LEMMA TwoOrThree ==
    ASSUME NEW a, NEW b, NEW S
    PROVE  /\ S = <<a, b>> => S # <<>> /\ Tail(S) # <<>> /\ Head(Tail(S)) = b
           /\ \A d : S = <<a, b, d>> => S # <<>> /\ Tail(S) # <<>> /\ Head(Tail(S)) = b
<1>1. ASSUME S = <<a, b>> PROVE S # <<>> /\ Tail(S) # <<>> /\ Head(Tail(S)) = b
  <2>1. Tail(S) = <<b>> /\ Head(<<b>>) = b
    BY <1>1, ShortSequences
  <2>2. <<b>> # <<>> /\ S # <<>>
    BY <1>1, NotEmpty
  <2> QED
    BY <2>1, <2>2
<1>2. ASSUME NEW d, S = <<a, b, d>>
      PROVE  S # <<>> /\ Tail(S) # <<>> /\ Head(Tail(S)) = b
  <2>1. Tail(S) = <<b, d>> /\ Head(<<b, d>>) = b
    BY <1>2, ShortSequences
  <2>2. <<b, d>> # <<>> /\ S # <<>>
    BY <1>2, NotEmpty
  <2> QED
    BY <2>1, <2>2
<1> QED
  BY <1>1, <1>2

\* Behind its first symbol a reply has an end, or its data.
LEMMA RestOfReply ==
    ASSUME NEW q, NEW parts \in Replies
    PROVE  /\ Sent(q, parts) # <<>> /\ Tail(Sent(q, parts)) # <<>>
           /\ Head(Tail(Sent(q, parts))).part \in {"end", "data", "bare"}
<1> DEFINE rest == Tail(Sent(q, parts))
<1>1. PICK body, end, flag, data, bare, tail :
        /\ body = [of |-> q, part |-> "body"] /\ end = [of |-> q, part |-> "end"]
        /\ flag = [of |-> q, part |-> "flag"] /\ data = [of |-> q, part |-> "data"]
        /\ bare = [of |-> q, part |-> "bare"] /\ tail = [of |-> q, part |-> "tail"]
  OBVIOUS
<1>2. /\ Sent(q, TextReply) = <<body, end>>
      /\ Sent(q, NetBinReply) = <<flag, data>>
      /\ Sent(q, SerialBinReply) = <<flag, bare, tail>>
  BY <1>1, SentIs
<1>3. end.part = "end" /\ data.part = "data" /\ bare.part = "bare"
  BY <1>1
<1>4. CASE parts = TextReply
  <2>1. Sent(q, parts) = <<body, end>>
    BY <1>2, <1>4
  <2>2. rest # <<>> /\ Head(rest) = end /\ Sent(q, parts) # <<>>
    BY <2>1, TwoOrThree
  <2> QED
    BY <1>3, <2>2
<1>5. CASE parts = NetBinReply
  <2>1. Sent(q, parts) = <<flag, data>>
    BY <1>2, <1>5
  <2>2. rest # <<>> /\ Head(rest) = data /\ Sent(q, parts) # <<>>
    BY <2>1, TwoOrThree
  <2> QED
    BY <1>3, <2>2
<1>6. CASE parts = SerialBinReply
  <2>1. Sent(q, parts) = <<flag, bare, tail>>
    BY <1>2, <1>6
  <2>2. rest # <<>> /\ Head(rest) = bare /\ Sent(q, parts) # <<>>
    BY <2>1, TwoOrThree
  <2> QED
    BY <1>3, <2>2
<1> QED
  BY <1>4, <1>5, <1>6 DEF Replies

\* A reader of a channel that is not spoilt is in one of the stages, alone.
LEMMA StageOf ==
    ASSUME SyncInv, NEW s \in Sessions, Reader(s), ~Spoilt(s)
    PROVE  /\ GatewayHasIt(s) \/ ReplyIsThere(s) \/ RestIsThere(s)
           /\ channel[s] \in Channels /\ Paired(channel[s]) /\ Reads(s, channel[s])
           /\ Sound(channel[s])
<1> DEFINE c == channel[s]
           q == <<s, id[s]>>
<1>1. kind[s] # "none" /\ Reads(s, c)
  BY DEF SyncInv, Calls, CallState, Reader, Reads
<1>2. c \in Channels /\ Sound(c)
  BY <1>1, UserChannel DEF SyncInv, Sound, Spoilt
<1>3. Paired(c)
  BY <1>2 DEF SyncInv, Streams
<1> HIDE DEF c
<1>4. to_gw[c] = <<>> => from_gw[c] # <<>>
  <2>1. Progress(s, c)
    BY <1>1, <1>3 DEF Paired
  <2>2. \A parts \in Replies : Sent(q, parts) # <<>> /\ Tail(Sent(q, parts)) # <<>>
    BY RestOfReply
  <2>3. Asked(s, c) => to_gw[c] # <<>>
    BY NotEmpty DEF Asked
  <2>4. \A parts \in Replies :
          Answered(s, c, parts) \/ Begun(s, c, parts) => from_gw[c] # <<>>
    BY <2>2 DEF Answered, Begun
  <2> QED
    BY <2>1, <2>3, <2>4 DEF Progress
<1>5. ASSUME from_gw[c] # <<>>
      PROVE  Head(from_gw[c]).part \in {"body", "flag", "end", "data", "bare"}
  <2>1. PICK x, rest : x = Head(from_gw[c]) /\ rest = Tail(from_gw[c])
    OBVIOUS
  <2>2. \/ BeginsReply(s, q, x, rest) \/ EndsText(s, q, x, rest)
        \/ EndsBinary(s, q, x, rest) \/ IsBare(s, x)
    BY <1>1, <1>3, <1>5, <2>1, NextSymbol
  <2>3. ASSUME BeginsReply(s, q, x, rest) PROVE x.part \in {"body", "flag"}
    BY <2>3, SentParts DEF BeginsReply
  <2> QED
    BY <2>1, <2>2, <2>3 DEF EndsText, EndsBinary, IsBare
<1> USE DEF c
<1> QED
  BY <1>1, <1>2, <1>3, <1>4, <1>5 DEF GatewayHasIt, ReplyIsThere, RestIsThere

\* A read of its own takes a reader from the reply to the rest, and to the end.
LEMMA ReadGoesOn ==
    ASSUME SyncInv, SyncInv', NEW s \in Sessions, Reader(s), ~Spoilt(s), Receive(s)
    PROVE  /\ Done(s)' \/ (ReplyIsThere(s) /\ RestIsThere(s)')
<1> DEFINE c == channel[s]
           q == <<s, id[s]>>
<1>i. /\ SyncTypeOK /\ TypeOK /\ SyncTypeOK' /\ c \in Channels /\ Paired(c) /\ Reads(s, c)
      /\ GatewayHasIt(s) \/ ReplyIsThere(s) \/ RestIsThere(s)
      /\ Sound(c)
  BY StageOf DEF SyncInv, Calls, SyncTypeOK
<1>1. channel'[s] = channel[s] /\ step[s] \in {"text", "binary", "lost"}
  BY DEF Receive, Read, StopInside, ReadMiscounted, ReadEnd, ReadFails,
     ReadDataEnd, ReadTimesOut, SerialTimesOut, ReadRest, Return, Raise, TokenSet,
     vars, Reader
<1>2. CASE ~Read(s)
  <2>2. ~ReadMiscounted(s)
    BY <1>i, <1>1, SoundReader DEF SyncInv, ReadMiscounted
  <2>1. channel[s] \in upset' \cup eof'
    BY <1>1, <1>2, <2>2 DEF Receive, StopInside, ReadEnd, ReadFails, ReadDataEnd,
       ReadTimesOut, SerialTimesOut, ReadRest, wireVars, Spoilt
  <2> QED
    BY <1>1, <2>1 DEF Done, Spoilt
<1>3. CASE Read(s)
  <2>1. PICK x, rest : x = Head(from_gw[c]) /\ rest = Tail(from_gw[c])
    OBVIOUS
  <2>2. /\ from_gw[c] \in Seq(Symbols) /\ Len(from_gw[c]) \in Nat /\ Len(from_gw[c]) >= 1
        /\ from_gw'[c] = rest /\ from_gw[c] # <<>>
    <3>1. Take(s, 1) /\ from_gw[c] \in Seq(Symbols) /\ Len(from_gw[c]) \in Nat
      BY <1>3, <1>i, LenProperties DEF Read, SyncTypeOK
    <3>2. Len(from_gw[c]) >= 1
      BY <3>1 DEF Take
    <3>3. SubSeq(from_gw[c], 1 + 1, Len(from_gw[c])) = rest
      BY <2>1, <3>1, <3>2, ReadOne
    <3> QED
      BY <1>i, <3>1, <3>2, <3>3 DEF Take, SyncTypeOK
  <2>3. /\ to_gw[c] = <<>>
        /\ \/ BeginsReply(s, q, x, rest) \/ EndsText(s, q, x, rest)
           \/ EndsBinary(s, q, x, rest) \/ IsBare(s, x)
    BY <1>i, <2>1, <2>2, NextSymbol
  <2>4. CASE ~BeginsReply(s, q, x, rest)
    <3>1. step[s] = "binary" \/ x.part \in {"end", "data", "tail"}
      BY <2>3, <2>4 DEF EndsText, EndsBinary, IsBare
    <3>2. Return(s)
      BY <1>3, <2>1, <3>1 DEF Read
    <3>3. step'[s] \in {"ready", "acquire"}
      BY <1>i, <3>2 DEF Return, SyncTypeOK
    <3> QED
      BY <3>3 DEF Done, InCall
  <2>5. CASE BeginsReply(s, q, x, rest)
    <3>1. PICK parts \in Replies :
            /\ step[s] = "text" /\ x = [of |-> q, part |-> parts[1]]
            /\ rest = Tail(Sent(q, parts))
      BY <2>5 DEF BeginsReply
    <3>2. x.part \in {"body", "flag"}
      BY <3>1, SentParts
    <3>3. ReplyIsThere(s)
      BY <1>1, <2>1, <2>2, <2>3, <3>2 DEF ReplyIsThere, Reader
    <3>4. step' = [step EXCEPT ![s] = IF x.part = "flag" THEN "binary" ELSE "text"]
      BY <1>3, <2>1, <3>1, <3>2 DEF Read
    <3>5. Reader(s)'
      BY <1>i, <3>4 DEF Reader, SyncTypeOK
    <3>6. rest # <<>> /\ Head(rest).part \in {"end", "data", "bare"}
      BY <3>1, RestOfReply
    <3>7. to_gw' = to_gw
      BY <1>3 DEF Read
    <3>8. RestIsThere(s)'
      BY <1>1, <2>2, <2>3, <3>5, <3>6, <3>7 DEF RestIsThere
    <3> QED
      BY <3>3, <3>8
  <2> QED
    BY <2>4, <2>5
<1> QED
  BY <1>2, <1>3

\* The steps of others leave the reply to a reader where it is.
LEMMA ReplyIsLeft ==
    ASSUME SyncInv, SyncInv', [SyncNext]_syncVars, NEW s \in Sessions,
           Reader(s), ~Spoilt(s), ~Spoilt(s)', to_gw[channel[s]] = <<>>,
           \/ \E r \in Sessions \ {s} : SessionStep(r)
           \/ \E c \in Channels : Answer(c) \/ Close(c)
           \/ UNCHANGED syncVars
    PROVE  /\ to_gw'[channel[s]] = <<>>
           /\ from_gw'[channel[s]] = from_gw[channel[s]]
<1> DEFINE c == channel[s]
<1>1. step'[s] = step[s] /\ channel'[s] = channel[s] /\ c \in Channels
      /\ Reads(s, c) /\ Paired(c) /\ SyncTypeOK
  BY CallUntouched, StageOf DEF SyncInv, Calls
<1>2. Reads(s, c)' /\ Paired(c)' /\ c \in open'
  <2>1. Reader(s)'
    BY <1>1 DEF Reader
  <2>2. ASSUME SyncInv', Reader(s)', ~Spoilt(s)'
        PROVE  Paired(channel[s])' /\ Reads(s, channel[s])' /\ Sound(channel[s])'
    <3>1. kind'[s] # "none" /\ Reads(s, channel[s])'
      BY <2>2 DEF SyncInv, Calls, CallState, Reader, Reads
    <3>2. pc'[s] \in {"token", "holding"}
      BY <2>2, <3>1 DEF SyncInv, Calls, CallState
    <3>6. target'[s] \in Once
      BY <2>2, EveryTargetOnce DEF SyncInv, Calls, SyncTypeOK, TypeOK, Once
    <3>3. channel'[s] \in open' /\ open' \subseteq Channels
      BY <2>2, <3>2, <3>6
         DEF SyncInv, Calls, HInv, HolderChannelIsOpen, SyncTypeOK, TypeOK
    <3>4. Sound(channel[s])'
      BY <2>2, <3>3 DEF Sound, Spoilt
    <3>5. Paired(channel[s])'
      BY <2>2, <3>3, <3>4 DEF SyncInv, Streams
    <3> QED
      BY <3>1, <3>4, <3>5
  <2> QED
    BY <1>1, <2>1, <2>2 DEF Sound
<1>3. ASSUME NEW r \in Sessions \ {s} PROVE ~Reads(r, c) /\ ~Reads(r, c)'
  BY <1>1, <1>2 DEF Paired
<1>4. ASSUME NEW r \in Sessions \ {s}, SessionStep(r)
      PROVE  to_gw'[c] = to_gw[c] /\ from_gw'[c] = from_gw[c]
  <2>1. CASE Write(r)
    <3>1. step'[r] = "text" /\ channel'[r] = channel[r]
      BY <1>1, <2>1 DEF Write, vars, SyncTypeOK
    <3>2. channel[r] # c
      BY <1>1, <1>3, <3>1 DEF Reads
    <3> QED
      BY <1>1, <2>1, <3>2 DEF Write, SyncTypeOK
  <2>2. CASE Receive(r)
    <3>1. step[r] \in {"text", "binary", "lost", "short"}
      BY <2>2 DEF Receive, Read, StopInside, ReadMiscounted, ReadEnd, ReadFails,
         ReadDataEnd, ReadTimesOut, SerialTimesOut, ReadRest
    <3>2. channel[r] # c
      BY <1>3, <3>1 DEF Reads
    <3> QED
      BY <1>1, <2>2, <3>2 DEF Receive, Read, StopInside, ReadMiscounted, ReadEnd,
         ReadFails, ReadDataEnd, ReadTimesOut, SerialTimesOut, ReadRest, Take,
         wireVars, SyncTypeOK
  <2>3. CASE SessionDisconnect(r) \/ SetTokenFailed(r)
    BY <1>1, <1>2, <2>3 DEF SessionDisconnect, SetTokenFailed, LeaveChannel
  <2>4. CASE \/ RegistryStep(r) \/ EnterToken(r) \/ ConnectSerial(r)
             \/ StartCommand(r) \/ StartRenewal(r) \/ AcquireChannel(r) \/ SkipToken(r)
             \/ WriteFails(r)
    BY <2>4 DEF RegistryStep, EnterToken, ConnectSerial, StartCommand, StartRenewal,
       AcquireChannel, SkipToken, WriteFails, wireVars
  <2> QED
    BY <1>4, <2>1, <2>2, <2>3, <2>4 DEF SessionStep
<1>5. ASSUME NEW d \in Channels, Answer(d) \/ Close(d)
      PROVE  to_gw'[c] = to_gw[c] /\ from_gw'[c] = from_gw[c]
  <2>1. d # c
    BY <1>1, <1>5 DEF Answer, Close, Spoilt
  <2> QED
    BY <1>1, <1>5, <2>1 DEF Answer, Close, SyncTypeOK
<1> QED
  BY <1>4, <1>5 DEF syncVars, wireVars

\* From one stage a call goes on to a later one, or is done.
LEMMA StagesFollow ==
    ASSUME EndInv, [SyncNext]_syncVars, NEW s \in Sessions
    PROVE  /\ step[s] = "write" => (step[s] = "write")' \/ Reader(s)' \/ Done(s)'
           /\ GatewayHasIt(s) /\ ~Spoilt(s) =>
                GatewayHasIt(s)' \/ ReplyIsThere(s)' \/ RestIsThere(s)' \/ Done(s)'
           /\ ReplyIsThere(s) /\ ~Spoilt(s) =>
                ReplyIsThere(s)' \/ RestIsThere(s)' \/ Done(s)'
           /\ RestIsThere(s) /\ ~Spoilt(s) => RestIsThere(s)' \/ Done(s)'
           /\ Write(s) \/ WriteFails(s) => Reader(s)' \/ Done(s)'
           /\ Receive(s) /\ Reader(s) /\ ~Spoilt(s) =>
                Done(s)' \/ (ReplyIsThere(s) /\ RestIsThere(s)')
<1>1. SyncInv /\ SyncInv' /\ SyncTypeOK /\ TypeOK /\ CallState(s)
  BY SyncStep DEF EndInv, SyncInv, Calls, SyncTypeOK
<1>2. \/ SessionStep(s)
      \/ \E r \in Sessions \ {s} : SessionStep(r)
      \/ \E c \in Channels : Answer(c) \/ Close(c)
      \/ UNCHANGED syncVars
  BY DEF SyncNext, SessionStep
<1>3. ASSUME Write(s) \/ WriteFails(s) PROVE Reader(s)' \/ Done(s)'
  BY <1>1, <1>3 DEF Write, WriteFails, Raise, Reader, Done, InCall, SyncTypeOK
<1>4. ASSUME Receive(s), Reader(s), ~Spoilt(s)
      PROVE  Done(s)' \/ (ReplyIsThere(s) /\ RestIsThere(s)')
  BY <1>1, <1>4, ReadGoesOn
<1>5. ASSUME SessionStep(s), step[s] \in {"write", "text", "binary", "lost"}
      PROVE  Write(s) \/ WriteFails(s) \/ Receive(s)
  <2>1. kind[s] # "none" /\ pc[s] \in {"token", "holding"}
    BY <1>1, <1>5 DEF CallState
  <2>2. ~RegistryStep(s) /\ ~EnterToken(s)
    BY <2>1 DEF RegistryStep, Connect, AddChannel, BeginCreate, CreateSucceeds,
       CreateFails, Drop, EnterToken, ReadBack
  <2>3. ~ConnectSerial(s)
    BY <1>1, <2>1 DEF ConnectSerial, ReadBack, TokenSet, CallState, SyncTypeOK
  <2> QED
    BY <1>5, <2>2, <2>3 DEF SessionStep, SessionDisconnect, SetTokenFailed, StartCommand,
       StartRenewal, AcquireChannel, SkipToken
<1>6. ASSUME ~SessionStep(s)
      PROVE  step'[s] = step[s] /\ channel'[s] = channel[s]
  BY <1>1, <1>2, <1>6, CallUntouched
<1>7. step[s] = "write" => (step[s] = "write")' \/ Reader(s)' \/ Done(s)'
  <2>1. ASSUME step[s] = "write" PROVE ~Receive(s)
    BY <2>1 DEF Receive, Read, StopInside, ReadMiscounted, ReadEnd, ReadFails,
       ReadDataEnd, ReadTimesOut, SerialTimesOut, ReadRest
  <2> QED
    BY <1>3, <1>5, <1>6, <2>1
<1>8. ASSUME Reader(s), ~Spoilt(s), ~Done(s)'
      PROVE  /\ GatewayHasIt(s)' \/ ReplyIsThere(s)' \/ RestIsThere(s)'
             /\ ReplyIsThere(s) => ReplyIsThere(s)' \/ RestIsThere(s)'
             /\ RestIsThere(s) => RestIsThere(s)'
  <2>1. CASE SessionStep(s)
    <3>1. Receive(s)
      BY <1>5, <1>8, <2>1 DEF Reader, Write, WriteFails
    <3>2. ReplyIsThere(s) /\ RestIsThere(s)'
      BY <1>4, <1>8, <3>1
    <3> QED
      BY <3>2
  <2>2. CASE ~SessionStep(s)
    <3>1. step'[s] = step[s] /\ channel'[s] = channel[s]
      BY <1>6, <2>2
    <3>2. Reader(s)' /\ ~Spoilt(s)'
      BY <1>8, <3>1 DEF Reader, Done
    <3>3. ASSUME to_gw[channel[s]] = <<>>
          PROVE  /\ to_gw'[channel[s]] = <<>>
                 /\ from_gw'[channel[s]] = from_gw[channel[s]]
      BY <1>1, <1>2, <1>8, <2>2, <3>2, <3>3, ReplyIsLeft
    <3>4. GatewayHasIt(s) \/ ReplyIsThere(s) \/ RestIsThere(s)
      BY <1>1, <1>8, StageOf
    <3>5. ReplyIsThere(s) => ReplyIsThere(s)'
      BY <3>1, <3>2, <3>3 DEF ReplyIsThere
    <3>6. RestIsThere(s) => RestIsThere(s)'
      BY <3>1, <3>2, <3>3 DEF RestIsThere
    <3>7. GatewayHasIt(s)' \/ ReplyIsThere(s)' \/ RestIsThere(s)'
      <4> SUFFICES ASSUME SyncInv', Reader(s)', ~Spoilt(s)'
                   PROVE  GatewayHasIt(s)' \/ ReplyIsThere(s)' \/ RestIsThere(s)'
        BY <1>1, <3>2
      <4> QED
        BY StageOf, PTL
    <3> QED
      BY <3>5, <3>6, <3>7
  <2> QED
    BY <2>1, <2>2
<1>9. GatewayHasIt(s) \/ ReplyIsThere(s) \/ RestIsThere(s) => Reader(s)
  BY DEF GatewayHasIt, ReplyIsThere, RestIsThere
<1> QED
  BY <1>3, <1>4, <1>7, <1>8, <1>9

\* A thread that has the channel runs on, and its read returns or times out: the
\* fairness of SyncFairness, with what enables the steps written out.
WriteGoesOn(s) ==
    \/ []<>~(step[s] = "write" /\ id[s] < MaxRequests[s])
    \/ []<><<Write(s) \/ WriteFails(s)>>_syncVars
ReadsGoOn(s) ==
    \/ []<>~(Reader(s) /\ (GatewayMayBeSlow \/ Spoilt(s) \/ from_gw[channel[s]] # <<>>))
    \/ []<><<Receive(s)>>_syncVars

\* With sockets that time out, a call ends, or something has spoilt its channel: a
\* reader that gave up or took a byte of a value for its end, an unlocked renewal,
\* data that were not counted, or the end of the connection.  Nothing is asked of the
\* gateway (sync_fgc 64-114, serial_fgc 52-87).
THEOREM SoundCallsEnd ==
    ASSUME NEW s \in Sessions, GatewayMayBeSlow, MaxRequests[s] > 0
    PROVE  SyncSpec /\ WriteGoesOn(s) /\ ReadsGoOn(s) =>
             (InCall(s) ~> (~InCall(s) \/ channel[s] \in upset \cup eof))
<1> DEFINE Writing == step[s] = "write"
<1>1. EndInv /\ [SyncNext]_syncVars =>
        /\ Writing => Writing' \/ Reader(s)' \/ Done(s)'
        /\ GatewayHasIt(s) /\ ~Spoilt(s) =>
             GatewayHasIt(s)' \/ ReplyIsThere(s)' \/ RestIsThere(s)' \/ Done(s)'
        /\ ReplyIsThere(s) /\ ~Spoilt(s) =>
             ReplyIsThere(s)' \/ RestIsThere(s)' \/ Done(s)'
        /\ RestIsThere(s) /\ ~Spoilt(s) => RestIsThere(s)' \/ Done(s)'
  BY StagesFollow
<1>2. EndInv /\ [SyncNext]_syncVars /\ <<Write(s) \/ WriteFails(s)>>_syncVars =>
        Reader(s)' \/ Done(s)'
  BY StagesFollow
<1>3. EndInv /\ [SyncNext]_syncVars /\ <<Receive(s)>>_syncVars /\ Reader(s) /\ ~Spoilt(s) =>
        Done(s)' \/ (ReplyIsThere(s) /\ RestIsThere(s)')
  BY StagesFollow
<1>4. EndInv /\ Writing => step[s] = "write" /\ id[s] < MaxRequests[s]
  <2> SUFFICES ASSUME EndInv, Writing PROVE id[s] < MaxRequests[s]
    OBVIOUS
  <2>1. /\ Room(s) /\ kind[s] \in {"none", "token", "renew", "command"}
        /\ kind[s] # "none" /\ MaxRequests[s] \in Nat
    BY MaxRequestsAssumption DEF EndInv, SyncInv, Calls, SyncTypeOK, CallState
  <2> QED
    BY <2>1 DEF Room
<1>5. EndInv /\ Reader(s) =>
        GatewayHasIt(s) \/ ReplyIsThere(s) \/ RestIsThere(s) \/ Spoilt(s)
  BY StageOf DEF EndInv
<1>6. EndInv => Writing \/ Reader(s) \/ Done(s)
  BY DEF EndInv, Cut, Done, Spoilt, InCall, Reader
<1>7. /\ GatewayHasIt(s) => Reader(s)
      /\ ReplyIsThere(s) => Reader(s)
      /\ RestIsThere(s) => Reader(s) /\ ~ReplyIsThere(s)
      /\ GatewayHasIt(s) => ~ReplyIsThere(s)
      /\ Spoilt(s) => Done(s)
      /\ Done(s) => ~InCall(s) \/ channel[s] \in upset \cup eof
  BY DEF GatewayHasIt, ReplyIsThere, RestIsThere, Done, Spoilt
<1>8. Reader(s) =>
        Reader(s) /\ (GatewayMayBeSlow \/ Spoilt(s) \/ from_gw[channel[s]] # <<>>)
  OBVIOUS
<1>9. SyncSpec => []EndInv
  BY EndInvariance
<1> HIDE DEF Writing
<1>10. SyncSpec /\ WriteGoesOn(s) => (Writing ~> Reader(s) \/ Done(s))
  BY <1>1, <1>2, <1>4, <1>9, PTL DEF SyncSpec, WriteGoesOn
<1>11. SyncSpec /\ ReadsGoOn(s) => (RestIsThere(s) ~> Done(s))
  BY <1>1, <1>3, <1>7, <1>8, <1>9, PTL DEF SyncSpec, ReadsGoOn
<1>12. SyncSpec /\ ReadsGoOn(s) => (ReplyIsThere(s) ~> RestIsThere(s) \/ Done(s))
  BY <1>1, <1>3, <1>7, <1>8, <1>9, PTL DEF SyncSpec, ReadsGoOn
<1>13. SyncSpec /\ ReadsGoOn(s) =>
         (GatewayHasIt(s) ~> ReplyIsThere(s) \/ RestIsThere(s) \/ Done(s))
  BY <1>1, <1>3, <1>7, <1>8, <1>9, PTL DEF SyncSpec, ReadsGoOn
<1>14. SyncSpec /\ ReadsGoOn(s) => (Reader(s) ~> Done(s))
  BY <1>5, <1>7, <1>9, <1>11, <1>12, <1>13, PTL
<1> QED
  BY <1>6, <1>7, <1>9, <1>10, <1>14, PTL

\* What a reader of the channel has before it at most: an answer is three symbols,
\* and it stops within one and reads on at most once.
Remaining(c) == 4 * Len(to_gw[c]) + Len(from_gw[c])
LeftFor(s) == Remaining(channel[s]) + (IF step[s] = "lost" THEN 0 ELSE 1)

\* No other thread has the channel of the session.
HasItAlone(s) == \A r \in Sessions \ {s} : channel[r] = channel[s] => ~InCall(r)

\* While a thread that has a channel alone reads, spoilt or not, what remains only
\* shrinks, and each read that does not end the loop makes it smaller: neither the
\* gateway nor old replies keep it reading for ever.
ReadsRunDown ==
    [][\A s \in Sessions :
          Reader(s) /\ Reader(s)' /\ HasItAlone(s) =>
            /\ channel'[s] = channel[s]
            /\ LeftFor(s)' \in Nat
            /\ LeftFor(s)' <= LeftFor(s)
            /\ Receive(s) => LeftFor(s)' < LeftFor(s)]_syncVars

\* What remains of fewer requests, or fewer symbols.
LEMMA LessRemains ==
    ASSUME NEW t \in Nat, NEW f \in Nat, NEW t1 \in Nat, NEW f1 \in Nat
    PROVE  /\ 4 * t + f \in Nat
           /\ t1 <= t /\ f1 <= f => 4 * t1 + f1 <= 4 * t + f
           /\ t1 = t - 1 /\ f1 <= f + 3 => 4 * t1 + f1 <= 4 * t + f
           /\ t1 = t /\ f1 = f - 1 => 4 * t1 + f1 < 4 * t + f
OBVIOUS

\* What the gateway does to what remains.
LEMMA GatewayRunsDown ==
    ASSUME SyncTypeOK, SyncTypeOK', NEW c \in Channels, NEW d \in Channels,
           Answer(d) \/ Close(d)
    PROVE  Remaining(c)' <= Remaining(c)
<1>1. /\ to_gw[c] \in Seq(Requests) /\ from_gw[c] \in Seq(Symbols)
      /\ to_gw'[c] \in Seq(Requests) /\ from_gw'[c] \in Seq(Symbols)
      /\ Len(to_gw[c]) \in Nat /\ Len(from_gw[c]) \in Nat
      /\ Len(to_gw'[c]) \in Nat /\ Len(from_gw'[c]) \in Nat
  BY LenProperties DEF SyncTypeOK
<1>2. PICK t \in Nat, f \in Nat, t1 \in Nat, f1 \in Nat :
        /\ t = Len(to_gw[c]) /\ f = Len(from_gw[c])
        /\ t1 = Len(to_gw'[c]) /\ f1 = Len(from_gw'[c])
  BY <1>1
<1>3. Remaining(c) = 4 * t + f /\ Remaining(c)' = 4 * t1 + f1
  BY <1>2 DEF Remaining
<1>4. CASE c # d
  <2>1. to_gw'[c] = to_gw[c]
    BY <1>4 DEF Answer, Close, SyncTypeOK
  <2>2. from_gw'[c] = from_gw[c]
    <3>1. CASE Answer(d)
      BY <1>4, <3>1 DEF Answer, SyncTypeOK
    <3>2. CASE Close(d)
      BY <1>4, <3>2 DEF Close, SyncTypeOK
    <3> QED
      BY <3>1, <3>2
  <2>3. t1 <= t /\ f1 <= f
    BY <1>2, <2>1, <2>2
  <2> QED
    BY <1>3, <2>3, LessRemains
<1>5. CASE c = d /\ Answer(c)
  <2>1. PICK parts \in Replies :
          from_gw' = [from_gw EXCEPT ![c] = @ \o
             [i \in DOMAIN parts |-> [of |-> Head(to_gw[c]), part |-> parts[i]]]]
    <3>1. PICK ps \in {TextReply, NetBinReply}
                       \cup (IF IsPort(c) THEN {SerialBinReply} ELSE {}) :
            from_gw' = [from_gw EXCEPT ![c] = @ \o
               [i \in DOMAIN ps |-> [of |-> Head(to_gw[c]), part |-> ps[i]]]]
      BY <1>5 DEF Answer
    <3>2. ps \in Replies
      BY DEF Replies
    <3> QED
      BY <3>1, <3>2
  <2>2. PICK more : more = Sent(Head(to_gw[c]), parts)
    OBVIOUS
  <2>3. from_gw'[c] = from_gw[c] \o more
    BY <2>1, <2>2 DEF SyncTypeOK, Sent
  <2>4. to_gw[c] # <<>> /\ to_gw'[c] = Tail(to_gw[c])
    BY <1>5 DEF Answer, SyncTypeOK
  <2>5. Len(to_gw'[c]) = Len(to_gw[c]) - 1 /\ Head(to_gw[c]) \in Requests
    BY <1>1, <2>4, HeadTailProperties
  <2>6. more \in Seq(Symbols)
    BY <2>2, <2>5, SentType
  <2>7. PICK n \in Nat : n = Len(more)
    BY <2>6, LenProperties
  <2>8. n <= 3
    <3>1. DOMAIN more = DOMAIN parts
      BY <2>2 DEF Sent
    <3>2. DOMAIN more = 1..n
      BY <2>6, <2>7, LenProperties
    <3>3. 4 \notin DOMAIN parts
      BY <2>1 DEF Replies, TextReply, NetBinReply, SerialBinReply
    <3>4. 4 \notin 1..n
      BY <3>1, <3>2, <3>3
    <3> QED
      BY <3>4
  <2>9. Len(from_gw[c] \o more) = Len(from_gw[c]) + Len(more)
    BY <1>1, <2>6, ConcatProperties
  <2>10. f1 = f + n
    BY <1>2, <2>3, <2>7, <2>9
  <2>11. t1 = t - 1
    BY <1>2, <2>5
  <2>12. f1 <= f + 3
    BY <2>8, <2>10
  <2> QED
    BY <1>3, <2>11, <2>12, LessRemains
<1>6. CASE c = d /\ Close(c)
  <2>1. to_gw'[c] = <<>>
    BY <1>6 DEF Close, SyncTypeOK
  <2>2. PICK n \in 0..Len(from_gw[c]) : from_gw'[c] = SubSeq(from_gw[c], 1, n)
    BY <1>6 DEF Close, SyncTypeOK
  <2>3. Len(from_gw'[c]) <= Len(from_gw[c])
    <3>1. \A i \in 1..n : from_gw[c][i] \in Symbols
      BY <1>1, <2>2, ElementOfSeq
    <3> QED
      BY <1>1, <2>2, <3>1, SubSeqProperties
  <2>4. t1 = 0
    BY <1>2, <2>1
  <2>5. t1 <= t /\ f1 <= f
    BY <1>2, <2>3, <2>4
  <2> QED
    BY <1>3, <2>5, LessRemains
<1> QED
  BY <1>4, <1>5, <1>6

\* A reader that has its channel alone reads it down (sync_fgc 68-115, serial_fgc
\* 52-90).
THEOREM ReadersRunDown == SyncSpec => ReadsRunDown
<1>1. ASSUME SyncInv, [SyncNext]_syncVars, NEW s \in Sessions, Reader(s), Reader(s)',
             HasItAlone(s)
      PROVE  /\ channel'[s] = channel[s]
             /\ LeftFor(s)' \in Nat
             /\ LeftFor(s)' <= LeftFor(s)
             /\ Receive(s) => LeftFor(s)' < LeftFor(s)
  <2> DEFINE c == channel[s]
  <2>1. SyncInv' /\ SyncTypeOK /\ SyncTypeOK'
    BY <1>1, SyncStep DEF SyncInv, Calls
  <2>2. kind[s] # "none" /\ kind'[s] # "none"
    BY <1>1, <2>1 DEF SyncInv, Calls, CallState, Reader
  <2>3. c \in Channels
    BY <1>1, <2>2, UserChannel DEF SyncInv
  <2>4. /\ to_gw[c] \in Seq(Requests) /\ from_gw[c] \in Seq(Symbols)
        /\ to_gw'[c] \in Seq(Requests) /\ from_gw'[c] \in Seq(Symbols)
        /\ Len(to_gw[c]) \in Nat /\ Len(from_gw[c]) \in Nat
        /\ Len(to_gw'[c]) \in Nat /\ Len(from_gw'[c]) \in Nat
    BY <2>1, <2>3, LenProperties DEF SyncTypeOK
  <2>5. PICK t \in Nat, f \in Nat, t1 \in Nat, f1 \in Nat :
          /\ t = Len(to_gw[c]) /\ f = Len(from_gw[c])
          /\ t1 = Len(to_gw'[c]) /\ f1 = Len(from_gw'[c])
    BY <2>4
  <2>6. Remaining(c) = 4 * t + f
    BY <2>5 DEF Remaining
  <2>7. channel'[s] = channel[s] => Remaining(c)' = 4 * t1 + f1
    BY <2>5 DEF Remaining
  <2>8. 4 * t1 + f1 \in Nat /\ 4 * t + f \in Nat
    BY <2>5, LessRemains
  <2>11. /\ LeftFor(s) = IF step[s] = "lost" THEN Remaining(c) ELSE Remaining(c) + 1
         /\ channel'[s] = channel[s] =>
              LeftFor(s)' = IF step'[s] = "lost" THEN Remaining(c)' ELSE Remaining(c)' + 1
    <3>1. Remaining(c) \in Int /\ (channel'[s] = channel[s] => Remaining(c)' \in Int)
      BY <2>6, <2>7, <2>8
    <3>2. ASSUME NEW n \in Int PROVE n + 0 = n
      OBVIOUS
    <3> QED BY <3>1, <3>2 DEF LeftFor
  <2>9. CASE Receive(s)
    <3>1. /\ Read(s) \/ StopInside(s) \/ ReadMiscounted(s)
          /\ ~Return(s)
      <4>1. ASSUME Return(s) \/ Raise(s) PROVE FALSE
        BY <1>1, <2>1, <4>1 DEF Return, Raise, Reader, SyncTypeOK
      <4>2. ASSUME ReadDataEnd(s) \/ SerialTimesOut(s) PROVE FALSE
        BY <1>1, <2>1, <4>1, <4>2 DEF ReadDataEnd, SerialTimesOut, Reader, SyncTypeOK
      <4> QED
        BY <2>9, <4>1, <4>2 DEF Receive, ReadEnd, ReadFails, ReadTimesOut, ReadRest
    <3>2. UNCHANGED channel /\ to_gw' = to_gw /\ t1 = t
      <4>1. UNCHANGED channel /\ to_gw' = to_gw
        BY <3>1 DEF Read, StopInside, ReadMiscounted, vars
      <4> QED BY <2>5, <4>1
    <3>3. Remaining(c)' = 4 * t1 + f1 /\ channel'[s] = channel[s]
      BY <2>7, <3>2
    <3>4. CASE Read(s) \/ ReadMiscounted(s)
      <4>1. from_gw'[c] = Tail(from_gw[c]) /\ from_gw[c] # <<>>
        <5>1. CASE Read(s)
          <6>1. /\ 1 <= Len(from_gw[c])
                /\ from_gw'[c] = SubSeq(from_gw[c], 1 + 1, Len(from_gw[c]))
            BY <2>1, <2>3, <5>1 DEF Read, Take, SyncTypeOK
          <6> QED BY <2>4, <6>1, ReadOne
        <5>2. CASE ReadMiscounted(s)
          BY <2>1, <2>3, <3>1, <5>2 DEF ReadMiscounted, SyncTypeOK
        <5> QED BY <3>4, <5>1, <5>2
      <4>2. Len(from_gw'[c]) = Len(from_gw[c]) - 1
        BY <2>4, <4>1, HeadTailProperties
      <4>3. t1 = t /\ f1 = f - 1
        BY <2>5, <3>2, <4>2
      <4>4. step'[s] # "lost" => step[s] # "lost"
        BY <2>1, <3>1, <3>4 DEF Read, ReadMiscounted, SyncTypeOK
      <4>5. Remaining(c)' < Remaining(c) /\ Remaining(c)' \in Nat /\ Remaining(c) \in Nat
        BY <2>6, <2>8, <3>3, <4>3, LessRemains
      <4> QED
        BY <2>11, <3>3, <4>4, <4>5
    <3>5. CASE StopInside(s)
      <4>1. from_gw' = from_gw /\ step[s] = "text" /\ step'[s] = "lost"
        BY <2>1, <3>1, <3>5 DEF StopInside, SyncTypeOK
      <4>2. t1 = t /\ f1 = f
        BY <2>5, <3>2, <4>1
      <4>3. Remaining(c)' = Remaining(c) /\ Remaining(c) \in Nat
        BY <2>6, <2>8, <3>3, <4>2
      <4> QED
        BY <2>11, <3>3, <4>1, <4>3
    <3> QED
      BY <3>1, <3>4, <3>5
  <2>10. CASE ~Receive(s)
    <3>1. ~SessionStep(s)
      <4>1. pc[s] \in {"token", "holding"}
        BY <1>1, <2>2, UserChannel DEF SyncInv
      <4>2. ~RegistryStep(s) /\ ~EnterToken(s)
        BY <4>1 DEF RegistryStep, Connect, AddChannel, BeginCreate, CreateSucceeds,
           CreateFails, Drop, EnterToken, ReadBack
      <4>3. ~ConnectSerial(s)
        BY <1>1, <2>1, <2>2, <4>1 DEF ConnectSerial, ReadBack, TokenSet, SyncInv, Calls,
           CallState, SyncTypeOK
      <4> QED
        BY <1>1, <2>10, <4>2, <4>3 DEF SessionStep, SessionDisconnect, SetTokenFailed,
           StartCommand, StartRenewal, AcquireChannel, SkipToken, Write, WriteFails, Reader
    <3>2. \/ \E r \in Sessions \ {s} : SessionStep(r)
          \/ \E d \in Channels : Answer(d) \/ Close(d)
          \/ UNCHANGED syncVars
      BY <1>1, <3>1 DEF SyncNext, SessionStep
    <3>3. channel'[s] = channel[s] /\ step'[s] = step[s]
      BY <1>1, <2>1, <3>2, CallUntouched
    <3>4. ASSUME NEW r \in Sessions \ {s}, SessionStep(r)
          PROVE  Remaining(c)' <= Remaining(c)
      <4>1. channel[r] = c => ~InCall(r)
        BY <1>1 DEF HasItAlone
      <4>2. CASE Write(r) \/ Receive(r)
        <5>1. InCall(r)
          BY <4>2 DEF InCall, Write, Receive, Read, StopInside, ReadMiscounted,
             ReadEnd, ReadFails, ReadDataEnd, ReadTimesOut, SerialTimesOut,
             ReadRest
        <5>2. to_gw'[c] = to_gw[c] /\ from_gw'[c] = from_gw[c]
          BY <2>1, <2>3, <4>1, <4>2, <5>1 DEF Write, Receive, Read, StopInside,
             ReadMiscounted, ReadEnd, ReadFails, ReadDataEnd, ReadTimesOut,
             SerialTimesOut, ReadRest, Take, wireVars, SyncTypeOK
        <5>3. t1 = t /\ f1 = f
          BY <2>5, <5>2
        <5> QED
          BY <2>6, <2>7, <2>8, <3>3, <5>3
      <4>3. CASE SessionDisconnect(r) \/ SetTokenFailed(r)
        <5>1. /\ to_gw'[c] = to_gw[c] \/ to_gw'[c] = <<>>
              /\ from_gw'[c] = from_gw[c] \/ from_gw'[c] = <<>>
          BY <2>3, <4>3 DEF SessionDisconnect, SetTokenFailed, LeaveChannel
        <5>2. t1 <= t /\ f1 <= f
          BY <2>5, <5>1
        <5> QED
          BY <2>6, <2>7, <3>3, <5>2, LessRemains
      <4>4. CASE \/ RegistryStep(r) \/ EnterToken(r) \/ ConnectSerial(r)
                 \/ StartCommand(r) \/ StartRenewal(r) \/ AcquireChannel(r)
                 \/ SkipToken(r) \/ WriteFails(r)
        <5>1. to_gw' = to_gw /\ from_gw' = from_gw
          BY <4>4 DEF RegistryStep, EnterToken, ConnectSerial, StartCommand, StartRenewal,
             AcquireChannel, SkipToken, WriteFails, wireVars
        <5> QED
          BY <2>4, <3>3, <5>1 DEF Remaining
      <4> QED
        BY <3>4, <4>2, <4>3, <4>4 DEF SessionStep
    <3>5. ASSUME NEW d \in Channels, Answer(d) \/ Close(d)
          PROVE  Remaining(c)' <= Remaining(c)
      <4>1. PICK e : e = c
        OBVIOUS
      <4>2. e \in Channels
        BY <2>3, <4>1
      <4>3. Remaining(e)' <= Remaining(e)
        BY <2>1, <3>5, <4>2, GatewayRunsDown
      <4> QED
        BY <3>3, <4>1, <4>3 DEF Remaining
    <3>6. UNCHANGED syncVars => Remaining(c)' <= Remaining(c)
      BY <2>4, <3>3 DEF Remaining, syncVars, wireVars
    <3>7. Remaining(c)' \in Nat /\ Remaining(c) \in Nat
      BY <2>6, <2>7, <2>8, <3>3
    <3>8. Remaining(c)' <= Remaining(c)
      BY <3>2, <3>4, <3>5, <3>6
    <3> QED
      BY <2>10, <2>11, <3>3, <3>7, <3>8
  <2> QED
    BY <2>9, <2>10
<1>2. SyncInv /\ [SyncNext]_syncVars =>
        [\A s \in Sessions :
            Reader(s) /\ Reader(s)' /\ HasItAlone(s) =>
              /\ channel'[s] = channel[s]
              /\ LeftFor(s)' \in Nat
              /\ LeftFor(s)' <= LeftFor(s)
              /\ Receive(s) => LeftFor(s)' < LeftFor(s)]_syncVars
  BY <1>1
<1> QED
  BY <1>2, SyncInvariance, PTL DEF SyncSpec, ReadsRunDown
=============================================================================
