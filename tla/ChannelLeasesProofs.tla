------------------------ MODULE ChannelLeasesProofs ------------------------
(***************************************************************************)
(* The registry implements ChannelLeases, for any number of targets,       *)
(* sessions and channels, as far as the pools are concerned whose protocol *)
(* objects are disconnected once each, whatever is done with the others.   *)
(*                                                                         *)
(* The mapping takes the targets of a pool together.  That their entries   *)
(* have one channel is SameChannelIffSameGateway, that a pool has a line   *)
(* exactly while it has leases is EntriesHaveClients with                  *)
(* ClientsAreHolders; both come from the invariant of                      *)
(* ChannelManagerProofs, to which LInv adds that only connected objects    *)
(* have a channel.  The open channels of these pools are their lines, so   *)
(* that what a step does to the lines says what it does to the channels.   *)
(***************************************************************************)
EXTENDS ChannelManagerProofs

LeasesOf(p) == UNION {Holders(k) : k \in PoolTargets(p)}
OnceLeases == [p \in OncePools |-> LeasesOf(p)]
OnceLines == [p \in OncePools |-> Line(p)]
OnceUsing == [s \in Sessions |-> OnceChannel(s)]

Unconnected(s) == pc[s] \notin {"token", "holding"} => channel[s] = NoChannel
LInv == HInv /\ \A s \in Sessions : Unconnected(s)

---------------------------------------------------------------------------
\* Two targets are of one pool if they are the same or share a channel.
LEMMA SamePool ==
    ASSUME NEW j \in Targets, NEW k \in Targets
    PROVE  Pool(j) = Pool(k) <=> j = k \/ ShareLine(j, k)
<1>1. ASSUME j = k \/ ShareLine(j, k) PROVE Pool(j) = Pool(k)
  BY <1>1 DEF ShareLine, Pool
<1>2. ASSUME Pool(j) = Pool(k) PROVE j = k \/ ShareLine(j, k)
  <2>1. j.gw = k.gw /\ j.type = k.type
    <3>1. Pool(j)[1] = j.gw /\ Pool(k)[1] = k.gw
      BY DEF Pool
    <3>2. Pool(j)[2] = j.type /\ Pool(k)[2] = k.type
      BY DEF Pool
    <3> QED BY <1>2, <3>1, <3>2
  <2>2. CASE k.type \in SharedTypes
    BY <2>1, <2>2 DEF ShareLine
  <2>3. CASE k.type \notin SharedTypes
    <3>1. j.fgc = k.fgc
      BY <1>2, <2>1, <2>3 DEF Pool
    <3>2. /\ j = [gw |-> j.gw, type |-> j.type, fgc |-> j.fgc]
          /\ k = [gw |-> k.gw, type |-> k.type, fgc |-> k.fgc]
      BY TargetsAssumption
    <3> QED BY <2>1, <3>1, <3>2
  <2> QED BY <2>2, <2>3
<1> QED
  BY <1>1, <1>2

\* Line, for any contents f of the dictionary.
LineOf(f, p) ==
    LET mapped == {k \in PoolTargets(p) : f[k] # NoChannel}
    IN  IF mapped = {} THEN NoChannel ELSE f[CHOOSE k \in mapped : TRUE]

\* If the registered targets of a pool have one channel, it is its line.
LEMMA LineOfTarget ==
    ASSUME NEW f, NEW k \in Targets, f[k] # NoChannel,
           \A i, j \in Targets : f[i] # NoChannel /\ f[j] # NoChannel =>
               (f[i] = f[j] <=> i = j \/ ShareLine(i, j))
    PROVE  LineOf(f, Pool(k)) = f[k]
<1>1. PICK mapped : mapped = {j \in PoolTargets(Pool(k)) : f[j] # NoChannel}
  OBVIOUS
<1>2. PICK j : j = CHOOSE i \in mapped : TRUE
  OBVIOUS
<1>3. k \in mapped
  BY <1>1 DEF PoolTargets
<1>4. j \in mapped
  BY <1>2, <1>3
<1>5. j \in Targets /\ Pool(j) = Pool(k) /\ f[j] # NoChannel
  BY <1>1, <1>4 DEF PoolTargets
<1>6. f[j] = f[k]
  BY <1>5, SamePool
<1> QED
  BY <1>1, <1>2, <1>3, <1>6 DEF LineOf

\* A pool without registered targets has no line.
LEMMA LineOfNone ==
    ASSUME NEW f, NEW p, \A k \in Targets : f[k] # NoChannel => Pool(k) # p
    PROVE  LineOf(f, p) = NoChannel
<1>1. {k \in PoolTargets(p) : f[k] # NoChannel} = {}
  BY DEF PoolTargets
<1> QED
  BY <1>1 DEF LineOf

\* The line of a pool is the channel of any of its registered targets, before
\* and after a step.
LEMMA LineIs ==
    ASSUME Registry, NEW k \in Targets, Registered(k)
    PROVE  Line(Pool(k)) = gw_channel[k]
<1>1. LineOf(gw_channel, Pool(k)) = gw_channel[k]
  BY LineOfTarget DEF Registry, SameChannelIffSameGateway, Registered
<1> QED
  BY <1>1 DEF Line, LineOf, Registered

\* The same after the step.
LEMMA LineWillBe ==
    ASSUME Registry', NEW k \in Targets, gw_channel'[k] # NoChannel
    PROVE  Line(Pool(k))' = gw_channel'[k]
<1>1. LineOf(gw_channel', Pool(k)) = gw_channel'[k]
  BY LineOfTarget DEF Registry, SameChannelIffSameGateway, Registered
<1> QED
  BY <1>1 DEF Line, LineOf, Registered, PoolTargets, Pool

\* No registered target, no line.
LEMMA NoLine ==
    ASSUME NEW p, \A k \in Targets : Registered(k) => Pool(k) # p
    PROVE  Line(p) = NoChannel
<1>1. LineOf(gw_channel, p) = NoChannel
  BY LineOfNone DEF Registered
<1> QED
  BY <1>1 DEF Line, LineOf, Registered

\* The same after the step.
LEMMA NoLineThen ==
    ASSUME NEW p, \A k \in Targets : gw_channel'[k] # NoChannel => Pool(k) # p
    PROVE  Line(p)' = NoChannel
<1>1. LineOf(gw_channel', p) = NoChannel
  BY LineOfNone
<1> QED
  BY <1>1 DEF Line, LineOf, Registered, PoolTargets

\* A session leases the pool of its target, while it is counted there.
LEMMA LeasesAre ==
    ASSUME NEW p, ThreadType
    PROVE  LeasesOf(p) = {s \in Sessions : pc[s] \in Counted /\ Pool(target[s]) = p}
BY DEF LeasesOf, PoolTargets, Holders, Counted, ThreadType

\* The targets of these pools are of those disconnected once.
LEMMA OfOncePools ==
    /\ \A k \in Targets : Pool(k) \in OncePools => k \in Once
    /\ \A p \in OncePools : PoolTargets(p) \subseteq Once
BY DEF OncePools, Once, PoolTargets

\* A target is registered exactly while somebody holds it.
LEMMA HeldIsRegistered ==
    ASSUME HInv, NEW k \in Once
    PROVE  Registered(k) <=> Holders(k) # {}
<1>1. /\ Registered(k) <=> clients[k] > 0
      /\ clients[k] = Cardinality(Holders(k))
      /\ clients[k] \in Nat
  BY DEF HInv, IInv, Registry, RegistryType, EntriesHaveClients, ClientsAreHolders,
     Once
<1> QED
  BY <1>1, HoldersFinite, FS_EmptySet

\* So a pool without leases has no line.
LEMMA NoLeaseNoLine ==
    ASSUME HInv, NEW p \in OncePools, LeasesOf(p) = {}
    PROVE  \A k \in Targets : Registered(k) => Pool(k) # p
BY HeldIsRegistered, OfOncePools DEF LeasesOf, PoolTargets

\* The open channels of these pools are their lines.
OpenIsLines == OnceOpen = {c \in Channels : \E p \in OncePools : Line(p) = c}

\* That is what the registry's consistency means for them.
LEMMA OpenAreLines == Registry => OpenIsLines
<1> SUFFICES ASSUME Registry PROVE OpenIsLines
  OBVIOUS
<1>1. ASSUME NEW c \in OnceOpen PROVE \E p \in OncePools : Line(p) = c
  <2>1. PICK k \in Targets : gw_channel[k] = c /\ Pool(k) \in OncePools
    BY DEF OnceOpen, Registry, OpenIsRegistered, MappedTo
  <2>2. Line(Pool(k)) = c
    BY <2>1, LineIs, NoneAssumption DEF OnceOpen, Registry, RegistryType, Registered
  <2> QED BY <2>1, <2>2
<1>2. ASSUME NEW p \in OncePools, Line(p) \in Channels PROVE Line(p) \in OnceOpen
  <2>1. PICK k \in Targets : Registered(k) /\ Pool(k) = p
    BY <1>2, NoLine, NoneAssumption
  <2>2. gw_channel[k] = Line(p) /\ k \in MappedTo(Line(p))
    BY <2>1, LineIs DEF MappedTo
  <2>3. \A j \in MappedTo(Line(p)) : Pool(j) = p
    BY <1>2, <2>1, <2>2, SamePool, NoneAssumption
       DEF MappedTo, Registry, SameChannelIffSameGateway, Registered
  <2> QED BY <1>2, <2>2, <2>3 DEF OnceOpen, Registry, OpenIsRegistered
<1>3. OnceOpen \subseteq Channels
  BY DEF OnceOpen, Registry, RegistryType
<1> QED
  BY <1>1, <1>2, <1>3 DEF OpenIsLines

\* The same after the step.
LEMMA OpenThenAreLines == Registry' => OpenIsLines'
BY OpenAreLines, PTL

\* No two of them have one line.
LEMMA LinesDiffer ==
    ASSUME Registry, NEW p \in OncePools, NEW q \in OncePools,
           Line(p) = Line(q), Line(p) # NoChannel
    PROVE  p = q
<1>1. PICK j \in Targets : Registered(j) /\ Pool(j) = p
  BY NoLine
<1>2. PICK k \in Targets : Registered(k) /\ Pool(k) = q
  BY NoLine
<1>3. gw_channel[j] = gw_channel[k]
  BY <1>1, <1>2, LineIs
<1> QED
  BY <1>1, <1>2, <1>3, SamePool DEF Registry, SameChannelIffSameGateway

\* So what a step does to the lines it does to the open channels.
LEMMA OpenFollowsLines ==
    ASSUME Registry, Registry'
    PROVE  /\ OnceLines' = OnceLines => OnceOpen' = OnceOpen
           /\ \A p \in OncePools, c \in Channels :
                OnceLines[p] = NoChannel /\ OnceLines' = [OnceLines EXCEPT ![p] = c]
                    => OnceOpen' = OnceOpen \cup {c}
           /\ \A p \in OncePools :
                OnceLines[p] # NoChannel /\ OnceLines' = [OnceLines EXCEPT ![p] = NoChannel]
                    => OnceOpen' = OnceOpen \ {OnceLines[p]}
<1>1. /\ OnceOpen = {c \in Channels : \E p \in OncePools : OnceLines[p] = c}
      /\ OnceOpen' = {c \in Channels : \E p \in OncePools : OnceLines'[p] = c}
  <2>1. OnceOpen = {c \in Channels : \E p \in OncePools : OnceLines[p] = c}
    BY OpenAreLines DEF OnceLines, OpenIsLines
  <2>2. OnceOpen' = {c \in Channels : \E p \in OncePools : OnceLines'[p] = c}
    BY OpenThenAreLines DEF OnceLines, OpenIsLines
  <2> QED BY <2>1, <2>2
<1>2. \A p, q \in OncePools :
        OnceLines[p] = OnceLines[q] /\ OnceLines[p] # NoChannel => p = q
  BY LinesDiffer DEF OnceLines
<1>3. OnceLines = [p \in OncePools |-> OnceLines[p]]
  BY DEF OnceLines
<1> QED
  BY <1>1, <1>2, <1>3, NoneAssumption

---------------------------------------------------------------------------
\* Nobody has a channel but the connected.
LEMMA InitLeases == Init => LInv
BY InitHolders DEF Init, LInv, Unconnected

\* A step that connects hands out the channel, one that disconnects takes it.
LEMMA StepLeases ==
    ASSUME LInv, [Next]_vars
    PROVE  LInv'
<1>1. HInv' /\ ThreadType
  BY StepHolders DEF LInv, HInv, IInv
<1>2. ASSUME NEW s \in Sessions PROVE Unconnected(s)'
  BY <1>1 DEF LInv, Unconnected, Next, vars, ThreadType, Connect, AddChannel,
     BeginCreate, CreateSucceeds, CreateFails, ReadBack, ReadBackFails, TokenSet,
     TokenFails, Disconnect, DisconnectAgain, Drop
<1> QED
  BY <1>1, <1>2 DEF LInv

---------------------------------------------------------------------------
(* Each step is a step of the leases, or none.                             *)

\* The refinement mapping, by name.
LEMMA Mapping ==
    /\ UNCHANGED Leases!vars
         <=> UNCHANGED <<OnceLeases, OnceLines, OnceOpen, OnceUsing>>
    /\ \A s, p : Leases!Lease(s, p) <=>
         /\ \A q \in OncePools : s \notin OnceLeases[q]
         /\ OnceLeases' = [OnceLeases EXCEPT ![p] = @ \cup {s}]
         /\ \/ /\ OnceLines[p] # NoChannel
               /\ UNCHANGED <<OnceLines, OnceOpen>>
            \/ /\ OnceLines[p] = NoChannel
               /\ \E c \in Channels \ OnceOpen :
                    /\ \A r \in Sessions : OnceUsing[r] # c
                    /\ OnceLines' = [OnceLines EXCEPT ![p] = c]
                    /\ OnceOpen' = OnceOpen \cup {c}
         /\ UNCHANGED OnceUsing
    /\ \A s, p : Leases!Hand(s, p) <=>
         /\ s \in OnceLeases[p]
         /\ OnceUsing[s] = NoChannel
         /\ OnceUsing' = [OnceUsing EXCEPT ![s] = OnceLines[p]]
         /\ UNCHANGED <<OnceLeases, OnceLines, OnceOpen>>
    /\ \A s, p : Leases!Release(s, p) <=>
         /\ s \in OnceLeases[p]
         /\ OnceUsing[s] = OnceLines[p]
         /\ OnceLeases' = [OnceLeases EXCEPT ![p] = @ \ {s}]
         /\ IF OnceLeases[p] = {s}
            THEN /\ OnceLines' = [OnceLines EXCEPT ![p] = NoChannel]
                 /\ OnceOpen' = OnceOpen \ {OnceLines[p]}
            ELSE UNCHANGED <<OnceLines, OnceOpen>>
         /\ OnceUsing' = [OnceUsing EXCEPT ![s] = NoChannel]
    /\ Leases!Next <=> \E s \in Sessions, p \in OncePools :
         Leases!Lease(s, p) \/ Leases!Hand(s, p) \/ Leases!Release(s, p)
BY DEF OnceLeases, OnceLines, OnceUsing, LeasesOf, Leases!vars, Leases!Lease,
   Leases!Hand, Leases!Release, Leases!Next

\* The leases change with the threads that are counted.
LEMMA SameLeases ==
    ASSUME ThreadType, ThreadType',
           \A r \in Sessions : /\ pc'[r] \in Counted <=> pc[r] \in Counted
                               /\ pc[r] \in Counted => target'[r] = target[r]
    PROVE  OnceLeases' = OnceLeases
<1>1. \A p \in OncePools : LeasesOf(p)' = LeasesOf(p)
  BY LeasesAre DEF LeasesOf, PoolTargets, Holders, Counted, ThreadType
<1> QED
  BY <1>1 DEF OnceLeases

\* One session more.
LEMMA OneLeaseMore ==
    ASSUME ThreadType, ThreadType', NEW s \in Sessions,
           NEW p \in OncePools, p = Pool(target[s]),
           pc[s] \notin Counted, pc' = [pc EXCEPT ![s] = "added"], target' = target
    PROVE  /\ \A q \in OncePools : s \notin OnceLeases[q]
           /\ OnceLeases' = [OnceLeases EXCEPT ![p] = @ \cup {s}]
<1>2. \A q : s \notin LeasesOf(q)
  BY LeasesAre
<1>3. LeasesOf(p)' = LeasesOf(p) \cup {s}
  BY DEF LeasesOf, PoolTargets, Holders, Counted, ThreadType
<1>4. \A q \in OncePools : q # p => LeasesOf(q)' = LeasesOf(q)
  BY DEF LeasesOf, PoolTargets, Holders, Counted, ThreadType
<1> QED
  BY <1>2, <1>3, <1>4 DEF OnceLeases

\* One session less.
LEMMA OneLeaseLess ==
    ASSUME ThreadType, ThreadType', NEW s \in Sessions,
           NEW p \in OncePools, p = Pool(target[s]),
           NEW state, state \notin Counted,
           pc[s] \in Counted, pc' = [pc EXCEPT ![s] = state], target' = target
    PROVE  /\ s \in OnceLeases[p]
           /\ OnceLeases' = [OnceLeases EXCEPT ![p] = @ \ {s}]
<1>2. s \in LeasesOf(p)
  BY LeasesAre DEF ThreadType
<1>3. LeasesOf(p)' = LeasesOf(p) \ {s}
  BY DEF LeasesOf, PoolTargets, Holders, Counted, ThreadType
<1>4. \A q \in OncePools : q # p => LeasesOf(q)' = LeasesOf(q)
  BY DEF LeasesOf, PoolTargets, Holders, Counted, ThreadType
<1> QED
  BY <1>2, <1>3, <1>4 DEF OnceLeases

\* The lines change with the dictionary.
LEMMA SameLines ==
    ASSUME UNCHANGED gw_channel
    PROVE  OnceLines' = OnceLines
BY DEF OnceLines, Line, PoolTargets, Registered

\* A pool that keeps a registered target with its channel keeps its line.
LEMMA LineKept ==
    ASSUME Registry, Registry', NEW k \in Targets, Registered(k),
           gw_channel'[k] = gw_channel[k]
    PROVE  Line(Pool(k))' = Line(Pool(k))
BY LineIs, LineWillBe DEF Registered

\* What a step does to the channel of one object.
LEMMA UsingFollows ==
    ASSUME ThreadType, NEW s \in Sessions, target' = target, NEW c,
           channel' = [channel EXCEPT ![s] = c]
    PROVE  /\ Pool(target[s]) \in OncePools => OnceUsing' = [OnceUsing EXCEPT ![s] = c]
           /\ Pool(target[s]) \notin OncePools => OnceUsing' = OnceUsing
BY DEF OnceUsing, OnceChannel, ThreadType

\* Everything else of connecting: the leases do not notice.
LEMMA ConnectingIsNothing ==
    ASSUME LInv, LInv', NEW s \in Sessions,
           \/ Connect(s) \/ BeginCreate(s) \/ CreateFails(s) \/ TokenSet(s) \/ Drop(s)
    PROVE  UNCHANGED <<OnceLeases, OnceLines, OnceOpen, OnceUsing>>
<1>1. ThreadType /\ ThreadType' /\ Registry /\ Registry' /\ Unconnected(s)
  BY DEF LInv, HInv, IInv
<1>2. OnceLeases' = OnceLeases
  BY <1>1, SameLeases DEF Connect, BeginCreate, CreateFails, TokenSet, Drop,
     ThreadType, Counted
<1>3. OnceLines' = OnceLines
  BY SameLines DEF Connect, BeginCreate, CreateFails, TokenSet, Drop, registryVars
<1>4. OnceUsing' = OnceUsing
  <2>1. channel' = channel
    BY DEF Connect, BeginCreate, CreateFails, TokenSet, Drop
  <2>2. \A r \in Sessions : target'[r] = target[r] \/ (r = s /\ channel[r] = NoChannel)
    BY <1>1 DEF Connect, BeginCreate, CreateFails, TokenSet, Drop, Unconnected, ThreadType
  <2> QED BY <2>1, <2>2 DEF OnceUsing, OnceChannel
<1> QED
  BY <1>1, <1>2, <1>3, <1>4, OpenFollowsLines

\* What is done with an object of another pool is not noticed either.
LEMMA OtherPoolIsNothing ==
    ASSUME LInv, LInv', NEW s \in Sessions, Pool(target[s]) \notin OncePools,
           target' = target,
           \A r \in Sessions : r # s => pc'[r] = pc[r] /\ channel'[r] = channel[r],
           \A k \in Targets : k # target[s] => gw_channel'[k] = gw_channel[k]
    PROVE  UNCHANGED <<OnceLeases, OnceLines, OnceOpen, OnceUsing>>
<1>1. ThreadType /\ ThreadType' /\ Registry /\ Registry'
  BY DEF LInv, HInv, IInv
<1>2. OnceLeases' = OnceLeases
  <2>1. ASSUME NEW p \in OncePools PROVE LeasesOf(p)' = LeasesOf(p)
    <3>1. \A k \in PoolTargets(p) : Holders(k)' = Holders(k)
      BY DEF PoolTargets, Holders
    <3> QED BY <3>1 DEF LeasesOf, PoolTargets
  <2> QED BY <2>1 DEF OnceLeases
<1>3. OnceLines' = OnceLines
  <2>1. ASSUME NEW p \in OncePools PROVE Line(p)' = Line(p)
    <3>1. \A k \in Targets : Pool(k) = p => gw_channel'[k] = gw_channel[k]
      OBVIOUS
    <3>2. CASE \E k \in Targets : Registered(k) /\ Pool(k) = p
      BY <1>1, <3>1, <3>2, LineKept
    <3>3. CASE \A k \in Targets : Registered(k) => Pool(k) # p
      <4>1. \A k \in Targets : gw_channel'[k] # NoChannel => Pool(k) # p
        BY <3>1, <3>3 DEF Registered
      <4> QED BY <3>3, <4>1, NoLine, NoLineThen
    <3> QED BY <3>2, <3>3
  <2> QED BY <2>1 DEF OnceLines
<1>4. OnceUsing' = OnceUsing
  BY DEF OnceUsing, OnceChannel
<1> QED
  BY <1>1, <1>2, <1>3, <1>4, OpenFollowsLines

\* add_channel finds a channel: a lease of a pool that has a line.
LEMMA AddIsLease ==
    ASSUME LInv, LInv', NEW s \in Sessions, AddChannel(s),
           NEW p \in OncePools, p = Pool(target[s])
    PROVE  Leases!Lease(s, p)
<1>i. /\ ThreadType /\ ThreadType' /\ Registry /\ Registry'
      /\ target[s] \in Targets
      /\ gw_channel \in [Targets -> Channels \cup {NoChannel}]
  BY DEF LInv, HInv, IInv, ThreadType, Registry, RegistryType
<1>1. PICK k : k = target[s] /\ p = Pool(k)
  OBVIOUS
<1>2. /\ \A q \in OncePools : s \notin OnceLeases[q]
      /\ OnceLeases' = [OnceLeases EXCEPT ![p] = @ \cup {s}]
  BY <1>i, <1>1, OneLeaseMore DEF AddChannel, Counted
<1>3. /\ OnceUsing' = OnceUsing
      /\ \A j \in Targets : Registered(j) => gw_channel'[j] = gw_channel[j]
      /\ \A j \in Targets : ~Registered(j) => gw_channel'[j] = gw_channel[j] \/ j = k
      /\ \E j \in Targets : Registered(j) /\ Pool(j) = p
  <2>1. CASE AddClient(k)
    BY <1>i, <1>1, <2>1 DEF AddClient, AddChannel, OnceUsing, OnceChannel
  <2>2. CASE ShareChannel(k)
    <3>1. PICK j \in Siblings(k) : gw_channel' = [gw_channel EXCEPT ![k] = gw_channel[j]]
      BY <2>2 DEF ShareChannel
    <3>2. j \in Targets /\ Registered(j) /\ Pool(j) = p
      BY <1>i, <1>1, SamePool DEF Siblings
    <3> QED BY <1>i, <1>1, <2>2, <3>1, <3>2
         DEF AddChannel, ShareChannel, Registered, OnceUsing, OnceChannel
  <2> QED BY <1>1, <2>1, <2>2 DEF AddChannel
<1>4. ASSUME NEW q \in OncePools PROVE Line(q)' = Line(q)
  <2>1. CASE \E j \in Targets : Registered(j) /\ Pool(j) = q
    BY <1>i, <1>3, <2>1, LineKept
  <2>2. CASE \A j \in Targets : Registered(j) => Pool(j) # q
    <3>1. q # p
      BY <1>3, <2>2
    <3>2. \A j \in Targets : gw_channel'[j] # NoChannel => Pool(j) # q
      BY <1>1, <1>3, <2>2, <3>1 DEF Registered
    <3> QED BY <2>2, <3>2, NoLine, NoLineThen
  <2> QED BY <2>1, <2>2
<1>5. OnceLines' = OnceLines
  BY <1>4 DEF OnceLines
<1>6. OnceLines[p] # NoChannel
  BY <1>3, <1>i, LineIs DEF OnceLines, Registered
<1>7. OnceOpen' = OnceOpen
  BY <1>i, <1>5, OpenFollowsLines
<1> QED
  BY <1>1, <1>2, <1>3, <1>5, <1>6, <1>7, Mapping

\* A channel was created: the first lease of a pool, with a new line.
LEMMA CreateIsLease ==
    ASSUME LInv, LInv', NEW s \in Sessions, CreateSucceeds(s),
           NEW p \in OncePools, p = Pool(target[s])
    PROVE  Leases!Lease(s, p)
<1>i. /\ ThreadType /\ ThreadType' /\ Registry /\ Registry' /\ LockIsCreator
      /\ target[s] \in Targets
      /\ gw_channel \in [Targets -> Channels \cup {NoChannel}]
  BY DEF LInv, HInv, IInv, ThreadType, Registry, RegistryType
<1>1. PICK k : k = target[s] /\ p = Pool(k)
  OBVIOUS
<1>2. /\ \A q \in OncePools : s \notin OnceLeases[q]
      /\ OnceLeases' = [OnceLeases EXCEPT ![p] = @ \cup {s}]
  BY <1>i, <1>1, OneLeaseMore DEF CreateSucceeds, Counted
<1>3. PICK c \in Channels : InstallChannel(k, c)
  BY <1>1 DEF CreateSucceeds
<1>4. /\ c \notin OnceOpen /\ \A r \in Sessions : OnceUsing[r] # c
      /\ gw_channel' = [gw_channel EXCEPT ![k] = c]
      /\ OnceUsing' = OnceUsing
  BY <1>3, NoneAssumption DEF InstallChannel, Unreferenced, CreateSucceeds, OnceOpen,
     OnceUsing, OnceChannel
<1>5. \A j \in Targets : Registered(j) => Pool(j) # p
  BY <1>i, <1>1, SamePool DEF CreateSucceeds, LockIsCreator, Siblings
<1>6. OnceLines[p] = NoChannel
  BY <1>5, NoLine DEF OnceLines
<1>7. Line(p)' = c
  <2>1. gw_channel'[k] = c /\ c # NoChannel /\ k \in Targets
    BY <1>i, <1>1, <1>4, NoneAssumption
  <2>2. Line(Pool(k))' = gw_channel'[k]
    BY <1>i, <2>1, LineWillBe
  <2> QED BY <1>1, <2>1, <2>2 DEF Line
<1>8. ASSUME NEW q \in OncePools, q # p PROVE Line(q)' = Line(q)
  <2>1. CASE \E j \in Targets : Registered(j) /\ Pool(j) = q
    <3>1. PICK j \in Targets : Registered(j) /\ Pool(j) = q
      BY <2>1
    <3>2. gw_channel'[j] = gw_channel[j]
      BY <1>i, <1>1, <1>4, <1>8, <3>1
    <3> QED BY <1>i, <3>1, <3>2, LineKept
  <2>2. CASE \A j \in Targets : Registered(j) => Pool(j) # q
    <3>1. \A j \in Targets : gw_channel'[j] # NoChannel => Pool(j) # q
      BY <1>i, <1>1, <1>4, <1>8, <2>2 DEF Registered
    <3> QED BY <2>2, <3>1, NoLine, NoLineThen
  <2> QED BY <2>1, <2>2
<1>9. OnceLines' = [OnceLines EXCEPT ![p] = c]
  BY <1>7, <1>8 DEF OnceLines
<1>10. OnceOpen' = OnceOpen \cup {c}
  BY <1>i, <1>6, <1>9, OpenFollowsLines
<1> QED
  BY <1>1, <1>2, <1>4, <1>6, <1>9, <1>10, Mapping

\* get_channel returns: the line of the pool is handed out.
LEMMA ReadBackIsHand ==
    ASSUME LInv, LInv', NEW s \in Sessions, ReadBack(s),
           NEW p \in OncePools, p = Pool(target[s])
    PROVE  Leases!Hand(s, p)
<1>i. /\ ThreadType /\ ThreadType' /\ Registry /\ Registry' /\ Unconnected(s)
      /\ target[s] \in Targets
  BY DEF LInv, HInv, IInv, ThreadType
<1>1. s \in OnceLeases[p]
  BY <1>i, LeasesAre DEF OnceLeases, ReadBack, Counted
<1>2. OnceUsing[s] = NoChannel
  BY <1>i DEF ReadBack, Unconnected, OnceUsing, OnceChannel
<1>3. OnceLines[p] = gw_channel[target[s]]
  BY <1>i, LineIs DEF ReadBack, OnceLines
<1>4. OnceUsing' = [OnceUsing EXCEPT ![s] = OnceLines[p]]
  BY <1>i, <1>3, UsingFollows DEF ReadBack
<1>5. UNCHANGED <<OnceLeases, OnceLines>>
  BY <1>i, SameLeases, SameLines DEF ReadBack, registryVars, ThreadType, Counted
<1>6. OnceOpen' = OnceOpen
  BY <1>i, <1>5, OpenFollowsLines
<1> QED
  BY <1>1, <1>2, <1>4, <1>5, <1>6, Mapping

\* free_channel: a release, which closes the line with the last lease.
LEMMA FreeIsRelease ==
    ASSUME LInv, LInv', NEW s \in Sessions, TokenFails(s) \/ Disconnect(s),
           NEW p \in OncePools, p = Pool(target[s])
    PROVE  Leases!Release(s, p)
<1>i. /\ ThreadType /\ ThreadType' /\ Registry /\ Registry' /\ HInv /\ HInv'
      /\ target[s] \in Targets
      /\ gw_channel \in [Targets -> Channels \cup {NoChannel}]
  BY DEF LInv, HInv, IInv, ThreadType, Registry, RegistryType
<1>1. PICK k, c : k = target[s] /\ p = Pool(k) /\ c = gw_channel[k]
  OBVIOUS
<1>o. \A j \in Targets : Pool(j) = p => j \in Once
  BY OfOncePools
<1>2. /\ pc[s] \in {"token", "holding"} /\ pc[s] \in Counted /\ target' = target
      /\ channel' = [channel EXCEPT ![s] = NoChannel]
      /\ FreeChannel(k)
      /\ \E state \in {"idle", "gone"} : pc' = [pc EXCEPT ![s] = state]
  BY <1>1 DEF TokenFails, Disconnect, Counted
<1>3. /\ s \in OnceLeases[p]
      /\ OnceLeases' = [OnceLeases EXCEPT ![p] = @ \ {s}]
  BY <1>i, <1>1, <1>2, OneLeaseLess DEF Counted
<1>4. /\ Registered(k) /\ c \in open /\ channel[s] = c /\ k \in Targets
      /\ Line(p) = c /\ c # NoChannel
  BY <1>i, <1>o, <1>1, <1>2, HolderIsRegistered, LineIs
     DEF HInv, HolderChannelIsOpen, Registered
<1>5. /\ \A j \in Targets : j # k => gw_channel'[j] = gw_channel[j]
      /\ gw_channel'[k] = c \/ gw_channel'[k] = NoChannel
  BY <1>i, <1>1, <1>4, <1>2 DEF FreeChannel, RemoveTarget
<1>u. /\ OnceUsing' = [OnceUsing EXCEPT ![s] = NoChannel]
      /\ OnceUsing[s] = c /\ OnceLines[p] = c
  BY <1>i, <1>1, <1>2, <1>4, UsingFollows DEF OnceUsing, OnceChannel, OnceLines
\* The pool has leases left exactly if one of its targets is still registered.
<1>6. CASE OnceLeases[p] = {s}
  <2>1. \A j \in Targets : gw_channel'[j] # NoChannel => Pool(j) # p
    <3>1. \A r \in Sessions : pc'[r] \in Counted => Pool(target[r]) # p
      BY <1>i, <1>2, <1>3, <1>6, LeasesAre DEF OnceLeases, ThreadType, Counted
    <3> SUFFICES ASSUME NEW j \in Targets, Pool(j) = p PROVE gw_channel'[j] = NoChannel
      OBVIOUS
    <3>2. Holders(j)' = {}
      BY <1>2, <3>1 DEF Holders, Counted
    <3>3. clients'[j] = Cardinality(Holders(j)') /\ clients'[j] \in Nat
      BY <1>i, <1>o DEF HInv, ClientsAreHolders, Registry, RegistryType
    <3> QED BY <1>i, <3>2, <3>3, FS_EmptySet DEF Registry, EntriesHaveClients, Registered
  <2>2. OnceLines' = [OnceLines EXCEPT ![p] = NoChannel]
    <3>1. Line(p)' = NoChannel
      BY <2>1, NoLineThen
    <3>2. ASSUME NEW q \in OncePools, q # p PROVE Line(q)' = Line(q)
      <4>1. CASE \E j \in Targets : Registered(j) /\ Pool(j) = q
        BY <1>i, <1>1, <1>5, <3>2, <4>1, LineKept
      <4>2. CASE \A j \in Targets : Registered(j) => Pool(j) # q
        <5>1. \A j \in Targets : gw_channel'[j] # NoChannel => Pool(j) # q
          BY <1>1, <1>5, <3>2, <4>2 DEF Registered
        <5> QED BY <4>2, <5>1, NoLine, NoLineThen
      <4> QED BY <4>1, <4>2
    <3> QED BY <1>3, <3>1, <3>2 DEF OnceLines
  <2>3. OnceOpen' = OnceOpen \ {OnceLines[p]}
    BY <1>i, <1>4, <1>u, <2>2, OpenFollowsLines
  <2> QED BY <1>3, <1>6, <1>u, <2>2, <2>3, Mapping
<1>7. CASE OnceLeases[p] # {s}
  <2>1. PICK r \in Sessions : r # s /\ pc[r] \in Counted /\ Pool(target[r]) = p
    BY <1>i, <1>3, <1>7, LeasesAre DEF OnceLeases
  <2>2. PICK j : j = target[r]
    OBVIOUS
  <2>3. /\ j \in Targets /\ Registered(j) /\ Pool(j) = p
        /\ gw_channel[j] = c
    BY <1>i, <1>o, <1>1, <1>4, <2>1, <2>2, HolderIsRegistered, LineIs DEF ThreadType
  <2>4. r \in Holders(j)'
    BY <1>2, <1>i, <2>1, <2>2 DEF Holders, Counted, ThreadType
  <2>5. gw_channel'[j] # NoChannel
    <3>1. clients'[j] = Cardinality(Holders(j)') /\ clients'[j] \in Nat
      BY <1>i, <1>o, <2>3 DEF HInv, ClientsAreHolders, Registry, RegistryType
    <3>2. IsFiniteSet(Holders(j)')
      BY FiniteAssumption, FS_Subset DEF Holders
    <3>3. clients'[j] > 0
      BY <2>4, <3>1, <3>2, FS_EmptySet
    <3> QED BY <1>i, <2>3, <3>3 DEF Registry, EntriesHaveClients, Registered
  <2>6. gw_channel'[j] = c
    BY <1>5, <2>3, <2>5
  <2>7. ASSUME NEW q \in OncePools PROVE Line(q)' = Line(q)
    <3>1. CASE q = p
      BY <1>i, <2>3, <2>6, <3>1, LineKept
    <3>2. CASE q # p /\ \E i \in Targets : Registered(i) /\ Pool(i) = q
      BY <1>i, <1>1, <1>5, <3>2, LineKept
    <3>3. CASE q # p /\ \A i \in Targets : Registered(i) => Pool(i) # q
      <4>1. \A i \in Targets : gw_channel'[i] # NoChannel => Pool(i) # q
        BY <1>1, <1>5, <3>3 DEF Registered
      <4> QED BY <3>3, <4>1, NoLine, NoLineThen
    <3> QED BY <3>1, <3>2, <3>3
  <2>8. OnceLines' = OnceLines
    BY <2>7 DEF OnceLines
  <2>9. OnceOpen' = OnceOpen
    BY <1>i, <2>8, OpenFollowsLines
  <2> QED BY <1>3, <1>7, <1>u, <2>8, <2>9, Mapping
<1> QED
  BY <1>6, <1>7

\* A step of the registry is a step of the leases, or changes nothing of them.
LEMMA StepIsLeaseStep ==
    ASSUME LInv, LInv', [Next]_vars
    PROVE  [Leases!Next]_Leases!vars
<1>i. ThreadType /\ ThreadType' /\ IInv
  BY DEF LInv, HInv, IInv
<1>1. ASSUME NEW s \in Sessions,
             \/ Connect(s) \/ BeginCreate(s) \/ CreateFails(s) \/ TokenSet(s) \/ Drop(s)
      PROVE  UNCHANGED Leases!vars
  BY <1>1, ConnectingIsNothing, Mapping
<1>2. ASSUME NEW s \in Sessions, Pool(target[s]) \in OncePools,
             \/ AddChannel(s) \/ CreateSucceeds(s) \/ ReadBack(s)
             \/ TokenFails(s) \/ Disconnect(s)
      PROVE  Leases!Next
  <2>1. PICK p \in OncePools : p = Pool(target[s])
    BY <1>2
  <2> QED BY <1>2, <2>1, AddIsLease, CreateIsLease, ReadBackIsHand, FreeIsRelease, Mapping
<1>3. ASSUME NEW s \in Sessions, Pool(target[s]) \in OncePools,
             ReadBackFails(s) \/ DisconnectAgain(s)
      PROVE  FALSE
  <2>1. target[s] \in Once
    BY <1>i, <1>3, OfOncePools DEF ThreadType
  <2> QED BY <1>3, <2>1 DEF ReadBackFails, DisconnectAgain, LInv, HInv,
       HolderChannelIsOpen, Once
<1>4. ASSUME NEW s \in Sessions, Pool(target[s]) \notin OncePools,
             \/ AddChannel(s) \/ CreateSucceeds(s) \/ ReadBack(s) \/ ReadBackFails(s)
             \/ TokenFails(s) \/ Disconnect(s) \/ DisconnectAgain(s)
      PROVE  UNCHANGED Leases!vars
  <2>1. /\ target' = target
        /\ \A r \in Sessions : r # s => pc'[r] = pc[r] /\ channel'[r] = channel[r]
    BY <1>i, <1>4 DEF AddChannel, CreateSucceeds, ReadBack, ReadBackFails, TokenFails,
       Disconnect, DisconnectAgain, ThreadType
  <2>2. \A k \in Targets : k # target[s] => gw_channel'[k] = gw_channel[k]
    BY <1>i, <1>4 DEF AddChannel, AddClient, ShareChannel, CreateSucceeds,
       InstallChannel, ReadBack, ReadBackFails, TokenFails, Disconnect,
       DisconnectAgain, FreeChannel, RemoveTarget, registryVars, IInv, Registry,
       RegistryType
  <2> QED BY <1>4, <2>1, <2>2, OtherPoolIsNothing, Mapping
<1>5. ASSUME UNCHANGED vars PROVE UNCHANGED Leases!vars
  <2>1. OnceLeases' = OnceLeases
    BY <1>5 DEF vars, OnceLeases, LeasesOf, PoolTargets, Holders
  <2>2. UNCHANGED <<gw_channel, OnceOpen, OnceUsing>>
    BY <1>5 DEF vars, registryVars, OnceOpen, MappedTo, OnceUsing, OnceChannel
  <2> QED BY <2>1, <2>2, SameLines, Mapping
<1> QED
  BY <1>1, <1>2, <1>3, <1>4, <1>5 DEF Next

\* At first there are no leases, and no lines.
LEMMA StartIsLeaseStart == Init => Leases!Init
<1> SUFFICES ASSUME Init PROVE Leases!Init
  OBVIOUS
<1>1. \A k \in Targets : Holders(k) = {}
  BY DEF Init, Holders
<1>2. \A p : LeasesOf(p) = {}
  BY <1>1 DEF LeasesOf, PoolTargets
<1>3. \A p : Line(p) = NoChannel
  BY NoLine DEF Init, Registered
<1> QED
  BY <1>2, <1>3 DEF Init, Leases!Init, LeasesOf, OnceOpen, OnceChannel

\* The registry with its two counters, its sharing rule and its unlocked return
\* does what ChannelLeases says for every pool none of whose objects is
\* disconnected twice: the first lease opens a line, every other gets the same,
\* and the line is closed with the last, for any targets, sessions and channels.
THEOREM RegistryImplementsLeases == Spec => ImplementsLeases
<1>1. LInv /\ [Next]_vars => LInv'
  BY StepLeases
<1>2. LInv /\ LInv' /\ [Next]_vars => [Leases!Next]_Leases!vars
  BY StepIsLeaseStep
<1> QED
  BY <1>1, <1>2, InitLeases, StartIsLeaseStart, PTL
     DEF Spec, ImplementsLeases, Leases!Spec
============================================================================
