----------------------- MODULE ChannelManagerProofs -----------------------
(***************************************************************************)
(* Proofs about ChannelManager, for any number of targets, sessions and    *)
(* channels.                                                               *)
(*                                                                         *)
(* The invariant is built in two layers.  Registry is what the dictionaries*)
(* satisfy whatever the callers do; each registry operation preserves it   *)
(* (the four lemmas), given for InstallChannel that the target is not      *)
(* registered and has no siblings, which LockIsCreator supplies.           *)
(***************************************************************************)
EXTENDS ChannelManager, FiniteSetTheorems, TLAPS

RegistryType ==
    /\ gw_channel \in [Targets -> Channels \cup {NoChannel}]
    /\ clients \in [Targets -> Nat]
    /\ ref_count \in [Channels -> Nat]
    /\ open \in SUBSET Channels

Registry ==
    /\ RegistryType
    /\ EntriesHaveClients
    /\ RefCountIsTargets
    /\ OpenIsRegistered
    /\ SameChannelIffSameGateway

---------------------------------------------------------------------------
\* Going through one channel is symmetric and transitive.
LEMMA ShareLineEquivalence ==
    /\ \A j, k : ShareLine(j, k) => ShareLine(k, j)
    /\ \A i, j, k : ShareLine(i, j) /\ ShareLine(j, k) => ShareLine(i, k)
BY DEF ShareLine

\* The targets of a channel are finitely many.
LEMMA MappedToFinite ==
    ASSUME NEW c
    PROVE  IsFiniteSet(MappedTo(c))
BY FiniteAssumption, FS_Subset DEF MappedTo

\* One more target for a channel adds one to the size of its targets.
LEMMA MapOneMore ==
    ASSUME NEW k \in Targets, NEW c \in Channels, RegistryType,
           gw_channel[k] # c, gw_channel' = [gw_channel EXCEPT ![k] = c]
    PROVE  Cardinality(MappedTo(c))' = Cardinality(MappedTo(c)) + 1
<1>1. MappedTo(c)' = MappedTo(c) \cup {k} /\ k \notin MappedTo(c)
  BY DEF MappedTo, RegistryType
<1> QED
  BY <1>1, MappedToFinite, FS_AddElement

\* Taking a target from its channel takes one from the size of its targets.
LEMMA MapOneLess ==
    ASSUME NEW k \in Targets, NEW c \in Channels, RegistryType,
           gw_channel[k] = c, gw_channel' = [gw_channel EXCEPT ![k] = NoChannel]
    PROVE  Cardinality(MappedTo(c))' = Cardinality(MappedTo(c)) - 1
<1>1. MappedTo(c)' = MappedTo(c) \ {k} /\ k \in MappedTo(c)
  BY NoneAssumption DEF MappedTo, RegistryType
<1> QED
  BY <1>1, MappedToFinite, FS_RemoveElement

\* A channel that neither gains nor loses the target keeps its targets.
LEMMA MapOthersSame ==
    ASSUME NEW k \in Targets, NEW c, NEW d, RegistryType,
           gw_channel[k] # d, c # d,
           gw_channel' = [gw_channel EXCEPT ![k] = c]
    PROVE  MappedTo(d)' = MappedTo(d)
BY DEF MappedTo, RegistryType

---------------------------------------------------------------------------
(* Each operation keeps the registry consistent.                           *)

\* Another client of a known target.
LEMMA AddClientKeeps ==
    ASSUME NEW k \in Targets, Registry, AddClient(k)
    PROVE  Registry'
BY DEF AddClient, Registry, RegistryType, EntriesHaveClients, RefCountIsTargets,
       OpenIsRegistered, SameChannelIffSameGateway, MappedTo, Registered

\* Another target of a connected gateway.
LEMMA ShareChannelKeeps ==
    ASSUME NEW k \in Targets, Registry, ShareChannel(k)
    PROVE  Registry'
<1>1. PICK j \in Siblings(k) :
        /\ gw_channel' = [gw_channel EXCEPT ![k] = gw_channel[j]]
        /\ ref_count' = [ref_count EXCEPT ![gw_channel[j]] = @ + 1]
  BY DEF ShareChannel
<1>c. PICK c : c = gw_channel[j]
  OBVIOUS
<1>2. /\ j \in Targets /\ Registered(j) /\ ShareLine(j, k)
      /\ ~Registered(k) /\ j # k
      /\ clients' = [clients EXCEPT ![k] = 1]
      /\ open' = open
  BY <1>1 DEF ShareChannel, Siblings
<1>3. /\ c \in Channels /\ gw_channel[k] = NoChannel /\ gw_channel[j] = c
      /\ gw_channel' = [gw_channel EXCEPT ![k] = c]
      /\ ref_count' = [ref_count EXCEPT ![c] = @ + 1]
  BY <1>c, <1>1, <1>2 DEF Registered, Registry, RegistryType
<1>4. RegistryType'
  BY <1>1, <1>2, <1>3 DEF Registry, RegistryType
<1>5. EntriesHaveClients'
  BY <1>1, <1>2, <1>3, NoneAssumption
     DEF EntriesHaveClients, Registered, Registry, RegistryType
<1>6. \A d \in Channels : d # c => MappedTo(d)' = MappedTo(d)
  BY <1>1, <1>3, NoneAssumption, MapOthersSame DEF Registry
<1>7. Cardinality(MappedTo(c))' = Cardinality(MappedTo(c)) + 1
  BY <1>1, <1>3, NoneAssumption, MapOneMore DEF Registry
<1>8. RefCountIsTargets'
  <2> SUFFICES ASSUME NEW d \in Channels
               PROVE  ref_count'[d] = Cardinality(MappedTo(d)')
    BY DEF RefCountIsTargets
  <2>1. CASE d = c
    BY <2>1, <1>1, <1>3, <1>7 DEF Registry, RegistryType, RefCountIsTargets
  <2>2. CASE d # c
    BY <2>2, <1>1, <1>3, <1>6 DEF Registry, RegistryType, RefCountIsTargets
  <2> QED BY <2>1, <2>2
<1>9. OpenIsRegistered'
  <2>1. MappedTo(c) # {} /\ MappedTo(c)' # {}
    BY <1>1, <1>2, <1>3 DEF MappedTo, Registry, RegistryType
  <2> QED
    BY <2>1, <1>2, <1>6 DEF OpenIsRegistered, Registry
<1>10. SameChannelIffSameGateway'
  <2> SUFFICES ASSUME NEW a \in Targets, NEW b \in Targets,
                      Registered(a)', Registered(b)'
               PROVE  gw_channel'[a] = gw_channel'[b] <=> a = b \/ ShareLine(a, b)
    BY DEF SameChannelIffSameGateway
  <2> DEFINE old(x) == IF x = k THEN j ELSE x
  <2>1. /\ gw_channel'[a] = gw_channel[old(a)] /\ gw_channel'[b] = gw_channel[old(b)]
        /\ Registered(old(a)) /\ Registered(old(b))
        /\ old(a) \in Targets /\ old(b) \in Targets
    BY <1>1, <1>2 DEF Registered, Registry, RegistryType
  <2>2. gw_channel[old(a)] = gw_channel[old(b)]
          <=> old(a) = old(b) \/ ShareLine(old(a), old(b))
    BY <2>1 DEF Registry, SameChannelIffSameGateway
  <2>3. old(a) = old(b) \/ ShareLine(old(a), old(b)) <=> a = b \/ ShareLine(a, b)
    BY <1>2, ShareLineEquivalence
  <2> QED BY <2>1, <2>2, <2>3
<1> QED
  BY <1>4, <1>5, <1>8, <1>9, <1>10 DEF Registry

\* The first target of a line, with a channel nobody refers to.
LEMMA InstallChannelKeeps ==
    ASSUME NEW k \in Targets, NEW c \in Channels, Registry,
           ~Registered(k), Siblings(k) = {}, InstallChannel(k, c)
    PROVE  Registry'
<1>1. /\ gw_channel' = [gw_channel EXCEPT ![k] = c]
      /\ ref_count' = [ref_count EXCEPT ![c] = 1]
      /\ clients' = [clients EXCEPT ![k] = 1]
      /\ open' = open \cup {c}
      /\ gw_channel[k] = NoChannel
      /\ \A j \in Targets : gw_channel[j] # c
  BY DEF InstallChannel, Unreferenced, Registered
<1>2. RegistryType'
  BY <1>1 DEF Registry, RegistryType
<1>3. EntriesHaveClients'
  BY <1>1, NoneAssumption DEF EntriesHaveClients, Registered, Registry, RegistryType
<1>4. \A d \in Channels : d # c => MappedTo(d)' = MappedTo(d)
  BY <1>1, NoneAssumption, MapOthersSame DEF Registry
<1>5. MappedTo(c)' = {k}
  BY <1>1 DEF MappedTo, Registry, RegistryType
<1>6. RefCountIsTargets'
  <2> SUFFICES ASSUME NEW d \in Channels
               PROVE  ref_count'[d] = Cardinality(MappedTo(d)')
    BY DEF RefCountIsTargets
  <2>1. CASE d = c
    BY <2>1, <1>1, <1>5, FS_Singleton DEF Registry, RegistryType
  <2>2. CASE d # c
    BY <2>2, <1>1, <1>4 DEF Registry, RegistryType, RefCountIsTargets
  <2> QED BY <2>1, <2>2
<1>7. OpenIsRegistered'
  BY <1>1, <1>4, <1>5 DEF OpenIsRegistered, Registry
<1>8. SameChannelIffSameGateway'
  <2> SUFFICES ASSUME NEW a \in Targets, NEW b \in Targets,
                      Registered(a)', Registered(b)'
               PROVE  gw_channel'[a] = gw_channel'[b] <=> a = b \/ ShareLine(a, b)
    BY DEF SameChannelIffSameGateway
  <2>1. CASE a # k /\ b # k
    BY <2>1, <1>1 DEF Registered, Registry, RegistryType, SameChannelIffSameGateway
  <2>2. CASE a = k /\ b = k
    BY <2>2
  <2>3. CASE a = k /\ b # k
    <3>1. Registered(b) /\ gw_channel'[b] # gw_channel'[a]
      BY <2>3, <1>1 DEF Registered, Registry, RegistryType
    <3>2. ~ShareLine(a, b)
      BY <2>3, <3>1, ShareLineEquivalence DEF Siblings
    <3> QED BY <2>3, <3>1, <3>2
  <2>4. CASE a # k /\ b = k
    <3>1. Registered(a) /\ gw_channel'[a] # gw_channel'[b]
      BY <2>4, <1>1 DEF Registered, Registry, RegistryType
    <3>2. ~ShareLine(a, b)
      BY <2>4, <3>1 DEF Siblings
    <3> QED BY <2>4, <3>1, <3>2
  <2> QED BY <2>1, <2>2, <2>3, <2>4
<1> QED
  BY <1>2, <1>3, <1>6, <1>7, <1>8 DEF Registry

\* A client less; the last one takes the entry, the last entry the channel.
LEMMA FreeChannelKeeps ==
    ASSUME NEW k \in Targets, Registry, FreeChannel(k)
    PROVE  Registry'
<1>1. CASE ~Registered(k)
  BY <1>1 DEF FreeChannel, registryVars, Registry, RegistryType, EntriesHaveClients,
       RefCountIsTargets, OpenIsRegistered, SameChannelIffSameGateway, MappedTo,
       Registered
<1>2. CASE Registered(k) /\ clients[k] # 1
  <2>1. /\ clients' = [clients EXCEPT ![k] = @ - 1]
        /\ UNCHANGED <<gw_channel, ref_count, open>>
    BY <1>2 DEF FreeChannel
  <2>2. clients[k] \in Nat /\ clients[k] > 1
    BY <1>2 DEF Registry, RegistryType, EntriesHaveClients
  <2> QED
    BY <1>2, <2>1, <2>2 DEF Registry, RegistryType, EntriesHaveClients,
       RefCountIsTargets, OpenIsRegistered, SameChannelIffSameGateway, MappedTo,
       Registered
<1>3. CASE Registered(k) /\ clients[k] = 1
  <2>c. PICK c : c = gw_channel[k]
    OBVIOUS
  <2>1. /\ clients' = [clients EXCEPT ![k] = 0]
        /\ ref_count' = [ref_count EXCEPT ![c] = @ - 1]
        /\ open' = IF ref_count[c] = 1 THEN open \ {c} ELSE open
        /\ gw_channel' = [gw_channel EXCEPT ![k] = NoChannel]
    BY <1>3, <2>c DEF FreeChannel, RemoveTarget, Registry, RegistryType
  <2>2. c \in Channels /\ gw_channel[k] = c
    BY <1>3, <2>c DEF Registered, Registry, RegistryType
  <2>3. Cardinality(MappedTo(c))' = Cardinality(MappedTo(c)) - 1
    BY <2>1, <2>2, MapOneLess DEF Registry
  <2>4. \A d \in Channels : d # c => MappedTo(d)' = MappedTo(d)
    BY <2>1, <2>2, NoneAssumption, MapOthersSame DEF Registry
  <2>5. ref_count[c] = Cardinality(MappedTo(c)) /\ ref_count[c] \in Nat
        /\ ref_count[c] # 0
    <3>1. MappedTo(c) # {}
      BY <2>2 DEF MappedTo
    <3> QED
      BY <2>2, <3>1, MappedToFinite, FS_EmptySet
         DEF Registry, RegistryType, RefCountIsTargets
  <2>6. RegistryType'
    BY <2>1, <2>2, <2>5 DEF Registry, RegistryType
  <2>7. EntriesHaveClients'
    BY <2>1 DEF EntriesHaveClients, Registered, Registry, RegistryType
  <2>8. RefCountIsTargets'
    <3> SUFFICES ASSUME NEW d \in Channels
                 PROVE  ref_count'[d] = Cardinality(MappedTo(d)')
      BY DEF RefCountIsTargets
    <3>1. CASE d = c
      BY <3>1, <2>1, <2>2, <2>3, <2>5 DEF Registry, RegistryType
    <3>2. CASE d # c
      BY <3>2, <2>1, <2>2, <2>4 DEF Registry, RegistryType, RefCountIsTargets
    <3> QED BY <3>1, <3>2
  <2>9. OpenIsRegistered'
    <3>1. MappedTo(c)' = {} <=> ref_count[c] = 1
      <4>1. IsFiniteSet(MappedTo(c)')
        BY FiniteAssumption, FS_Subset DEF MappedTo
      <4> QED
        BY <4>1, <2>3, <2>5, FS_EmptySet
    <3>2. c \in open
      BY <2>2 DEF MappedTo, OpenIsRegistered, Registry
    <3> QED
      BY <3>1, <3>2, <2>1, <2>2, <2>4 DEF OpenIsRegistered, Registry
  <2>10. SameChannelIffSameGateway'
    BY <2>1 DEF SameChannelIffSameGateway, Registered, Registry, RegistryType
  <2> QED
    BY <2>6, <2>7, <2>8, <2>9, <2>10 DEF Registry
<1> QED
  BY <1>1, <1>2, <1>3

---------------------------------------------------------------------------
(* The threads, whatever they call.                                        *)

ThreadType ==
    /\ lock \in Sessions \cup {NoSession}
    /\ pc \in [Sessions -> PCs]
    /\ target \in [Sessions -> Targets]
    /\ channel \in [Sessions -> Channels \cup {NoChannel}]

\* The lock is held between two steps by the one thread that is creating.
LockIsCreator ==
    /\ \A s \in Sessions : pc[s] = "creating" <=> lock = s
    /\ \A s \in Sessions :
         pc[s] = "creating" =>
            ~Registered(target[s]) /\ Siblings(target[s]) = {}

IInv == Registry /\ ThreadType /\ LockIsCreator

\* Only a thread with the lock can change which targets are registered, so a
\* thread that is creating keeps its target unregistered and without siblings.
LEMMA LockKept ==
    ASSUME IInv, ThreadType', lock = NoSession \/ gw_channel' = gw_channel,
           \A r \in Sessions : pc'[r] = "creating" <=> lock' = r,
           \A r \in Sessions : pc'[r] = "creating" =>
               /\ gw_channel' = gw_channel
               /\ \/ pc[r] = "creating" /\ target'[r] = target[r]
                  \/ ~Registered(target'[r]) /\ Siblings(target'[r]) = {}
    PROVE  LockIsCreator'
BY DEF IInv, LockIsCreator, Registered, Siblings, ShareLine

\* The registry starts empty, its lock free.
LEMMA InitHolds == Init => IInv
<1> SUFFICES ASSUME Init PROVE IInv
  OBVIOUS
<1>1. ThreadType /\ RegistryType
  BY DEF Init, ThreadType, RegistryType, PCs
<1>2. \A c \in Channels : MappedTo(c) = {}
  BY NoneAssumption DEF Init, MappedTo
<1>3. LockIsCreator
  BY NoneAssumption DEF Init, LockIsCreator
<1> QED
  BY <1>1, <1>2, <1>3, FS_EmptySet
     DEF Init, IInv, Registry, EntriesHaveClients, RefCountIsTargets,
         OpenIsRegistered, SameChannelIffSameGateway, Registered

\* The registry does not notice a step that leaves its variables alone.
LEMMA RegistryUntouched ==
    ASSUME Registry, UNCHANGED registryVars
    PROVE  Registry'
BY DEF registryVars, Registry, RegistryType, EntriesHaveClients, RefCountIsTargets,
       OpenIsRegistered, SameChannelIffSameGateway, MappedTo, Registered

\* Every step of every thread keeps the registry, the types and the lock.
LEMMA StepHolds == IInv /\ [Next]_vars => IInv'
<1> SUFFICES ASSUME IInv, [Next]_vars PROVE IInv'
  OBVIOUS
<1> USE DEF IInv
<1>1. ASSUME NEW s \in Sessions, Connect(s) PROVE IInv'
  <2>1. Registry'
    BY <1>1, RegistryUntouched DEF Connect
  <2>2. ThreadType'
    BY <1>1 DEF Connect, ThreadType, PCs
  <2>3. LockIsCreator'
    BY <1>1, <2>2, LockKept DEF Connect, ThreadType, LockIsCreator, registryVars
  <2> QED BY <2>1, <2>2, <2>3
<1>2. ASSUME NEW s \in Sessions, AddChannel(s) PROVE IInv'
  <2>1. target[s] \in Targets
    BY DEF ThreadType
  <2>2. Registry'
    BY <1>2, <2>1, AddClientKeeps, ShareChannelKeeps DEF AddChannel
  <2>3. ThreadType'
    BY <1>2 DEF AddChannel, ThreadType, PCs
  <2>4. LockIsCreator'
    BY <1>2, <2>3, LockKept, NoneAssumption DEF AddChannel, ThreadType, LockIsCreator
  <2> QED BY <2>2, <2>3, <2>4
<1>3. ASSUME NEW s \in Sessions, BeginCreate(s) PROVE IInv'
  <2>1. Registry'
    BY <1>3, RegistryUntouched DEF BeginCreate
  <2>2. ThreadType'
    BY <1>3 DEF BeginCreate, ThreadType, PCs
  <2>3. LockIsCreator'
    BY <1>3, <2>2, LockKept, NoneAssumption
       DEF BeginCreate, ThreadType, LockIsCreator, registryVars
  <2> QED BY <2>1, <2>2, <2>3
<1>4. ASSUME NEW s \in Sessions, CreateSucceeds(s) PROVE IInv'
  <2>1. PICK c \in Channels : InstallChannel(target[s], c)
    BY <1>4 DEF CreateSucceeds
  <2>2. /\ target[s] \in Targets
        /\ ~Registered(target[s]) /\ Siblings(target[s]) = {}
    BY <1>4 DEF CreateSucceeds, ThreadType, LockIsCreator
  <2>3. Registry'
    BY <2>1, <2>2, InstallChannelKeeps
  <2>4. ThreadType'
    BY <1>4 DEF CreateSucceeds, ThreadType, PCs
  <2>5. LockIsCreator'
    BY <1>4, <2>4, NoneAssumption DEF CreateSucceeds, ThreadType, LockIsCreator
  <2> QED BY <2>3, <2>4, <2>5
<1>5. ASSUME NEW s \in Sessions, CreateFails(s) PROVE IInv'
  <2>1. Registry'
    BY <1>5, RegistryUntouched DEF CreateFails
  <2>2. ThreadType'
    BY <1>5 DEF CreateFails, ThreadType, PCs
  <2>3. LockIsCreator'
    BY <1>5, <2>2, NoneAssumption DEF CreateFails, ThreadType, LockIsCreator
  <2> QED BY <2>1, <2>2, <2>3
<1>6. ASSUME NEW s \in Sessions,
             ReadBack(s) \/ ReadBackFails(s) \/ TokenSet(s) \/ Drop(s)
      PROVE  IInv'
  <2>1. Registry' /\ gw_channel' = gw_channel /\ lock' = lock
    BY <1>6, RegistryUntouched DEF ReadBack, ReadBackFails, TokenSet, Drop, registryVars
  <2>2. ThreadType'
    BY <1>6 DEF ReadBack, ReadBackFails, TokenSet, Drop, ThreadType, PCs,
         Registry, RegistryType
  <2>3. LockIsCreator'
    BY <1>6, <2>1, <2>2, LockKept
       DEF ReadBack, ReadBackFails, TokenSet, Drop, ThreadType, LockIsCreator
  <2> QED BY <2>1, <2>2, <2>3
<1>7. ASSUME NEW s \in Sessions,
             TokenFails(s) \/ Disconnect(s) \/ DisconnectAgain(s)
      PROVE  IInv'
  <2>1. Registry'
    <3>1. target[s] \in Targets
      BY DEF ThreadType
    <3> QED
      BY <1>7, <3>1, FreeChannelKeeps DEF TokenFails, Disconnect, DisconnectAgain
  <2>2. ThreadType' /\ lock = NoSession /\ lock' = NoSession
    BY <1>7 DEF TokenFails, Disconnect, DisconnectAgain, ThreadType, PCs
  <2>3. LockIsCreator'
    BY <1>7, <2>2, NoneAssumption
       DEF TokenFails, Disconnect, DisconnectAgain, ThreadType, LockIsCreator
  <2> QED BY <2>1, <2>2, <2>3
<1>8. ASSUME UNCHANGED vars PROVE IInv'
  <2>1. Registry'
    BY <1>8, RegistryUntouched DEF vars
  <2> QED
    BY <1>8, <2>1 DEF vars, registryVars, ThreadType, LockIsCreator, Registered,
         Siblings, ShareLine
<1> QED
  BY <1>1, <1>2, <1>3, <1>4, <1>5, <1>6, <1>7, <1>8 DEF Next

\* The strengthened invariant holds throughout.
LEMMA Invariance == Spec => []IInv
BY InitHolds, StepHolds, PTL DEF Spec

\* Every variable keeps its type, whatever is called.
THEOREM TypeCorrect == Spec => []TypeOK
<1>1. IInv => TypeOK
  BY DEF IInv, Registry, RegistryType, ThreadType, TypeOK
<1> QED
  BY <1>1, Invariance, PTL

\* The counters of the registry are never wrong, under any calls of its users:
\* an entry has clients, ref_count counts the targets of a channel, exactly the
\* channels in use are open, and channels are shared as the gateways say.
THEOREM RegistryConsistent ==
    Spec => [](/\ EntriesHaveClients
               /\ RefCountIsTargets
               /\ OpenIsRegistered
               /\ SameChannelIffSameGateway)
<1>1. IInv => /\ EntriesHaveClients
              /\ RefCountIsTargets
              /\ OpenIsRegistered
              /\ SameChannelIffSameGateway
  BY DEF IInv, Registry
<1> QED
  BY <1>1, Invariance, PTL

\* The three of its parts that are about other things than ref_count, by name.
\* No entry outlives its last client, and no count its entry.
THEOREM EntriesAreCounted == Spec => []EntriesHaveClients
BY RegistryConsistent, PTL

\* No connection is leaked and no closed one offered, whatever is called.
THEOREM OpenChannelsAreMapped == Spec => []OpenIsRegistered
BY RegistryConsistent, PTL

\* Channels are shared by the targets of one gateway and shared type alone.
THEOREM SharingFollowsGateways == Spec => []SameChannelIffSameGateway
BY RegistryConsistent, PTL

\* The registry lock is held between two steps only by a thread that creates a
\* channel nobody else can create or reach meanwhile (add_channel).
THEOREM CreatorHasTheLock == Spec => []LockIsCreator
<1>1. IInv => LockIsCreator
  BY DEF IInv
<1> QED
  BY <1>1, Invariance, PTL

\* Creating a channel comes to an end, since connecting has a timeout (lines 133
\* and 144): weak fairness of CreationEnds for whoever is creating, with its
\* guard in place of ENABLED.
CreationsEnd ==
    \/ []<>~(\E s \in Sessions : pc[s] = "creating")
    \/ []<><<\E s \in Sessions : CreationEnds(s)>>_vars

\* Given that, the registry lock is never kept for ever, by any thread and
\* whatever the others do: all that its holder waits for is the new connection.
THEOREM LockComesBack == Spec /\ CreationsEnd => LockIsReleased
<1>1. IInv => lock = NoSession \/ \E s \in Sessions : pc[s] = "creating"
  BY DEF IInv, ThreadType, LockIsCreator
<1>2. <<\E s \in Sessions : CreationEnds(s)>>_vars => (lock = NoSession)'
  BY DEF CreationEnds, CreateSucceeds, CreateFails
<1>3. Spec /\ CreationsEnd => []<>(lock = NoSession)
  BY <1>1, <1>2, Invariance, PTL DEF Spec, CreationsEnd
<1> QED
  BY <1>3, PTL DEF LockIsReleased

---------------------------------------------------------------------------
(* The protocol objects of targets whose objects are disconnected once.    *)

HInv == IInv /\ ClientsAreHolders /\ HolderChannelIsOpen

Counted == {"added", "token", "holding"}

\* The holders of a target are finitely many.
LEMMA HoldersFinite ==
    ASSUME NEW k
    PROVE  IsFiniteSet(Holders(k))
BY FiniteAssumption, FS_Subset DEF Holders

\* A thread that takes a channel is one holder more, of its target only.
LEMMA OneHolderMore ==
    ASSUME ThreadType, ClientsAreHolders, NEW s \in Sessions,
           clients \in [Targets -> Nat],
           pc[s] \notin Counted, pc' = [pc EXCEPT ![s] = "added"], target' = target,
           clients' = [clients EXCEPT ![target[s]] = @ + 1]
    PROVE  ClientsAreHolders'
<1> SUFFICES ASSUME NEW k \in Once
             PROVE  clients'[k] = Cardinality(Holders(k)')
  BY DEF ClientsAreHolders
<1>0. k \in Targets
  BY DEF Once
<1>1. clients[k] = Cardinality(Holders(k))
  BY DEF ClientsAreHolders
<1>2. CASE k = target[s]
  <2>1. Holders(k)' = Holders(k) \cup {s} /\ s \notin Holders(k)
    BY <1>2 DEF Holders, Counted, ThreadType
  <2>2. Cardinality(Holders(k)') = Cardinality(Holders(k)) + 1
    BY <2>1, HoldersFinite, FS_AddElement
  <2> QED BY <1>0, <1>1, <1>2, <2>2
<1>3. CASE k # target[s]
  <2>1. Holders(k)' = Holders(k)
    BY <1>3 DEF Holders, Counted, ThreadType
  <2> QED BY <1>0, <1>1, <1>3, <2>1
<1> QED BY <1>2, <1>3

\* A thread that gives its channel back is one holder less.
LEMMA OneHolderLess ==
    ASSUME ThreadType, ClientsAreHolders, NEW s \in Sessions, NEW state,
           clients \in [Targets -> Nat],
           pc[s] \in Counted, state \notin Counted,
           pc' = [pc EXCEPT ![s] = state], target' = target,
           clients' = [clients EXCEPT ![target[s]] = @ - 1]
    PROVE  ClientsAreHolders'
<1> SUFFICES ASSUME NEW k \in Once
             PROVE  clients'[k] = Cardinality(Holders(k)')
  BY DEF ClientsAreHolders
<1>0. k \in Targets
  BY DEF Once
<1>1. clients[k] = Cardinality(Holders(k))
  BY DEF ClientsAreHolders
<1>2. CASE k = target[s]
  <2>1. Holders(k)' = Holders(k) \ {s} /\ s \in Holders(k)
    BY <1>2 DEF Holders, Counted, ThreadType
  <2>2. Cardinality(Holders(k)') = Cardinality(Holders(k)) - 1
    BY <2>1, HoldersFinite, FS_RemoveElement
  <2> QED BY <1>0, <1>1, <1>2, <2>2
<1>3. CASE k # target[s]
  <2>1. Holders(k)' = Holders(k)
    BY <1>3 DEF Holders, Counted, ThreadType
  <2> QED BY <1>0, <1>1, <1>3, <2>1
<1> QED BY <1>2, <1>3

\* A step of another kind leaves the count right.
LEMMA SameHolders ==
    ASSUME ThreadType, ThreadType', ClientsAreHolders, UNCHANGED clients,
           \A r \in Sessions : /\ pc'[r] \in Counted <=> pc[r] \in Counted
                               /\ pc[r] \in Counted => target'[r] = target[r]
    PROVE  ClientsAreHolders'
<1> SUFFICES ASSUME NEW k \in Once
             PROVE  Holders(k)' = Holders(k)
  BY DEF ClientsAreHolders
<1> QED
  BY DEF Holders, Counted, ThreadType, Once

\* The target of an object that is counted has an entry, and an open channel.
LEMMA HolderIsRegistered ==
    ASSUME HInv, NEW s \in Sessions, pc[s] \in Counted, target[s] \in Once
    PROVE  Registered(target[s]) /\ gw_channel[target[s]] \in open
<1>1. target[s] \in Targets /\ s \in Holders(target[s])
  BY DEF HInv, IInv, ThreadType, Holders, Counted
<1>2. clients[target[s]] > 0
  <2>1. clients[target[s]] = Cardinality(Holders(target[s]))
    BY <1>1 DEF HInv, ClientsAreHolders
  <2>2. clients[target[s]] \in Nat
    BY <1>1 DEF HInv, IInv, Registry, RegistryType
  <2> QED BY <1>1, <2>1, <2>2, HoldersFinite, FS_EmptySet
<1> QED
  BY <1>1, <1>2 DEF HInv, IInv, Registry, RegistryType, EntriesHaveClients,
     OpenIsRegistered, MappedTo, Registered

\* Only its last holder takes the entry of a target away.
LEMMA LastHolder ==
    ASSUME HInv, NEW s \in Sessions, NEW r \in Sessions,
           pc[s] \in Counted, pc[r] \in Counted, r # s,
           target[r] = target[s], target[s] \in Once
    PROVE  clients[target[s]] # 1
<1>1. s \in Holders(target[s]) /\ r \in Holders(target[s])
  BY DEF Holders, Counted
<1>2. clients[target[s]] = Cardinality(Holders(target[s]))
  BY DEF HInv, IInv, ThreadType, ClientsAreHolders
<1>3. Cardinality(Holders(target[s])) # 1
  BY <1>1, HoldersFinite, FS_Singleton
<1> QED
  BY <1>2, <1>3

\* The holders keep an open channel if their entries are left alone.
LEMMA ChannelsKept ==
    ASSUME ClientsAreHolders', IInv',
           \A r \in Sessions :
               pc'[r] \in {"token", "holding"} /\ target'[r] \in Once =>
                   channel'[r] = gw_channel'[target'[r]]
    PROVE  HolderChannelIsOpen'
<1> SUFFICES ASSUME NEW r \in Sessions, pc'[r] \in Counted,
                    NEW k \in Once, k = target'[r]
             PROVE  gw_channel'[k] # NoChannel /\ gw_channel'[k] \in open'
  BY DEF HolderChannelIsOpen, Counted, Registered
<1>1. k \in Targets /\ r \in Holders(k)'
  BY DEF IInv, ThreadType, Holders, Counted
<1>2. clients'[k] > 0
  <2>1. clients'[k] = Cardinality(Holders(k)')
    BY <1>1 DEF ClientsAreHolders
  <2>2. clients'[k] \in Nat
    BY <1>1 DEF IInv, Registry, RegistryType
  <2>3. IsFiniteSet(Holders(k)')
    BY FiniteAssumption, FS_Subset DEF Holders
  <2> QED BY <1>1, <2>1, <2>2, <2>3, FS_EmptySet
<1> QED
  BY <1>1, <1>2 DEF IInv, Registry, RegistryType, EntriesHaveClients,
     OpenIsRegistered, MappedTo, Registered

\* What is done with an object of another target, and to that target's entry,
\* leaves these targets alone.
LEMMA OtherTarget ==
    ASSUME HInv, IInv', NEW s \in Sessions, target[s] \notin Once,
           target' = target,
           \A r \in Sessions : r # s => pc'[r] = pc[r] /\ channel'[r] = channel[r],
           \A k \in Targets :
               k # target[s] => clients'[k] = clients[k] /\ gw_channel'[k] = gw_channel[k]
    PROVE  HInv'
<1>1. /\ ClientsAreHolders /\ HolderChannelIsOpen
      /\ \A k \in Once : k \in Targets /\ k # target[s]
  BY DEF HInv, Once
<1>2. ClientsAreHolders'
  <2>1. \A k \in Once : Holders(k)' = Holders(k)
    BY <1>1 DEF Holders
  <2> QED BY <1>1, <2>1 DEF ClientsAreHolders
<1>3. HolderChannelIsOpen'
  BY <1>1, <1>2, ChannelsKept DEF HolderChannelIsOpen
<1> QED
  BY <1>2, <1>3 DEF HInv

\* free_channel touches the entry of its own target only.
LEMMA FreesOwnEntry ==
    ASSUME Registry, NEW k \in Targets, FreeChannel(k)
    PROVE  \A j \in Targets :
             j # k => clients'[j] = clients[j] /\ gw_channel'[j] = gw_channel[j]
BY DEF FreeChannel, RemoveTarget, registryVars, Registry, RegistryType

\* Nobody holds anything when ChannelCollection is made (lines 300-303).
LEMMA InitHolders == Init => HInv
<1> SUFFICES ASSUME Init PROVE ClientsAreHolders /\ HolderChannelIsOpen
  BY InitHolds DEF HInv
<1>1. \A k : Holders(k) = {}
  BY DEF Init, Holders
<1> QED
  BY <1>1, FS_EmptySet DEF Init, ClientsAreHolders, HolderChannelIsOpen, Once

\* Connecting and disconnecting once keep the counts exact, and with them the
\* channels of holders open (lines 236-254, 305-320).
LEMMA StepHolders == HInv /\ [Next]_vars => HInv'
<1> SUFFICES ASSUME HInv, [Next]_vars PROVE HInv'
  OBVIOUS
<1>0. IInv /\ IInv' /\ ThreadType /\ ThreadType'
      /\ ClientsAreHolders /\ HolderChannelIsOpen
  BY StepHolds DEF HInv, IInv
<1>t. /\ clients \in [Targets -> Nat]
      /\ gw_channel \in [Targets -> Channels \cup {NoChannel}]
      /\ \A s \in Sessions : target[s] \in Targets
  BY <1>0 DEF IInv, Registry, RegistryType, ThreadType
<1>1. ASSUME NEW s \in Sessions,
             \/ Connect(s) \/ BeginCreate(s) \/ CreateFails(s)
             \/ ReadBack(s) \/ TokenSet(s) \/ Drop(s)
      PROVE  HInv'
  <2>1. ClientsAreHolders'
    BY <1>0, <1>1, SameHolders
       DEF Connect, BeginCreate, CreateFails, ReadBack, TokenSet, Drop,
           registryVars, ThreadType, Counted
  <2>2. HolderChannelIsOpen'
    BY <1>0, <1>1, <2>1, ChannelsKept
       DEF Connect, BeginCreate, CreateFails, ReadBack, TokenSet, Drop,
           registryVars, ThreadType, HolderChannelIsOpen
  <2> QED BY <1>0, <2>1, <2>2 DEF HInv
<1>2. ASSUME NEW s \in Sessions, ReadBackFails(s) PROVE HInv'
  <2>1. target[s] \notin Once
    BY <1>0, <1>2 DEF ReadBackFails, HolderChannelIsOpen
  <2> QED BY <1>0, <1>2, <2>1, OtherTarget DEF ReadBackFails, registryVars, ThreadType
<1>3. ASSUME NEW s \in Sessions, AddChannel(s) PROVE HInv'
  <2>1. /\ clients' = [clients EXCEPT ![target[s]] = @ + 1]
        /\ \A j \in Targets : Registered(j) => gw_channel'[j] = gw_channel[j]
    <3>1. CASE AddClient(target[s])
      BY <3>1 DEF AddClient
    <3>2. CASE ShareChannel(target[s])
      <4>1. clients[target[s]] = 0
        BY <1>0, <1>t, <3>2
           DEF ShareChannel, IInv, Registry, EntriesHaveClients
      <4> QED
        BY <1>t, <3>2, <4>1 DEF ShareChannel, Registered
    <3> QED BY <1>3, <3>1, <3>2 DEF AddChannel
  <2>2. ClientsAreHolders'
    BY <1>0, <1>t, <1>3, <2>1, OneHolderMore DEF AddChannel, Counted
  <2>3. HolderChannelIsOpen'
    <3> SUFFICES ASSUME NEW r \in Sessions, pc'[r] \in {"token", "holding"},
                        target'[r] \in Once
                 PROVE  channel'[r] = gw_channel'[target'[r]]
      BY <1>0, <2>2, ChannelsKept
    <3>1. pc[r] \in {"token", "holding"} /\ target' = target /\ channel' = channel
      BY <1>0, <1>3 DEF AddChannel, ThreadType
    <3> QED
      BY <1>0, <1>t, <2>1, <3>1, HolderIsRegistered DEF HolderChannelIsOpen, Counted
  <2> QED BY <1>0, <2>2, <2>3 DEF HInv
<1>4. ASSUME NEW s \in Sessions, CreateSucceeds(s) PROVE HInv'
  <2>1. PICK c \in Channels : InstallChannel(target[s], c)
    BY <1>4 DEF CreateSucceeds
  <2>2. ~Registered(target[s]) /\ clients[target[s]] = 0
    BY <1>0, <1>t, <1>4
       DEF CreateSucceeds, IInv, LockIsCreator, Registry, EntriesHaveClients
  <2>3. /\ clients' = [clients EXCEPT ![target[s]] = @ + 1]
        /\ \A j \in Targets : Registered(j) => gw_channel'[j] = gw_channel[j]
    BY <1>t, <2>1, <2>2 DEF InstallChannel, Registered
  <2>4. ClientsAreHolders'
    BY <1>0, <1>t, <1>4, <2>3, OneHolderMore DEF CreateSucceeds, Counted
  <2>5. HolderChannelIsOpen'
    <3> SUFFICES ASSUME NEW r \in Sessions, pc'[r] \in {"token", "holding"},
                        target'[r] \in Once
                 PROVE  channel'[r] = gw_channel'[target'[r]]
      BY <1>0, <2>4, ChannelsKept
    <3>1. pc[r] \in {"token", "holding"} /\ target' = target /\ channel' = channel
      BY <1>0, <1>4 DEF CreateSucceeds, ThreadType
    <3> QED
      BY <1>0, <1>t, <2>3, <3>1, HolderIsRegistered DEF HolderChannelIsOpen, Counted
  <2> QED BY <1>0, <2>4, <2>5 DEF HInv
<1>5. ASSUME NEW s \in Sessions, TokenFails(s) \/ Disconnect(s),
             target[s] \in Once
      PROVE  HInv'
  <2>1. /\ pc[s] \in Counted /\ target' = target
        /\ FreeChannel(target[s])
        /\ channel' = [channel EXCEPT ![s] = NoChannel]
        /\ \E state \in {"idle", "gone"} : pc' = [pc EXCEPT ![s] = state]
    BY <1>5 DEF TokenFails, Disconnect, Counted
  <2>2. /\ clients' = [clients EXCEPT ![target[s]] = @ - 1]
        /\ \A j \in Targets :
             j # target[s] \/ clients[j] # 1 => gw_channel'[j] = gw_channel[j]
    BY <1>5, <1>t, <2>1, HolderIsRegistered DEF FreeChannel, RemoveTarget
  <2>3. ClientsAreHolders'
    BY <1>0, <1>t, <2>1, <2>2, OneHolderLess DEF Counted
  <2>4. HolderChannelIsOpen'
    <3> SUFFICES ASSUME NEW r \in Sessions, pc'[r] \in {"token", "holding"},
                        target'[r] \in Once
                 PROVE  channel'[r] = gw_channel'[target'[r]]
      BY <1>0, <2>3, ChannelsKept
    <3>1. /\ r # s /\ pc[r] \in {"token", "holding"}
          /\ channel'[r] = channel[r] /\ target'[r] = target[r]
      BY <1>0, <2>1 DEF ThreadType
    <3>2. target[r] # target[s] \/ clients[target[r]] # 1
      BY <2>1, <3>1, LastHolder DEF Counted
    <3>3. gw_channel'[target[r]] = gw_channel[target[r]]
      BY <1>t, <2>2, <3>2
    <3> QED
      BY <1>0, <3>1, <3>3 DEF HolderChannelIsOpen
  <2> QED BY <1>0, <2>3, <2>4 DEF HInv
<1>6. ASSUME NEW s \in Sessions,
             \/ TokenFails(s) \/ Disconnect(s)
             \/ DisconnectAgain(s)
      PROVE  HInv'
  <2>1. CASE target[s] \in Once
    BY <1>5, <1>6, <2>1 DEF DisconnectAgain, Once
  <2>2. CASE target[s] \notin Once
    <3>1. FreeChannel(target[s]) /\ target' = target /\ target[s] \in Targets
      BY <1>t, <1>6 DEF TokenFails, Disconnect, DisconnectAgain
    <3>2. \A r \in Sessions : r # s => pc'[r] = pc[r] /\ channel'[r] = channel[r]
      BY <1>0, <1>6 DEF TokenFails, Disconnect, DisconnectAgain, ThreadType
    <3> QED BY <1>0, <2>2, <3>1, <3>2, FreesOwnEntry, OtherTarget DEF IInv
  <2> QED BY <2>1, <2>2
<1>7. ASSUME UNCHANGED vars PROVE HInv'
  BY <1>0, <1>7 DEF HInv, vars, registryVars, ClientsAreHolders, Holders,
     HolderChannelIsOpen, Registered
<1> QED
  BY <1>1, <1>2, <1>3, <1>4, <1>6, <1>7 DEF Next

\* Both facts together: HInv holds throughout.
LEMMA HoldersInvariance == Spec => []HInv
BY InitHolders, StepHolders, PTL DEF Spec

\* The client counts are exact for every target none of whose objects is
\* disconnected twice: its entry is removed by the disconnect of its last
\* holder, not before and not later, whatever is done with other targets.
THEOREM CountsAreExact == Spec => []ClientsAreHolders
<1>1. HInv => ClientsAreHolders
  BY DEF HInv
<1> QED
  BY <1>1, HoldersInvariance, PTL

\* No session of such a target ever has its connection closed or replaced
\* underneath, not even by second disconnects of another target that uses the
\* same one, and get_channel's unlocked return finds the channel it added.
THEOREM NoUseAfterClose == Spec => []HolderChannelIsOpen
<1>1. HInv => HolderChannelIsOpen
  BY DEF HInv
<1> QED
  BY <1>1, HoldersInvariance, PTL
===========================================================================
