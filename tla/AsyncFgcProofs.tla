---------------------------- MODULE AsyncFgcProofs ----------------------------
(***************************************************************************)
(* Proofs about AsyncFgc, for any number of gateways, sessions and         *)
(* connections, and any way connections may end.                           *)
(*                                                                         *)
(* What connect does between its awaits is safe because of the lock alone: *)
(* who makes a connection is its only user until it lets go of the lock    *)
(* (MakerIsAlone), and finds no other connection stored when it stores its *)
(* own (NewIsUnknown).  What disconnect does is safe because a protocol is *)
(* stored for the gateway of its sessions only (Homes), and because the    *)
(* callbacks of a lost connection come when it is no longer open.          *)
(***************************************************************************)
EXTENDS AsyncFgc, FiniteSetTheorems, TLAPS

Making == {"opened", "token", "answered"}

\* A stored connection was opened, and the program has not closed it.
RegisteredIsUp ==
    \A g \in Gateways : protocol_dict[g] # NoProtocol =>
        transport[protocol_dict[g]] \in {"open", "lost"}

\* The sessions of a connection have one gateway, the one it is stored for.
Homes ==
    \A s \in Sessions : protocol[s] # NoProtocol =>
        /\ transport[protocol[s]] # "unused"
        /\ \A t \in Sessions : protocol[t] = protocol[s] => target[t] = target[s]
        /\ \A g \in Gateways : protocol_dict[g] = protocol[s] => g = target[s]

LockIsOpener ==
    \A s \in Sessions : pc[s] \in Making \cup {"opening"} => async_lock = s

NoneYet ==
    \A s \in Sessions : pc[s] \in {"new", "waiting", "opening"} => protocol[s] = NoProtocol

NewIsUnknown ==
    \A s \in Sessions :
        /\ pc[s] \in {"opening", "opened"} => protocol_dict[target[s]] = NoProtocol
        /\ pc[s] \in {"token", "answered"} => protocol_dict[target[s]] = protocol[s]

MakerIsAlone ==
    \A s \in Sessions : pc[s] \in Making =>
        /\ protocol[s] # NoProtocol
        /\ transport[protocol[s]] \in {"open", "lost"}
        /\ \A t \in Sessions : protocol[t] = protocol[s] => t = s

\* Callbacks are of sessions that are connected, or were.
CallbacksAreUsers ==
    \A p \in Protocols : \A s \in callbacks[p] :
        pc[s] \in {"connected", "gone"} /\ protocol[s] \in {p, NoProtocol}

ScheduledIsLost ==
    \A s \in scheduled :
        /\ pc[s] \in {"connected", "gone"}
        /\ protocol[s] # NoProtocol => transport[protocol[s]] # "open"

Lock == LockIsOpener /\ NoneYet /\ NewIsUnknown /\ MakerIsAlone
Callbacks == CallbacksAreUsers /\ ScheduledIsLost
Registry == DictMatchesUsers /\ RegisteredIsUp /\ Homes /\ OpenIsRegistered

IInv ==
    /\ TypeOK
    /\ Lock
    /\ Callbacks
    /\ Registry
    /\ UsersAreCounted
    /\ NotClosedUnderneath

---------------------------------------------------------------------------
\* One user more, one user less.
LEMMA OneMore ==
    ASSUME NEW S, IsFiniteSet(S), NEW x, x \notin S
    PROVE  Cardinality(S \cup {x}) = Cardinality(S) + 1
BY FS_AddElement

LEMMA OneLess ==
    ASSUME NEW S, IsFiniteSet(S), NEW x \in S
    PROVE  Cardinality(S \ {x}) = Cardinality(S) - 1
BY FS_RemoveElement

\* A connection has finitely many users.
LEMMA UsersAreFinite ==
    ASSUME NEW p \in Protocols
    PROVE  IsFiniteSet(Users(p)) /\ Cardinality(Users(p)) \in Nat
<1>1. Users(p) \subseteq Sessions
  BY DEF Users
<1> QED
  BY <1>1, FS_Subset, FS_CardinalityType, SessionsAssumption

\* At first there are no connections.
LEMMA InitHolds == Init => IInv
<1> SUFFICES ASSUME Init PROVE IInv
  OBVIOUS
<1>1. TypeOK
  BY DEF Init, TypeOK, PCs
<1>2. Lock /\ Callbacks
  BY DEF Init, Lock, LockIsOpener, NoneYet, NewIsUnknown, MakerIsAlone, Making,
     Callbacks, CallbacksAreUsers, ScheduledIsLost
<1>3. Registry /\ NotClosedUnderneath /\ UsersAreCounted
  BY NoneAssumption DEF Init, Registry, DictMatchesUsers, RegisteredIsUp, Homes,
     OpenIsRegistered, NotClosedUnderneath, UsersAreCounted
<1> QED
  BY <1>1, <1>2, <1>3 DEF IInv

---------------------------------------------------------------------------
(* connect.                                                                *)

\* Calls of connect, and connections that could not be made.
LEMMA ConnectHolds ==
    ASSUME IInv, NEW s \in Sessions, Connect(s) \/ OpenFails(s) \/ TokenAnswered(s)
    PROVE  IInv'
<1>0. /\ UNCHANGED <<protocol_dict, protocol_users, target, protocol, transport,
                     callbacks, scheduled, twice>>
      /\ \/ pc[s] = "new" /\ pc' = [pc EXCEPT ![s] = "waiting"] /\ async_lock' = async_lock
         \/ pc[s] = "opening" /\ pc' = [pc EXCEPT ![s] = "failed"] /\ async_lock' = NoSession
         \/ pc[s] = "token" /\ pc' = [pc EXCEPT ![s] = "answered"] /\ async_lock' = async_lock
  BY DEF Connect, OpenFails, TokenAnswered, Go, sharedVars
<1>1. TypeOK'
  BY <1>0 DEF IInv, TypeOK, PCs
<1>2. Lock'
  BY <1>0 DEF IInv, TypeOK, Lock, LockIsOpener, NoneYet, NewIsUnknown, MakerIsAlone, Making
<1>3. Callbacks'
  BY <1>0 DEF IInv, TypeOK, Callbacks, CallbacksAreUsers, ScheduledIsLost
<1>4. Registry'
  <2>1. DictMatchesUsers' /\ RegisteredIsUp' /\ Homes'
    BY <1>0 DEF IInv, Registry, DictMatchesUsers, RegisteredIsUp, Homes
  <2>2. \A t \in Sessions : pc[t] = "opened" => pc'[t] = "opened"
    BY <1>0 DEF IInv, TypeOK
  <2>3. OpenIsRegistered'
    BY <1>0, <2>2 DEF IInv, Registry, OpenIsRegistered
  <2> QED
    BY <2>1, <2>3 DEF Registry
<1>5. ASSUME NEW p \in Protocols PROVE Users(p)' = Users(p)
  BY NoneAssumption, <1>0, <1>5 DEF IInv, TypeOK, Lock, NoneYet, Users
<1>6. UsersAreCounted'
  BY <1>0, <1>5 DEF IInv, UsersAreCounted
<1>7. NotClosedUnderneath'
  BY <1>0 DEF IInv, TypeOK, NotClosedUnderneath
<1> QED
  BY <1>1, <1>2, <1>3, <1>4, <1>6, <1>7 DEF IInv

\* One user more of a stored connection.
LEMMA JoinHolds ==
    ASSUME IInv, NEW s \in Sessions, Join(s)
    PROVE  IInv'
<1> DEFINE p == protocol_dict[target[s]]
<1>0. /\ p \in Protocols /\ p # NoProtocol /\ target[s] \in Gateways
      /\ pc[s] = "waiting" /\ pc' = [pc EXCEPT ![s] = "connected"]
      /\ async_lock = NoSession /\ async_lock' = async_lock
      /\ protocol[s] = NoProtocol
      /\ protocol' = [protocol EXCEPT ![s] = p]
      /\ protocol_users' = [protocol_users EXCEPT ![p] = @ + 1]
      /\ callbacks' = [callbacks EXCEPT ![p] = @ \cup {s}]
      /\ UNCHANGED <<protocol_dict, target, transport, scheduled, twice>>
  BY DEF IInv, TypeOK, Join, Go, Lock, NoneYet
<1>1. TypeOK'
  BY <1>0 DEF IInv, TypeOK, PCs
<1>2. Lock'
  BY <1>0, NoneAssumption DEF IInv, TypeOK, Lock, LockIsOpener, NoneYet, NewIsUnknown,
     MakerIsAlone, Making
<1>3. Callbacks'
  BY <1>0 DEF IInv, TypeOK, Callbacks, CallbacksAreUsers, ScheduledIsLost
<1>4. Registry'
  <2>1. protocol_users[p] > 0 /\ protocol_users[p] \in Nat /\ transport[p] \in {"open", "lost"}
    BY <1>0 DEF IInv, TypeOK, Registry, DictMatchesUsers, RegisteredIsUp
  <2>2. DictMatchesUsers' /\ RegisteredIsUp'
    BY <1>0, <2>1 DEF IInv, TypeOK, Registry, DictMatchesUsers, RegisteredIsUp
  <2>3. Homes'
    BY <1>0, <2>1 DEF IInv, TypeOK, Registry, DictMatchesUsers, Homes
  <2>4. OpenIsRegistered'
    BY <1>0 DEF IInv, TypeOK, Registry, OpenIsRegistered
  <2> QED
    BY <2>2, <2>3, <2>4 DEF Registry
<1>5. ASSUME NEW q \in Protocols, q # p PROVE Users(q)' = Users(q)
  BY <1>0, <1>5, NoneAssumption DEF IInv, TypeOK, Users
<1>6. Users(p)' = Users(p) \cup {s} /\ s \notin Users(p)
  BY <1>0 DEF IInv, TypeOK, Users
<1>7. Cardinality(Users(p)') = Cardinality(Users(p)) + 1
  BY <1>0, <1>6, UsersAreFinite, OneMore
<1>8. UsersAreCounted'
  BY <1>0, <1>5, <1>7, UsersAreFinite DEF IInv, TypeOK, UsersAreCounted
<1>9. NotClosedUnderneath'
  BY <1>0 DEF IInv, TypeOK, NotClosedUnderneath, Registry, RegisteredIsUp
<1> QED
  BY <1>1, <1>2, <1>3, <1>4, <1>8, <1>9 DEF IInv

\* The lock is taken, and a connection is made.
LEMMA OpenHolds ==
    ASSUME IInv, NEW s \in Sessions, BeginOpen(s) \/ OpenSucceeds(s)
    PROVE  IInv'
<1>1. CASE BeginOpen(s)
  <2>0. /\ pc[s] = "waiting" /\ pc' = [pc EXCEPT ![s] = "opening"]
        /\ async_lock = NoSession /\ async_lock' = s
        /\ protocol_dict[target[s]] = NoProtocol /\ protocol[s] = NoProtocol
        /\ UNCHANGED <<protocol_dict, protocol_users, target, protocol, transport,
                       callbacks, scheduled, twice>>
    BY <1>1 DEF BeginOpen, Go, sharedVars, IInv, Lock, NoneYet
  <2>1. TypeOK'
    BY <2>0 DEF IInv, TypeOK, PCs
  <2>2. Lock'
    BY <2>0, NoneAssumption DEF IInv, TypeOK, Lock, LockIsOpener, NoneYet, NewIsUnknown,
       MakerIsAlone, Making
  <2>3. Callbacks'
    BY <2>0 DEF IInv, TypeOK, Callbacks, CallbacksAreUsers, ScheduledIsLost
  <2>4. Registry' /\ NotClosedUnderneath'
    BY <2>0 DEF IInv, TypeOK, Registry, DictMatchesUsers, RegisteredIsUp, Homes,
       OpenIsRegistered, NotClosedUnderneath
  <2>5. \A p \in Protocols : Users(p)' = Users(p)
    BY <2>0 DEF IInv, TypeOK, Users
  <2>6. UsersAreCounted'
    BY <2>0, <2>5 DEF IInv, UsersAreCounted
  <2> QED
    BY <2>1, <2>2, <2>3, <2>4, <2>6 DEF IInv
<1>2. CASE OpenSucceeds(s)
  <2>0. PICK p \in Protocols :
          /\ pc[s] = "opening" /\ pc' = [pc EXCEPT ![s] = "opened"]
          /\ transport[p] = "unused"
          /\ transport' = [transport EXCEPT ![p] = "open"]
          /\ protocol' = [protocol EXCEPT ![s] = p]
          /\ UNCHANGED <<protocol_dict, protocol_users, async_lock, target, callbacks,
                         scheduled, twice>>
    BY <1>2 DEF OpenSucceeds, Go, sharedVars
  <2>1. /\ protocol[s] = NoProtocol
        /\ async_lock = s
        /\ \A t \in Sessions : protocol[t] # p
        /\ \A g \in Gateways : protocol_dict[g] # p
        /\ protocol_users[p] = 0
        /\ p # NoProtocol
    BY <2>0, NoneAssumption DEF IInv, TypeOK, Lock, NoneYet, LockIsOpener, Registry, Homes,
       RegisteredIsUp, DictMatchesUsers
  <2>2. TypeOK'
    BY <2>0 DEF IInv, TypeOK, PCs
  <2>3. Lock'
    BY <2>0, <2>1 DEF IInv, TypeOK, Lock, LockIsOpener, NoneYet, NewIsUnknown,
       MakerIsAlone, Making
  <2>4. Callbacks'
    BY <2>0, <2>1 DEF IInv, TypeOK, Callbacks, CallbacksAreUsers, ScheduledIsLost
  <2>5. Registry'
    BY <2>0, <2>1 DEF IInv, TypeOK, Registry, DictMatchesUsers, RegisteredIsUp, Homes,
       OpenIsRegistered
  <2>6. \A q \in Protocols : Users(q)' = Users(q)
    BY <2>0, <2>1 DEF IInv, TypeOK, Users
  <2>7. Users(p)' = {}
    BY <2>0, <2>1, <2>6 DEF Users
  <2>8. UsersAreCounted'
    BY <2>0, <2>1, <2>6, <2>7, FS_EmptySet DEF IInv, TypeOK, UsersAreCounted
  <2>9. NotClosedUnderneath'
    BY <2>0, <2>1 DEF IInv, TypeOK, NotClosedUnderneath
  <2> QED
    BY <2>2, <2>3, <2>4, <2>5, <2>8, <2>9 DEF IInv
<1> QED
  BY <1>1, <1>2

\* The connection made is stored, and used by one.
LEMMA StoreHolds ==
    ASSUME IInv, NEW s \in Sessions, Store(s)
    PROVE  IInv'
<1> DEFINE p == protocol[s]
<1>0. /\ p \in Protocols /\ p # NoProtocol /\ target[s] \in Gateways
      /\ pc[s] = "opened" /\ async_lock = s
      /\ protocol_dict[target[s]] = NoProtocol
      /\ \A t \in Sessions : protocol[t] = p => t = s
      /\ transport[p] \in {"open", "lost"}
  BY DEF IInv, TypeOK, Store, Lock, LockIsOpener, MakerIsAlone, NewIsUnknown, Making
<1>1. /\ protocol_dict' = [protocol_dict EXCEPT ![target[s]] = p]
      /\ protocol_users' = [protocol_users EXCEPT ![p] = 1]
      /\ UNCHANGED <<target, protocol, transport, scheduled, twice>>
      /\ \/ /\ pc' = [pc EXCEPT ![s] = "token"]
            /\ UNCHANGED <<async_lock, callbacks>>
         \/ /\ pc' = [pc EXCEPT ![s] = "connected"]
            /\ async_lock' = NoSession
            /\ callbacks' = [callbacks EXCEPT ![p] = @ \cup {s}]
  BY DEF Store
<1>2. TypeOK'
  BY <1>0, <1>1 DEF IInv, TypeOK, PCs
<1>3. \A t \in Sessions : t # s => pc[t] \notin Making \cup {"opening"}
  BY <1>0 DEF IInv, Lock, LockIsOpener
<1>4. Lock'
  BY <1>0, <1>1, <1>3, NoneAssumption DEF IInv, TypeOK, Lock, LockIsOpener, NoneYet,
     NewIsUnknown, MakerIsAlone, Making
<1>5. Callbacks'
  BY <1>0, <1>1 DEF IInv, TypeOK, Callbacks, CallbacksAreUsers, ScheduledIsLost
<1>6. \A g \in Gateways : protocol_dict[g] # p
  BY <1>0 DEF IInv, Registry, Homes
<1>7. Registry'
  <2>1. DictMatchesUsers' /\ RegisteredIsUp'
    BY NoneAssumption, <1>0, <1>1, <1>6 DEF IInv, TypeOK, Registry, DictMatchesUsers, RegisteredIsUp
  <2>2. Homes'
    BY <1>0, <1>1, <1>6 DEF IInv, TypeOK, Registry, Homes
  <2>3. OpenIsRegistered'
    BY NoneAssumption, <1>0, <1>1, <1>3 DEF IInv, TypeOK, Registry, OpenIsRegistered, Making
  <2> QED
    BY <2>1, <2>2, <2>3 DEF Registry
<1>8. Users(p)' = {s}
  BY <1>0, <1>1 DEF IInv, TypeOK, Users
<1>9. \A q \in Protocols : q # p => Users(q)' = Users(q)
  BY <1>0, <1>1 DEF IInv, TypeOK, Users
<1>10. UsersAreCounted'
  <2>1. Cardinality(Users(p)') = 1
    BY <1>8, FS_Singleton
  <2> QED
    BY <1>0, <1>1, <1>9, <2>1 DEF IInv, TypeOK, UsersAreCounted
<1>11. NotClosedUnderneath'
  BY <1>0, <1>1 DEF IInv, TypeOK, NotClosedUnderneath
<1> QED
  BY <1>2, <1>4, <1>5, <1>7, <1>10, <1>11 DEF IInv

\* The token was accepted or refused, or the connection went down with it: the
\* connection stays as it is.
LEMMA TokenHolds ==
    ASSUME IInv, NEW s \in Sessions, FinishConnect(s) \/ TokenFails(s)
    PROVE  IInv'
<1> DEFINE p == protocol[s]
<1>0. /\ p \in Protocols /\ p # NoProtocol
      /\ pc[s] \in {"token", "answered"} /\ async_lock = s
      /\ transport[p] \in {"open", "lost"}
  BY DEF IInv, TypeOK, FinishConnect, TokenFails, Go, Lock, LockIsOpener, MakerIsAlone,
     Making
<1>1. /\ async_lock' = NoSession
      /\ UNCHANGED <<protocol_dict, protocol_users, target, protocol, transport,
                     scheduled, twice>>
      /\ \/ /\ pc' = [pc EXCEPT ![s] = "failed"]
            /\ UNCHANGED callbacks
         \/ /\ pc' = [pc EXCEPT ![s] = "connected"]
            /\ callbacks' = [callbacks EXCEPT ![p] = @ \cup {s}]
  BY DEF FinishConnect, TokenFails, Go, sharedVars
<1>2. TypeOK'
  BY <1>0, <1>1 DEF IInv, TypeOK, PCs
<1>3. \A t \in Sessions : t # s => pc[t] \notin Making \cup {"opening"}
  BY <1>0 DEF IInv, Lock, LockIsOpener
<1>4. Lock'
  BY <1>0, <1>1, <1>3 DEF IInv, TypeOK, Lock, LockIsOpener, NoneYet, NewIsUnknown,
     MakerIsAlone, Making
<1>5. Callbacks'
  BY <1>0, <1>1 DEF IInv, TypeOK, Callbacks, CallbacksAreUsers, ScheduledIsLost
<1>6. Registry'
  <2>1. \A t \in Sessions : pc[t] # "opened" \/ pc'[t] = "opened"
    BY <1>0, <1>1 DEF IInv, TypeOK
  <2>2. DictMatchesUsers' /\ RegisteredIsUp' /\ Homes'
    BY <1>1 DEF IInv, Registry, DictMatchesUsers, RegisteredIsUp, Homes
  <2>3. OpenIsRegistered'
    BY <1>1, <2>1 DEF IInv, Registry, OpenIsRegistered
  <2> QED
    BY <2>2, <2>3 DEF Registry
<1>7. \A q \in Protocols : Users(q)' = Users(q)
  BY <1>0, <1>1 DEF IInv, TypeOK, Users
<1>8. UsersAreCounted'
  BY <1>1, <1>7 DEF IInv, UsersAreCounted
<1>9. NotClosedUnderneath'
  BY <1>0, <1>1 DEF IInv, TypeOK, NotClosedUnderneath
<1> QED
  BY <1>2, <1>4, <1>5, <1>6, <1>8, <1>9 DEF IInv

\* The connection is taken back: its maker was its only user.
LEMMA TimeOutHolds ==
    ASSUME IInv, NEW s \in Sessions, TokenTimesOut(s)
    PROVE  IInv'
<1> DEFINE p == protocol[s]
<1>0. /\ p \in Protocols /\ p # NoProtocol /\ target[s] \in Gateways
      /\ pc[s] = "token" /\ async_lock = s
      /\ transport[p] \in {"open", "lost"}
      /\ protocol_dict[target[s]] = p
      /\ \A t \in Sessions : protocol[t] = p => t = s
  BY DEF IInv, TypeOK, TokenTimesOut, Go, Lock, LockIsOpener, MakerIsAlone, NewIsUnknown,
     Making
<1>1. /\ pc' = [pc EXCEPT ![s] = "failed"]
      /\ protocol_dict' = [protocol_dict EXCEPT ![target[s]] = NoProtocol]
      /\ protocol_users' = [protocol_users EXCEPT ![p] = 0]
      /\ transport' = [transport EXCEPT ![p] = IF @ = "open" THEN "closed" ELSE @]
      /\ protocol' = [protocol EXCEPT ![s] = NoProtocol]
      /\ async_lock' = NoSession
      /\ UNCHANGED <<target, callbacks, scheduled, twice>>
  BY DEF TokenTimesOut, Go, ClosedTransport
<1>2. TypeOK'
  BY <1>0, <1>1 DEF IInv, TypeOK, PCs
<1>3. \A t \in Sessions : t # s => pc[t] \notin Making \cup {"opening"}
  BY <1>0 DEF IInv, Lock, LockIsOpener
<1>4. Lock'
  BY <1>0, <1>1, <1>3 DEF IInv, TypeOK, Lock, LockIsOpener, NoneYet, NewIsUnknown,
     MakerIsAlone, Making
<1>5. Callbacks'
  BY <1>0, <1>1 DEF IInv, TypeOK, Callbacks, CallbacksAreUsers, ScheduledIsLost
<1>6. Registry'
  <2>1. \A g \in Gateways : protocol_dict[g] = p => g = target[s]
    BY <1>0 DEF IInv, Registry, Homes
  <2>2. DictMatchesUsers' /\ RegisteredIsUp'
    BY NoneAssumption, <1>0, <1>1, <2>1 DEF IInv, TypeOK, Registry, DictMatchesUsers, RegisteredIsUp
  <2>3. Homes'
    BY <1>0, <1>1, <2>1 DEF IInv, TypeOK, Registry, Homes
  <2>4. OpenIsRegistered'
    BY <1>0, <1>1, <2>1, <1>3 DEF IInv, TypeOK, Registry, OpenIsRegistered, Making
  <2> QED
    BY <2>2, <2>3, <2>4 DEF Registry
<1>7. \A q \in Protocols : q # p => Users(q)' = Users(q)
  BY <1>0, <1>1, NoneAssumption DEF IInv, TypeOK, Users
<1>8. UsersAreCounted'
  BY <1>0, <1>1, <1>7 DEF IInv, TypeOK, UsersAreCounted
<1>9. NotClosedUnderneath'
  BY <1>0, <1>1 DEF IInv, TypeOK, NotClosedUnderneath
<1> QED
  BY <1>2, <1>4, <1>5, <1>6, <1>8, <1>9 DEF IInv

---------------------------------------------------------------------------
(* disconnect.                                                             *)

\* What a disconnect that counts does: the session was a user of its connection.
LEMMA CountOffCases ==
    ASSUME IInv, NEW s \in Sessions, CountOff(s), protocol_users[protocol[s]] # 0,
           protocol[s] # NoProtocol
    PROVE  LET p == protocol[s] IN
           /\ p \in Protocols /\ protocol_users[p] > 0
           /\ target[s] \in Gateways /\ protocol_dict[target[s]] = p
           /\ \A g \in Gateways : protocol_dict[g] = p => g = target[s]
           /\ async_lock = NoSession
           /\ protocol_users' = [protocol_users EXCEPT ![p] = @ - 1]
           /\ \/ /\ protocol_users[p] > 1
                 /\ UNCHANGED <<protocol_dict, protocol, transport>>
              \/ /\ protocol_users[p] = 1
                 /\ protocol_dict' = [protocol_dict EXCEPT ![target[s]] = NoProtocol]
                 /\ transport' = [transport EXCEPT ![p] = IF @ = "open" THEN "closed" ELSE @]
                 /\ protocol' = [protocol EXCEPT ![s] = NoProtocol]
<1> DEFINE p == protocol[s]
<1>1. p \in Protocols /\ protocol_users[p] \in Nat /\ protocol_users[p] > 0 /\ target[s] \in Gateways
  BY DEF IInv, TypeOK
<1>2. PICK g \in Gateways : protocol_dict[g] = p
  BY <1>1 DEF IInv, Registry, DictMatchesUsers
<1>3. \A h \in Gateways : protocol_dict[h] = p => h = target[s]
  BY <1>1 DEF IInv, Registry, Homes
<1>4. protocol_dict[target[s]] = p
  BY <1>2, <1>3
<1> QED
  BY <1>1, <1>3, <1>4 DEF CountOff, ClosedTransport, sharedVars

\* The lock is free, so nobody is making a connection.
LEMMA NobodyMakes ==
    ASSUME IInv, async_lock = NoSession, NEW t \in Sessions
    PROVE  pc[t] \notin Making \cup {"opening"}
BY NoneAssumption DEF IInv, Lock, LockIsOpener

\* One user is counted off: the registry stays consistent, whoever that was.
LEMMA CountOffHolds ==
    ASSUME IInv, NEW s \in Sessions, CountOff(s),
           pc[s] \in {"connected", "gone"},
           pc' = pc \/ (pc[s] = "connected" /\ pc' = [pc EXCEPT ![s] = "gone"]),
           UNCHANGED <<async_lock, target, callbacks>>,
           scheduled' \in SUBSET scheduled,
           twice' = twice \/ twice' = twice \cup ({protocol[s]} \ {NoProtocol})
    PROVE  TypeOK' /\ Lock' /\ Callbacks' /\ Registry'
<1> DEFINE p == protocol[s]
           counts == protocol_users[p] # 0 /\ p # NoProtocol
<1>0. /\ async_lock = NoSession
      /\ \A t \in Sessions : pc[t] \notin Making \cup {"opening"}
      /\ \A t \in Sessions : pc'[t] \notin Making \cup {"opening"}
      /\ \A t \in Sessions : pc'[t] \in {"new", "waiting"} => pc[t] \in {"new", "waiting"} /\ t # s
      /\ \A t \in Sessions : pc[t] \in {"connected", "gone"} => pc'[t] \in {"connected", "gone"}
      /\ pc' \in [Sessions -> PCs]
  <2>1. async_lock = NoSession
    BY DEF CountOff
  <2> QED
    BY <2>1, NobodyMakes DEF IInv, TypeOK, Making, PCs
<1>t. twice' \in SUBSET Protocols
  BY DEF IInv, TypeOK
<1>1. ASSUME ~counts
      PROVE  TypeOK' /\ Lock' /\ Callbacks' /\ Registry'
  <2>0. UNCHANGED <<protocol_dict, protocol_users, protocol, transport>>
    BY <1>1 DEF CountOff, sharedVars
  <2>1. TypeOK'
    BY <1>0, <1>t, <2>0 DEF IInv, TypeOK
  <2>2. Lock'
    BY <1>0, <2>0 DEF IInv, Lock, LockIsOpener, NoneYet, NewIsUnknown, MakerIsAlone, Making
  <2>3. Callbacks'
    BY <1>0, <2>0 DEF IInv, TypeOK, Callbacks, CallbacksAreUsers, ScheduledIsLost
  <2>4. Registry'
    <3>1. DictMatchesUsers' /\ RegisteredIsUp' /\ Homes'
      BY <2>0 DEF IInv, Registry, DictMatchesUsers, RegisteredIsUp, Homes
    <3>2. OpenIsRegistered'
      BY <1>0, <2>0 DEF IInv, Registry, OpenIsRegistered, Making
    <3> QED
      BY <3>1, <3>2 DEF Registry
  <2> QED
    BY <2>1, <2>2, <2>3, <2>4
<1>2. ASSUME counts
      PROVE  TypeOK' /\ Lock' /\ Callbacks' /\ Registry'
  <2>0. /\ p \in Protocols /\ protocol_users[p] > 0 /\ p # NoProtocol
        /\ target[s] \in Gateways /\ protocol_dict[target[s]] = p
        /\ \A g \in Gateways : protocol_dict[g] = p => g = target[s]
        /\ protocol_users' = [protocol_users EXCEPT ![p] = @ - 1]
        /\ \/ /\ protocol_users[p] > 1
              /\ UNCHANGED <<protocol_dict, protocol, transport>>
           \/ /\ protocol_users[p] = 1
              /\ protocol_dict' = [protocol_dict EXCEPT ![target[s]] = NoProtocol]
              /\ transport' = [transport EXCEPT ![p] = IF @ = "open" THEN "closed" ELSE @]
              /\ protocol' = [protocol EXCEPT ![s] = NoProtocol]
    BY <1>2, CountOffCases
  <2>1. TypeOK'
    BY <1>0, <1>t, <2>0 DEF IInv, TypeOK
  <2>2. Lock'
    BY <1>0, <2>0 DEF IInv, TypeOK, Lock, LockIsOpener, NoneYet, NewIsUnknown, MakerIsAlone, Making
  <2>3. Callbacks'
    BY <1>0, <2>0 DEF IInv, TypeOK, Callbacks, CallbacksAreUsers, ScheduledIsLost
  <2>4. Registry'
    <3>1. DictMatchesUsers'
      BY NoneAssumption, <2>0 DEF IInv, TypeOK, Registry, DictMatchesUsers
    <3>2. RegisteredIsUp'
      BY <2>0 DEF IInv, TypeOK, Registry, RegisteredIsUp
    <3>3. Homes'
      BY <2>0 DEF IInv, TypeOK, Registry, Homes
    <3>4. OpenIsRegistered'
      BY <1>0, <2>0 DEF IInv, TypeOK, Registry, OpenIsRegistered, Making
    <3> QED
      BY <3>1, <3>2, <3>3, <3>4 DEF Registry
  <2> QED
    BY <2>1, <2>2, <2>3, <2>4
<1> QED
  BY <1>1, <1>2

\* Connections other than p are counted as before, and closed no more than before,
\* when only p and the session counted off p change.
LEMMA OthersAreCounted ==
    ASSUME IInv, NEW s \in Sessions, NEW p \in Protocols, protocol[s] = p,
           protocol' = protocol \/ protocol' = [protocol EXCEPT ![s] = NoProtocol],
           pc' = pc \/ pc' = [pc EXCEPT ![s] = "gone"],
           \A q \in Protocols : q # p =>
               transport'[q] = transport[q] /\ protocol_users'[q] = protocol_users[q],
           twice \subseteq twice'
    PROVE  /\ \A q \in Protocols : q # p => Users(q)' = Users(q)
           /\ \A q \in Protocols : q # p /\ transport'[q] = "open" /\ q \notin twice' =>
                protocol_users'[q] = Cardinality(Users(q)')
           /\ \A t \in Sessions :
                pc'[t] = "connected" /\ protocol'[t] # NoProtocol /\ protocol'[t] # p =>
                    transport'[protocol'[t]] # "closed" \/ protocol'[t] \in twice'
<1>1. \A q \in Protocols : q # p => Users(q)' = Users(q)
  BY NoneAssumption DEF IInv, TypeOK, Users
<1>2. \A q \in Protocols : q # p /\ transport'[q] = "open" /\ q \notin twice' =>
         protocol_users'[q] = Cardinality(Users(q)')
  BY <1>1 DEF IInv, UsersAreCounted
<1>3. ASSUME NEW t \in Sessions, pc'[t] = "connected", protocol'[t] # NoProtocol,
             protocol'[t] # p
      PROVE  transport'[protocol'[t]] # "closed" \/ protocol'[t] \in twice'
  <2>1. pc[t] = "connected" /\ protocol[t] = protocol'[t] /\ protocol[t] \in Protocols
    BY <1>3 DEF IInv, TypeOK
  <2> QED
    BY <1>3, <2>1 DEF IInv, NotClosedUnderneath
<1> QED
  BY <1>1, <1>2, <1>3

\* A user disconnects: one user less, and the last one closes its connection.
LEMMA DisconnectHolds ==
    ASSUME IInv, NEW s \in Sessions, Disconnect(s)
    PROVE  IInv'
<1>p. PICK p \in Protocols \cup {NoProtocol} : protocol[s] = p
  BY DEF IInv, TypeOK
<1> USE <1>p
<1>0. /\ CountOff(s) /\ pc[s] = "connected" /\ pc' = [pc EXCEPT ![s] = "gone"]
      /\ UNCHANGED <<async_lock, target, callbacks, scheduled, twice>>
  BY DEF Disconnect, Go
<1>1. TypeOK' /\ Lock' /\ Callbacks' /\ Registry'
  BY <1>0, CountOffHolds
<1>2. ASSUME p = NoProtocol PROVE UsersAreCounted' /\ NotClosedUnderneath'
  <2>1. UNCHANGED <<protocol_users, protocol, transport>>
    BY <1>0, <1>2 DEF CountOff, sharedVars
  <2>2. \A q \in Protocols : Users(q)' = Users(q)
    BY <1>0, <1>2, <2>1, NoneAssumption DEF IInv, TypeOK, Users
  <2>3. UsersAreCounted'
    BY <1>0, <2>1, <2>2 DEF IInv, UsersAreCounted
  <2>4. NotClosedUnderneath'
    BY <1>0, <2>1 DEF IInv, TypeOK, NotClosedUnderneath
  <2> QED
    BY <2>3, <2>4
<1>3. ASSUME p # NoProtocol PROVE UsersAreCounted' /\ NotClosedUnderneath'
  <2>1. p \in Protocols /\ s \in Users(p) /\ protocol_users[p] \in Nat
    BY <1>0, <1>3 DEF IInv, TypeOK, Users
  <2>2. transport[p] = "open" /\ p \notin twice =>
          /\ protocol_users[p] = Cardinality(Users(p))
          /\ Cardinality(Users(p) \ {s}) = protocol_users[p] - 1
    BY <2>1, UsersAreFinite, OneLess DEF IInv, UsersAreCounted
  <2>3. Cardinality(Users(p) \ {s}) \in Nat
    BY <2>1, UsersAreFinite, FS_Subset, FS_CardinalityType
  <2>4. /\ protocol' = protocol \/ protocol' = [protocol EXCEPT ![s] = NoProtocol]
        /\ \A q \in Protocols : q # p =>
             transport'[q] = transport[q] /\ protocol_users'[q] = protocol_users[q]
    BY <2>1 DEF CountOff, ClosedTransport, sharedVars, IInv, TypeOK, Disconnect
  <2>5. /\ \A q \in Protocols : q # p /\ transport'[q] = "open" /\ q \notin twice' =>
             protocol_users'[q] = Cardinality(Users(q)')
        /\ \A t \in Sessions :
             pc'[t] = "connected" /\ protocol'[t] # NoProtocol /\ protocol'[t] # p =>
                 transport'[protocol'[t]] # "closed" \/ protocol'[t] \in twice'
    BY <1>0, <2>1, <2>4, OthersAreCounted
  <2>6. Users(p)' = Users(p) \ {s}
    <3>1. pc'[s] = "gone" /\ \A t \in Sessions : t # s => pc'[t] = pc[t] /\ protocol'[t] = protocol[t]
      BY <1>0, <2>4 DEF IInv, TypeOK
    <3> QED
      BY <3>1 DEF Users
  <2>7. transport'[p] = "open" /\ p \notin twice' => protocol_users'[p] = Cardinality(Users(p)')
    <3> SUFFICES ASSUME transport'[p] = "open", p \notin twice'
                 PROVE  protocol_users'[p] = Cardinality(Users(p) \ {s})
      BY <2>6
    <3>1. transport[p] = "open" /\ p \notin twice
      BY <1>0, <1>3, <2>1 DEF CountOff, ClosedTransport, IInv, TypeOK
    <3>2. protocol_users[p] # 0
      BY <2>2, <2>3, <3>1
    <3>3. protocol_users' = [protocol_users EXCEPT ![p] = @ - 1]
      BY <1>0, <1>3, <3>2, CountOffCases
    <3> QED
      BY <2>1, <2>2, <3>1, <3>3 DEF IInv, TypeOK
  <2>8. UsersAreCounted'
    BY <2>5, <2>7 DEF UsersAreCounted
  <2>9. ASSUME NEW t \in Sessions, pc'[t] = "connected", protocol'[t] = p
        PROVE  transport'[p] # "closed" \/ p \in twice'
    <3>0. t # s /\ pc[t] = "connected" /\ protocol[t] = p /\ t \in Users(p)
      BY <1>0, <1>3, <2>4, <2>9, NoneAssumption DEF IInv, TypeOK, Users
    <3>1. CASE protocol_users[p] # 1 \/ transport[p] # "open"
      <4>1. transport'[p] = transport[p]
        BY <1>0, <1>3, <2>1, <3>1 DEF CountOff, ClosedTransport, sharedVars, IInv, TypeOK
      <4> QED
        BY <1>0, <1>3, <3>0, <4>1 DEF IInv, NotClosedUnderneath
    <3>2. CASE protocol_users[p] = 1 /\ transport[p] = "open"
      <4>1. p \in twice \/ Cardinality(Users(p) \ {s}) = 0
        BY <2>2, <3>2
      <4>2. p \in twice \/ Users(p) \ {s} = {}
        BY <2>1, <4>1, UsersAreFinite, FS_Subset, FS_EmptySet
      <4> QED
        BY <1>0, <3>0, <4>2
    <3> QED BY <3>1, <3>2
  <2>10. NotClosedUnderneath'
    BY <2>5, <2>9 DEF NotClosedUnderneath
  <2> QED
    BY <2>8, <2>10
<1> QED
  BY <1>1, <1>2, <1>3 DEF IInv

\* A second disconnect of an object, or its callback's: what it counts off is marked
\* as counted twice, or no longer open.
LEMMA LateDisconnectHolds ==
    ASSUME IInv, NEW s \in Sessions, DisconnectAgain(s) \/ CallbackDisconnect(s)
    PROVE  IInv'
<1>p. PICK p \in Protocols \cup {NoProtocol} : protocol[s] = p
  BY DEF IInv, TypeOK
<1> USE <1>p
<1>0. /\ CountOff(s) /\ pc[s] \in {"connected", "gone"} /\ pc' = pc
      /\ UNCHANGED <<async_lock, target, callbacks>>
      /\ scheduled' \in SUBSET scheduled
      /\ \/ twice' = twice /\ (p # NoProtocol => transport[p] # "open")
         \/ twice' = twice \cup ({p} \ {NoProtocol})
  BY DEF DisconnectAgain, CallbackDisconnect, IInv, Callbacks, ScheduledIsLost
<1>1. TypeOK' /\ Lock' /\ Callbacks' /\ Registry'
  BY <1>0, CountOffHolds
<1>2. ASSUME p = NoProtocol PROVE UsersAreCounted' /\ NotClosedUnderneath'
  <2>1. UNCHANGED <<protocol_users, protocol, transport, pc, twice>>
    BY <1>0, <1>2 DEF CountOff, sharedVars
  <2>2. \A q \in Protocols : Users(q)' = Users(q)
    BY <2>1 DEF Users
  <2> QED
    BY <2>1, <2>2 DEF IInv, UsersAreCounted, NotClosedUnderneath
<1>3. ASSUME p # NoProtocol PROVE UsersAreCounted' /\ NotClosedUnderneath'
  <2>1. p \in Protocols
    BY <1>3 DEF IInv, TypeOK
  <2>2. /\ protocol' = protocol \/ protocol' = [protocol EXCEPT ![s] = NoProtocol]
        /\ \A q \in Protocols : q # p =>
             transport'[q] = transport[q] /\ protocol_users'[q] = protocol_users[q]
    BY <1>0, <2>1 DEF CountOff, ClosedTransport, sharedVars, IInv, TypeOK
  <2>2b. \/ transport'[p] = transport[p]
         \/ (transport[p] = "open" /\ transport'[p] = "closed")
    BY <1>0, <2>1 DEF CountOff, ClosedTransport, sharedVars, IInv, TypeOK
  <2>3. p \in twice' \/ (transport[p] # "open" /\ twice' = twice)
    BY <1>0, <2>1, NoneAssumption
  <2>4. /\ \A q \in Protocols : q # p /\ transport'[q] = "open" /\ q \notin twice' =>
             protocol_users'[q] = Cardinality(Users(q)')
        /\ \A t \in Sessions :
             pc'[t] = "connected" /\ protocol'[t] # NoProtocol /\ protocol'[t] # p =>
                 transport'[protocol'[t]] # "closed" \/ protocol'[t] \in twice'
    BY <1>0, <2>1, <2>2, OthersAreCounted
  <2>5. UsersAreCounted'
    BY <2>2, <2>2b, <2>3, <2>4 DEF UsersAreCounted
  <2>6. ASSUME NEW t \in Sessions, pc'[t] = "connected", protocol'[t] = p
        PROVE  transport'[p] # "closed" \/ p \in twice'
    <3>1. pc[t] = "connected" /\ protocol[t] = p
      BY <1>0, <1>3, <2>2, <2>6 DEF IInv, TypeOK
    <3> QED
      BY <1>3, <2>2, <2>2b, <2>3, <3>1 DEF IInv, NotClosedUnderneath
  <2>7. NotClosedUnderneath'
    BY <2>4, <2>6 DEF NotClosedUnderneath
  <2> QED
    BY <2>5, <2>7
<1> QED
  BY <1>1, <1>2, <1>3 DEF IInv

---------------------------------------------------------------------------
\* A connection ends: it stays stored and counted.
LEMMA LoseHolds ==
    ASSUME IInv, NEW p \in Protocols, NEW loss \in Losses, Lose(p, loss)
    PROVE  IInv'
<1>0. /\ transport[p] = "open"
      /\ transport' = [transport EXCEPT ![p] = "lost"]
      /\ scheduled' = scheduled \/ scheduled' = scheduled \cup callbacks[p]
      /\ UNCHANGED <<protocol_dict, protocol_users, async_lock, pc, target, protocol,
                     callbacks, twice>>
  BY DEF Lose, sharedVars
<1>1. TypeOK'
  BY <1>0 DEF IInv, TypeOK
<1>2. Lock'
  BY <1>0 DEF IInv, TypeOK, Lock, LockIsOpener, NoneYet, NewIsUnknown, MakerIsAlone, Making
<1>3. Callbacks'
  BY <1>0 DEF IInv, TypeOK, Callbacks, CallbacksAreUsers, ScheduledIsLost
<1>4. Registry'
  BY <1>0 DEF IInv, TypeOK, Registry, DictMatchesUsers, RegisteredIsUp, Homes,
     OpenIsRegistered
<1>5. \A q \in Protocols : Users(q)' = Users(q)
  BY <1>0 DEF Users
<1>6. UsersAreCounted' /\ NotClosedUnderneath'
  BY <1>0, <1>5 DEF IInv, TypeOK, UsersAreCounted, NotClosedUnderneath
<1> QED
  BY <1>1, <1>2, <1>3, <1>4, <1>6 DEF IInv

\* Every step keeps the invariant.
LEMMA StepHolds == IInv /\ [Next]_vars => IInv'
<1> SUFFICES ASSUME IInv, [Next]_vars PROVE IInv'
  OBVIOUS
<1>1. CASE UNCHANGED vars
  BY <1>1 DEF vars, sharedVars, IInv, TypeOK, Lock, LockIsOpener, NoneYet, NewIsUnknown,
     MakerIsAlone, Callbacks, CallbacksAreUsers, ScheduledIsLost, Registry,
     DictMatchesUsers, RegisteredIsUp, Homes, OpenIsRegistered, UsersAreCounted, Users,
     NotClosedUnderneath
<1>2. ASSUME NEW s \in Sessions,
             \/ Connect(s) \/ Join(s) \/ BeginOpen(s)
             \/ Opening(s) \/ Store(s) \/ SettingToken(s)
             \/ Disconnect(s) \/ DisconnectAgain(s) \/ CallbackDisconnect(s)
      PROVE  IInv'
  BY <1>2, ConnectHolds, JoinHolds, OpenHolds, StoreHolds, TokenHolds, TimeOutHolds,
     DisconnectHolds, LateDisconnectHolds DEF Opening, SettingToken
<1>3. ASSUME NEW p \in Protocols, NEW loss \in Losses, Lose(p, loss) PROVE IInv'
  BY <1>3, LoseHolds
<1> QED
  BY <1>1, <1>2, <1>3 DEF Next

\* The invariant holds throughout.
LEMMA Invariance == Spec => []IInv
BY InitHolds, StepHolds, PTL DEF Spec

\* Counts stay natural numbers: no disconnect takes one below zero, however often
\* and by whomever it is called (line 382).
THEOREM TypeCorrect == Spec => []TypeOK
<1>1. IInv => TypeOK
  BY DEF IInv
<1> QED
  BY <1>1, Invariance, PTL

\* protocol_dict and protocol_users agree at every await (lines 338-353, 378-387).
THEOREM UsersMatchDict == Spec => []DictMatchesUsers
<1>1. IInv => DictMatchesUsers
  BY DEF IInv, Registry
<1> QED
  BY <1>1, Invariance, PTL

\* protocol_dict knows every open connection but the one being made (lines
\* 338-360, 378-387).
THEOREM ConnectionsAreRegistered == Spec => []OpenIsRegistered
<1>1. IInv => OpenIsRegistered
  BY DEF IInv, Registry
<1> QED
  BY <1>1, Invariance, PTL

\* The count of an open connection is the number of its users, where nobody
\* disconnects twice.
THEOREM CountsAreExact == Spec => []UsersAreCounted
<1>1. IInv => UsersAreCounted
  BY DEF IInv
<1> QED
  BY <1>1, Invariance, PTL

\* No disconnect, failed connect or callback closes the connection of another
\* session that is connected, where nobody disconnects twice.
THEOREM NobodyIsCutOff == Spec => []NotClosedUnderneath
<1>1. IInv => NotClosedUnderneath
  BY DEF IInv
<1> QED
  BY <1>1, Invariance, PTL

\* Only one task at a time is making a connection, and it alone uses what it makes
\* until it has let go of the loop's lock (lines 338-355).
THEOREM MakersAreAlone == Spec => [](LockIsOpener /\ MakerIsAlone)
<1>1. IInv => LockIsOpener /\ MakerIsAlone
  BY DEF IInv, Lock
<1> QED
  BY <1>1, Invariance, PTL
---------------------------------------------------------------------------
(* Progress, with the guards of fair actions in place of ENABLED.          *)

\* Whoever has the lock is making a connection.
OwnerMakes ==
    \A s \in Sessions : async_lock = s => pc[s] \in Making \cup {"opening"}

LEMMA OwnerStep == IInv /\ OwnerMakes /\ [Next]_vars => OwnerMakes'
<1> SUFFICES ASSUME IInv, OwnerMakes, [Next]_vars, NEW s \in Sessions, async_lock' = s
             PROVE  pc'[s] \in Making \cup {"opening"}
  BY DEF OwnerMakes
<1> USE DEF IInv, TypeOK, Making
<1>0. async_lock = s => pc[s] \in Making \cup {"opening"}
  BY DEF OwnerMakes
<1>1. ASSUME NEW r \in Sessions, Connect(r) \/ Join(r) \/ BeginOpen(r)
      PROVE  pc'[s] \in Making \cup {"opening"}
  BY <1>0, <1>1, NoneAssumption DEF Connect, Join, BeginOpen, Go
<1>2. ASSUME NEW r \in Sessions, Opening(r) \/ Store(r)
      PROVE  pc'[s] \in Making \cup {"opening"}
  BY <1>0, <1>2, NoneAssumption DEF Opening, OpenSucceeds, OpenFails, Store, Go
<1>3. ASSUME NEW r \in Sessions, SettingToken(r)
      PROVE  pc'[s] \in Making \cup {"opening"}
  BY <1>0, <1>3, NoneAssumption
  DEF SettingToken, TokenAnswered, FinishConnect, TokenFails, TokenTimesOut, Go
<1>4. ASSUME NEW r \in Sessions,
             Disconnect(r) \/ DisconnectAgain(r) \/ CallbackDisconnect(r)
      PROVE  pc'[s] \in Making \cup {"opening"}
  BY <1>0, <1>4, NoneAssumption
  DEF Disconnect, DisconnectAgain, CallbackDisconnect, CountOff, Go
<1>5. ASSUME NEW p \in Protocols, NEW loss \in Losses, Lose(p, loss)
      PROVE  pc'[s] \in Making \cup {"opening"}
  BY <1>0, <1>5 DEF Lose
<1>6. CASE UNCHANGED vars
  BY <1>0, <1>6 DEF vars, sharedVars
<1> QED
  BY <1>1, <1>2, <1>3, <1>4, <1>5, <1>6 DEF Next

\* The lock's owner is making a connection, at all times.
LEMMA OwnerHolds == Spec => []OwnerMakes
<1>1. Init => OwnerMakes
  BY NoneAssumption DEF Init, OwnerMakes
<1> QED
  BY <1>1, OwnerStep, Invariance, PTL DEF Spec

At(i) == \E s \in Sessions : pc[s] = i

\* What a step does to a connect that has the lock: it goes on, or lets go.
LEMMA MakingGoesOn ==
    ASSUME IInv, OwnerMakes, [Next]_vars
    PROVE  /\ At("opening") => At("opening")' \/ At("opened")' \/ (async_lock = NoSession)'
           /\ At("opened") => At("opened")' \/ At("token")' \/ (async_lock = NoSession)'
           /\ At("token") => At("token")' \/ At("answered")' \/ (async_lock = NoSession)'
           /\ At("answered") => At("answered")' \/ (async_lock = NoSession)'
<1> SUFFICES ASSUME NEW s \in Sessions, pc[s] \in Making \cup {"opening"},
                    async_lock' # NoSession
             PROVE  /\ pc[s] = "opening" => pc'[s] \in {"opening", "opened"}
                    /\ pc[s] = "opened" => pc'[s] \in {"opened", "token"}
                    /\ pc[s] = "token" => pc'[s] \in {"token", "answered"}
                    /\ pc[s] = "answered" => pc'[s] = "answered"
  BY DEF At, Making
<1> USE DEF IInv, TypeOK, Making
<1>0. async_lock = s
  BY DEF Lock, LockIsOpener
<1>1. ASSUME NEW r \in Sessions, Connect(r) \/ Join(r) \/ BeginOpen(r)
      PROVE  pc'[s] = pc[s]
  BY <1>0, <1>1, NoneAssumption DEF Connect, Join, BeginOpen, Go
<1>2. ASSUME NEW r \in Sessions, Opening(r) \/ Store(r) \/ SettingToken(r)
      PROVE  /\ pc[s] = "opening" => pc'[s] \in {"opening", "opened"}
             /\ pc[s] = "opened" => pc'[s] \in {"opened", "token"}
             /\ pc[s] = "token" => pc'[s] \in {"token", "answered"}
             /\ pc[s] = "answered" => pc'[s] = "answered"
  BY <1>0, <1>2, NoneAssumption
  DEF Opening, OpenSucceeds, OpenFails, Store, SettingToken, TokenAnswered, FinishConnect,
      TokenFails, TokenTimesOut, Go
<1>3. ASSUME NEW r \in Sessions,
             Disconnect(r) \/ DisconnectAgain(r) \/ CallbackDisconnect(r)
      PROVE  pc'[s] = pc[s]
  BY <1>3 DEF Disconnect, DisconnectAgain, CallbackDisconnect, Go
<1>4. ASSUME NEW p \in Protocols, NEW loss \in Losses, Lose(p, loss) PROVE pc'[s] = pc[s]
  BY <1>4 DEF Lose
<1>5. CASE UNCHANGED vars
  BY <1>5 DEF vars
<1> QED
  BY <1>1, <1>2, <1>3, <1>4, <1>5 DEF Next

\* What the steps do that fairness is about: only one session can take them.
LEMMA MakingEnds ==
    ASSUME IInv, NEW s \in Sessions
    PROVE  /\ Opening(s) => At("opened")' \/ (async_lock = NoSession)'
           /\ Store(s) => At("token")' \/ (async_lock = NoSession)'
           /\ SettingToken(s) =>
                \/ At("token") /\ ~At("answered") /\ At("answered")'
                \/ (async_lock = NoSession)'
<1> USE DEF IInv, TypeOK, At
<1>1. Opening(s) => pc'[s] = "opened" \/ async_lock' = NoSession
  BY DEF Opening, OpenSucceeds, OpenFails, Go
<1>2. Store(s) => pc'[s] = "token" \/ async_lock' = NoSession
  BY DEF Store
<1>3. ASSUME SettingToken(s), async_lock' # NoSession
      PROVE  pc[s] = "token" /\ pc'[s] = "answered"
  BY <1>3 DEF SettingToken, TokenAnswered, FinishConnect, TokenFails, TokenTimesOut, Go
<1>4. ASSUME pc[s] = "token", NEW r \in Sessions, pc[r] = "answered" PROVE FALSE
  BY <1>4 DEF Lock, LockIsOpener, Making
<1> QED
  BY <1>1, <1>2, <1>3, <1>4

\* wait_for bounds create_connection and the token, and a task that is ready runs
\* on (lines 343-355): weak fairness of these steps for whoever has the lock.
ConnectGoesOn ==
    /\ []<>~At("opening") \/ []<><<\E s \in Sessions : Opening(s)>>_vars
    /\ []<>~At("opened") \/ []<><<\E s \in Sessions : Store(s)>>_vars
    /\ \/ []<>~(At("token") \/ At("answered"))
       \/ []<><<\E s \in Sessions : SettingToken(s)>>_vars

\* Given that, the loop's lock is free again and again: a connect that has it ends,
\* whatever happens to its connection, and lets the others in.
THEOREM LoopLockComesBack == Spec /\ ConnectGoesOn => []<>(async_lock = NoSession)
<1> DEFINE Inv == IInv /\ OwnerMakes
<1>1. Inv => \/ async_lock = NoSession \/ At("opening") \/ At("opened")
             \/ At("token") \/ At("answered")
  BY DEF IInv, TypeOK, OwnerMakes, Making, At
<1>2. Inv /\ [Next]_vars =>
        /\ At("opening") => At("opening")' \/ At("opened")' \/ (async_lock = NoSession)'
        /\ At("opened") => At("opened")' \/ At("token")' \/ (async_lock = NoSession)'
        /\ At("token") => At("token")' \/ At("answered")' \/ (async_lock = NoSession)'
        /\ At("answered") => At("answered")' \/ (async_lock = NoSession)'
  BY MakingGoesOn
<1>3. Inv /\ <<\E s \in Sessions : Opening(s)>>_vars =>
        At("opened")' \/ (async_lock = NoSession)'
  BY MakingEnds
<1>4. Inv /\ <<\E s \in Sessions : Store(s)>>_vars =>
        At("token")' \/ (async_lock = NoSession)'
  BY MakingEnds
<1>5. Inv /\ <<\E s \in Sessions : SettingToken(s)>>_vars =>
        \/ At("token") /\ ~At("answered") /\ At("answered")'
        \/ (async_lock = NoSession)'
  BY MakingEnds
<1>6. Spec => []Inv
  BY Invariance, OwnerHolds, PTL
<1> HIDE DEF Inv
<1>7. Spec /\ ConnectGoesOn => (At("answered") ~> async_lock = NoSession)
  BY <1>2, <1>5, <1>6, PTL DEF Spec, ConnectGoesOn
<1>8. Spec /\ ConnectGoesOn => (At("token") ~> At("answered") \/ async_lock = NoSession)
  BY <1>2, <1>5, <1>6, PTL DEF Spec, ConnectGoesOn
<1>9. Spec /\ ConnectGoesOn => (At("opened") ~> At("token") \/ async_lock = NoSession)
  BY <1>2, <1>4, <1>6, PTL DEF Spec, ConnectGoesOn
<1>10. Spec /\ ConnectGoesOn => (At("opening") ~> At("opened") \/ async_lock = NoSession)
  BY <1>2, <1>3, <1>6, PTL DEF Spec, ConnectGoesOn
<1> QED
  BY <1>1, <1>6, <1>7, <1>8, <1>9, <1>10, PTL

\* Who waits for the lock waits behind the other sessions once each: a session takes
\* the lock at most once, when it leaves the queue, and never comes back to it.
TakesTheLockOnce ==
    [][\A s \in Sessions :
          /\ pc[s] \notin {"new", "waiting"} => pc'[s] \notin {"new", "waiting"}
          /\ async_lock # s /\ async_lock' = s =>
                pc[s] = "waiting" /\ pc'[s] # "waiting"]_vars

\* No later connect of another session can overtake a waiting one more than once
\* (asyncio.Lock, lines 338-372).
THEOREM WaitsAreBounded == Spec => TakesTheLockOnce
<1>1. IInv /\ [Next]_vars =>
        [\A s \in Sessions :
            /\ pc[s] \notin {"new", "waiting"} => pc'[s] \notin {"new", "waiting"}
            /\ async_lock # s /\ async_lock' = s =>
                  pc[s] = "waiting" /\ pc'[s] # "waiting"]_vars
  <2> SUFFICES ASSUME IInv, Next, NEW s \in Sessions
               PROVE  /\ pc[s] \notin {"new", "waiting"} => pc'[s] \notin {"new", "waiting"}
                      /\ async_lock # s /\ async_lock' = s =>
                            pc[s] = "waiting" /\ pc'[s] # "waiting"
    OBVIOUS
  <2> USE NoneAssumption DEF IInv, TypeOK, Go
  <2> QED
    BY DEF Next, Connect, Join, BeginOpen, Opening, OpenSucceeds, OpenFails, Store,
       SettingToken, TokenAnswered, FinishConnect, TokenFails, TokenTimesOut, Disconnect,
       DisconnectAgain, CallbackDisconnect, Lose
<1> QED
  BY <1>1, Invariance, PTL DEF Spec, TakesTheLockOnce

\* asyncio.Lock lets in who waits for it (line 338): strong fairness of the steps
\* that leave the queue, with what enables them written out.
LetsIn(s) ==
    \/ <>[]~(pc[s] = "waiting" /\ async_lock = NoSession)
    \/ []<><<Join(s) \/ BeginOpen(s)>>_vars

\* Where connect is once it was let in.
InConnect(s) == pc[s] \in Making \cup {"opening"}
Ended(s) == pc[s] \in {"connected", "failed", "gone"}

\* A connect that waits is let in or waits on; one that was let in goes on, and has
\* the lock until it ends.
LEMMA ConnectGoesOnward ==
    ASSUME IInv, [Next]_vars, NEW s \in Sessions
    PROVE  /\ pc[s] = "waiting" => (pc[s] = "waiting")' \/ InConnect(s)' \/ Ended(s)'
           /\ InConnect(s) => InConnect(s)' \/ Ended(s)'
           /\ InConnect(s) => async_lock # NoSession
           /\ Join(s) \/ BeginOpen(s) => InConnect(s)' \/ Ended(s)'
<1> USE NoneAssumption DEF IInv, TypeOK, Making, InConnect, Ended, Go
<1>1. InConnect(s) => async_lock # NoSession
  BY DEF Lock, LockIsOpener
<1>2. Join(s) \/ BeginOpen(s) => InConnect(s)' \/ Ended(s)'
  BY DEF Join, BeginOpen
<1>3. ASSUME Next
      PROVE  /\ pc[s] = "waiting" => (pc[s] = "waiting")' \/ InConnect(s)' \/ Ended(s)'
             /\ InConnect(s) => InConnect(s)' \/ Ended(s)'
  BY <1>3 DEF Next, Connect, Join, BeginOpen, Opening, OpenSucceeds, OpenFails, Store,
     SettingToken, TokenAnswered, FinishConnect, TokenFails, TokenTimesOut, Disconnect,
     DisconnectAgain, CallbackDisconnect, Lose
<1>4. ASSUME UNCHANGED vars
      PROVE  /\ pc[s] = "waiting" => (pc[s] = "waiting")' \/ InConnect(s)' \/ Ended(s)'
             /\ InConnect(s) => InConnect(s)' \/ Ended(s)'
  BY <1>4 DEF vars
<1> HIDE DEF IInv, InConnect, Ended
<1> QED
  BY <1>1, <1>2, <1>3, <1>4

\* With a fair loop and a fair lock every connect ends, with a session or with an
\* exception, whatever the gateways and the other sessions do (lines 338-372).
THEOREM ConnectsEndForEach ==
    ASSUME NEW s \in Sessions
    PROVE  Spec /\ ConnectGoesOn /\ LetsIn(s) =>
             ((pc[s] = "waiting") ~> (pc[s] \in {"connected", "failed", "gone"}))
<1>1. IInv /\ [Next]_vars =>
        /\ pc[s] = "waiting" => (pc[s] = "waiting")' \/ InConnect(s)' \/ Ended(s)'
        /\ InConnect(s) => InConnect(s)' \/ Ended(s)'
        /\ InConnect(s) => ~(async_lock = NoSession)
        /\ Join(s) \/ BeginOpen(s) => InConnect(s)' \/ Ended(s)'
  BY ConnectGoesOnward
<1>2. IInv /\ <<Join(s) \/ BeginOpen(s)>>_vars /\ [Next]_vars => InConnect(s)' \/ Ended(s)'
  BY <1>1
<1>3. IInv /\ InConnect(s) => ~(async_lock = NoSession)
  BY NoneAssumption DEF IInv, Lock, LockIsOpener, InConnect, Making, TypeOK
<1>4. Spec => []IInv
  BY Invariance
<1>5. Spec /\ ConnectGoesOn => []<>(async_lock = NoSession)
  BY LoopLockComesBack
<1>6. Spec /\ ConnectGoesOn => (InConnect(s) ~> Ended(s))
  BY <1>1, <1>3, <1>4, <1>5, PTL DEF Spec
<1>7. Spec /\ ConnectGoesOn /\ LetsIn(s) => ((pc[s] = "waiting") ~> InConnect(s) \/ Ended(s))
  BY <1>1, <1>2, <1>4, <1>5, PTL DEF Spec, LetsIn
<1>8. Ended(s) => pc[s] \in {"connected", "failed", "gone"}
  BY DEF Ended
<1> QED
  BY <1>6, <1>7, <1>8, PTL

\* The same of all sessions.
THEOREM EveryConnectEnds ==
    Spec /\ ConnectGoesOn /\ (\A s \in Sessions : LetsIn(s)) => ConnectsEnd
<1> SUFFICES ASSUME NEW s \in Sessions
             PROVE  Spec /\ ConnectGoesOn /\ (\A r \in Sessions : LetsIn(r)) =>
                      ((pc[s] = "waiting") ~> (pc[s] \in {"connected", "failed", "gone"}))
  BY DEF ConnectsEnd
<1>1. (\A r \in Sessions : LetsIn(r)) => LetsIn(s)
  OBVIOUS
<1> QED
  BY <1>1, ConnectsEndForEach, PTL
=============================================================================
