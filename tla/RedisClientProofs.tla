------------------------- MODULE RedisClientProofs --------------------------
(***************************************************************************)
(* Proofs about RedisClient, for any set of goroutines, of which any may   *)
(* connect, and any number of clients and subscriptions.  The four parts   *)
(* of the invariant hold together: a step that closes handles must also    *)
(* drop the fields, and one that drops the flag must drop the cluster.     *)
(***************************************************************************)
EXTENDS RedisClient, TLAPS

IInv == TypeOK /\ ClusterFlagAgrees /\ CurrentHandleOpen /\ OneLiveListener

\* The initial fields are empty.
LEMMA InitIInv == Init => IInv
<1> SUFFICES ASSUME Init PROVE IInv
  OBVIOUS
<1>1. NoLocal \in Locals
  BY RedisClientAssumption DEF NoLocal, Locals
<1>2. TypeOK
  <2>1. isCluster \in BOOLEAN /\ crashed \in BOOLEAN
    BY DEF Init
  <2>2. /\ poolDB \in [Handles -> [Pool -> DBs]]
        /\ topic \in [Listeners -> Locals]
        /\ local \in [Procs -> Locals]
    BY <1>1, RedisClientAssumption DEF Init
  <2> QED BY <2>1, <2>2, RedisClientAssumption DEF Init, TypeOK, Steps
<1>3. ClusterFlagAgrees /\ CurrentHandleOpen
  BY DEF Init, ClusterFlagAgrees, CurrentHandleOpen
<1>4. OneLiveListener
  BY RedisClientAssumption DEF Init, OneLiveListener
<1> QED BY <1>2, <1>3, <1>4 DEF IInv

\* disconnectLocked, alone, keeps the parts of the invariant that it touches.
LEMMA DisconnectKeeps ==
  ASSUME IInv, DisconnectLocked
  PROVE  /\ client' = None /\ cluster' = None /\ isCluster' = FALSE
         /\ handles' \in [Handles -> {"unused", "open", "closed"}]
         /\ keyspace' = None
         /\ listeners' \in [Listeners -> {"unused", "running", "stopping", "done"}]
         /\ \A l \in Listeners : listeners'[l] # "running"
         /\ UNCHANGED <<db, poolDB, topic>>
<1>1. /\ client' = None /\ cluster' = None /\ isCluster' = FALSE /\ keyspace' = None
      /\ UNCHANGED <<db, poolDB, topic>>
  BY DEF DisconnectLocked, CancelKeyspace
<1>2. handles' \in [Handles -> {"unused", "open", "closed"}]
  BY DEF DisconnectLocked, Closed, IInv, TypeOK
<1>3. listeners' \in [Listeners -> {"unused", "running", "stopping", "done"}]
  BY DEF DisconnectLocked, CancelKeyspace, IInv, TypeOK
<1>4. \A l \in Listeners : listeners'[l] # "running"
  BY DEF DisconnectLocked, CancelKeyspace, IInv, OneLiveListener
<1> QED BY <1>1, <1>2, <1>3, <1>4

\* Steps that only move a goroutine and change what it holds.
LEMMA LocalStep ==
  ASSUME IInv, UNCHANGED <<conn, sub, server>>,
         pc' \in [Procs -> Steps], local' \in [Procs -> Locals], crashed' \in BOOLEAN
  PROVE  IInv'
BY DEF IInv, TypeOK, ClusterFlagAgrees, CurrentHandleOpen, OneLiveListener, conn, sub, server

\* What a goroutine keeps between its sections has the declared type.
LEMMA HoldTypes ==
  ASSUME TypeOK, NEW p \in Procs, NEW isCl \in BOOLEAN, NEW d \in DBs,
         NEW h \in Handles \cup {None}, Hold(p, isCl, d, h)
  PROVE  local' \in [Procs -> Locals]
<1>1. [cluster |-> isCl, db |-> d, handle |-> h] \in Locals
  BY DEF Locals
<1> QED BY <1>1 DEF Hold, TypeOK

\* A goroutine that is at another of its steps is at one of the steps there are.
LEMMA GotoTypes ==
  ASSUME TypeOK, NEW p \in Procs, NEW step \in Steps, Goto(p, step)
  PROVE  pc' \in [Procs -> Steps]
BY DEF Goto, TypeOK

\* A goroutine that returns has types for what it leaves.
LEMMA ReturnTypes ==
  ASSUME TypeOK, NEW p \in Procs, Return(p)
  PROVE  /\ pc' \in [Procs -> Steps]
         /\ local' \in [Procs -> Locals]
         /\ crashed' \in BOOLEAN
<1>1. pc' \in [Procs -> Steps]
  BY GotoTypes DEF Return, Steps
<1>2. local' \in [Procs -> Locals]
  BY HoldTypes, RedisClientAssumption DEF Return
<1>3. crashed' \in BOOLEAN
  BY DEF Return, TypeOK
<1> QED BY <1>1, <1>2, <1>3

\* A disconnect, with whatever its caller does to its own goroutine.
LEMMA DisconnectStep ==
  ASSUME IInv, DisconnectLocked,
         pc' \in [Procs -> Steps], local' \in [Procs -> Locals], crashed' \in BOOLEAN
  PROVE  IInv'
<1>1. /\ client' = None /\ cluster' = None /\ isCluster' = FALSE
      /\ handles' \in [Handles -> {"unused", "open", "closed"}]
      /\ keyspace' = None
      /\ listeners' \in [Listeners -> {"unused", "running", "stopping", "done"}]
      /\ \A l \in Listeners : listeners'[l] # "running"
      /\ UNCHANGED <<db, poolDB, topic>>
  BY DisconnectKeeps
<1>2. TypeOK'
  BY <1>1 DEF IInv, TypeOK
<1>3. ClusterFlagAgrees' /\ CurrentHandleOpen'
  BY <1>1 DEF ClusterFlagAgrees, CurrentHandleOpen
<1>4. OneLiveListener'
  BY <1>1, RedisClientAssumption DEF OneLiveListener
<1> QED BY <1>2, <1>3, <1>4 DEF IInv

\* Every step of a goroutine that connects keeps the invariant.
LEMMA ConnectingKeeps ==
  ASSUME IInv, NEW p \in Procs, Connecting(p)
  PROVE  IInv'
<1> USE DEF IInv
<1>1. CASE \E d \in DBs, toCluster \in BOOLEAN : BeginConnect(p, toCluster, d)
  <2>1. PICK d \in DBs, toCluster \in BOOLEAN : BeginConnect(p, toCluster, d)
    BY <1>1
  <2>2. local' \in [Procs -> Locals]
    BY <2>1, HoldTypes DEF BeginConnect
  <2>3. pc' \in [Procs -> Steps] /\ crashed' \in BOOLEAN
    BY <2>1, GotoTypes DEF BeginConnect, Steps, TypeOK
  <2>4. DisconnectLocked
    BY <2>1 DEF BeginConnect
  <2> QED BY <2>2, <2>3, <2>4, DisconnectStep
<1>2. CASE ConnectRefused(p) \/ Pinged(p)
  <2>1. Return(p) /\ UNCHANGED <<conn, sub, server>>
    BY <1>2 DEF ConnectRefused, Pinged
  <2> QED BY <2>1, ReturnTypes, LocalStep
<1>3. CASE InstallClient(p)
  <2>1. PICK h \in Handles :
          /\ handles' = [handles EXCEPT ![h] = "open"]
          /\ poolDB' = [poolDB EXCEPT ![h] = [c \in Pool |-> local[p].db]]
          /\ client' = h
    BY <1>3 DEF InstallClient
  <2>2. local[p].db \in DBs
    BY DEF TypeOK, Locals
  <2>3. poolDB' \in [Handles -> [Pool -> DBs]]
    BY <2>1, <2>2 DEF TypeOK
  <2>4. TypeOK'
    BY <1>3, <2>1, <2>2, <2>3 DEF InstallClient, Goto, TypeOK, Steps, sub
  <2>5. ClusterFlagAgrees' /\ CurrentHandleOpen'
    BY <1>3, <2>1 DEF InstallClient, ClusterFlagAgrees, CurrentHandleOpen, TypeOK
  <2>6. OneLiveListener'
    BY <1>3 DEF InstallClient, OneLiveListener, sub
  <2> QED BY <2>4, <2>5, <2>6
<1>4. CASE InstallCluster(p)
  <2>1. PICK h \in Handles : handles' = [handles EXCEPT ![h] = "open"] /\ cluster' = h
    BY <1>4 DEF InstallCluster
  <2>2. TypeOK'
    BY <1>4, <2>1 DEF InstallCluster, Goto, TypeOK, Steps, sub
  <2>3. ClusterFlagAgrees'
    BY <1>4, <2>1, RedisClientAssumption DEF InstallCluster, ClusterFlagAgrees
  <2>4. CurrentHandleOpen'
    BY <1>4, <2>1 DEF InstallCluster, CurrentHandleOpen, TypeOK
  <2>5. OneLiveListener'
    BY <1>4 DEF InstallCluster, OneLiveListener, sub
  <2> QED BY <2>2, <2>3, <2>4, <2>5
<1>5. CASE Disconnect(p)
  BY <1>5, DisconnectStep DEF Disconnect, TypeOK
<1> QED BY <1>1, <1>2, <1>3, <1>4, <1>5 DEF Connecting

\* Every step of a goroutine that runs a command keeps the invariant.
LEMMA CommandsKeep ==
  ASSUME IInv, NEW p \in Procs, Commands(p)
  PROVE  IInv'
<1> USE DEF IInv
<1>1. local[p] \in Locals /\ cmdable \in Handles \cup {None}
  BY DEF TypeOK, cmdable
<1>2. CASE Panic
  BY <1>2, LocalStep DEF Panic, TypeOK
<1>3. CASE Snapshot(p)
  <2>1. local' \in [Procs -> Locals]
    BY <1>1, <1>3, HoldTypes, RedisClientAssumption DEF Snapshot, TypeOK
  <2>2. pc' \in [Procs -> Steps] /\ UNCHANGED <<conn, sub, server, crashed>>
    BY <1>3, GotoTypes DEF Snapshot, Steps
  <2> QED BY <2>1, <2>2, LocalStep DEF TypeOK
<1>4. CASE ReadFlag(p)
  <2>1. local' \in [Procs -> Locals]
    BY <1>1, <1>4, HoldTypes, RedisClientAssumption DEF ReadFlag, TypeOK
  <2>2. pc' \in [Procs -> Steps] /\ UNCHANGED <<conn, sub, server, crashed>>
    BY <1>4, GotoTypes DEF ReadFlag, Steps
  <2> QED BY <2>1, <2>2, LocalStep DEF TypeOK
<1>5. CASE ReadPointer(p)
  <2>1. local' \in [Procs -> Locals]
    BY <1>1, <1>5, HoldTypes, RedisClientAssumption DEF ReadPointer, TypeOK
  <2>2. pc' \in [Procs -> Steps] /\ UNCHANGED <<conn, sub, server, crashed>>
    BY <1>5, GotoTypes DEF ReadPointer, Steps
  <2> QED BY <2>1, <2>2, LocalStep DEF TypeOK
<1>6. CASE Return(p) /\ UNCHANGED <<conn, sub, server>>
  BY <1>6, ReturnTypes, LocalStep
<1>7. ASSUME NEW d \in DBs, SelectDB(p, d)
      PROVE  IInv'
  <2>1. local' \in [Procs -> Locals]
    BY <1>7, HoldTypes DEF SelectDB, TypeOK
  <2>2. pc' \in [Procs -> Steps] /\ UNCHANGED <<conn, sub, server, crashed>>
    BY <1>7, GotoTypes DEF SelectDB, Steps
  <2> QED BY <2>1, <2>2, LocalStep DEF TypeOK
<1>8. CASE SelectRuns(p)
  <2>1. CASE Return(p) /\ UNCHANGED <<conn, sub, server>>
    BY <1>6, <2>1
  <2>2. CASE ~(Return(p) /\ UNCHANGED <<conn, sub, server>>)
    <3> DEFINE h == local[p].handle
    <3>1. /\ \E c \in Pool : poolDB' = [poolDB EXCEPT ![h] = [@ EXCEPT ![c] = local[p].db]]
          /\ Goto(p, "selected")
          /\ UNCHANGED <<conn, sub, handles, local, crashed>>
      BY <1>8, <2>2 DEF SelectRuns
    <3>2. PICK c \in Pool : poolDB' = [poolDB EXCEPT ![h] = [@ EXCEPT ![c] = local[p].db]]
      BY <3>1
    <3>3. local[p].db \in DBs
      BY <1>1 DEF Locals
    <3>4. poolDB' \in [Handles -> [Pool -> DBs]]
      BY <3>2, <3>3 DEF TypeOK
    <3>5. TypeOK'
      BY <3>1, <3>4 DEF TypeOK, Goto, Steps, conn, sub
    <3>6. ClusterFlagAgrees' /\ CurrentHandleOpen' /\ OneLiveListener'
      BY <3>1 DEF ClusterFlagAgrees, CurrentHandleOpen, OneLiveListener, conn, sub
    <3> QED BY <3>5, <3>6
  <2> QED BY <2>1, <2>2
<1>9. CASE SelectStored(p)
  <2>1. db' \in DBs
    BY <1>1, <1>9 DEF SelectStored, Locals
  <2>2. TypeOK'
    BY <1>9, <2>1, ReturnTypes DEF SelectStored, TypeOK, sub, server
  <2>3. ClusterFlagAgrees' /\ CurrentHandleOpen' /\ OneLiveListener'
    BY <1>9 DEF SelectStored, ClusterFlagAgrees, CurrentHandleOpen, OneLiveListener,
                sub, server
  <2> QED BY <2>2, <2>3
<1>10. CASE SubscribeKeyspace(p)
  <2>1. local' \in [Procs -> Locals]
    BY <1>1, <1>10, HoldTypes, RedisClientAssumption DEF SubscribeKeyspace, TypeOK
  <2>2. pc' \in [Procs -> Steps] /\ UNCHANGED <<conn, sub, server, crashed>>
    BY <1>10, GotoTypes DEF SubscribeKeyspace, Steps
  <2> QED BY <2>1, <2>2, LocalStep DEF TypeOK
<1>11. CASE Subscribed(p)
  <2>1. PICK l \in Listeners :
          /\ listeners[l] = "unused"
          /\ listeners' = [k \in Listeners |-> IF k = l THEN "running"
                                               ELSE IF k = keyspace THEN "stopping"
                                               ELSE listeners[k]]
          /\ topic' = [topic EXCEPT ![l] = [cluster |-> local[p].cluster, db |-> db,
                                               handle |-> local[p].handle]]
          /\ keyspace' = l
    BY <1>11 DEF Subscribed
  <2>2. listeners' \in [Listeners -> {"unused", "running", "stopping", "done"}]
    BY <2>1 DEF TypeOK
  <2>3. topic' \in [Listeners -> Locals]
    BY <1>1, <2>1 DEF TypeOK, Locals
  <2>4. TypeOK'
    BY <1>11, <2>1, <2>2, <2>3, ReturnTypes DEF Subscribed, TypeOK, conn, server
  <2>5. OneLiveListener'
    BY <2>1 DEF OneLiveListener, TypeOK
  <2>6. ClusterFlagAgrees' /\ CurrentHandleOpen'
    BY <1>11 DEF Subscribed, ClusterFlagAgrees, CurrentHandleOpen, conn, server
  <2> QED BY <2>4, <2>5, <2>6
<1>12. CASE UnsubscribeKeyspace(p)
  <2>1. listeners' \in [Listeners -> {"unused", "running", "stopping", "done"}]
    BY <1>12 DEF UnsubscribeKeyspace, CancelKeyspace, TypeOK
  <2>2. TypeOK'
    BY <1>12, <2>1 DEF UnsubscribeKeyspace, CancelKeyspace, TypeOK, conn, server
  <2>3. OneLiveListener'
    BY <1>12, RedisClientAssumption
    DEF UnsubscribeKeyspace, CancelKeyspace, OneLiveListener, TypeOK
  <2>4. ClusterFlagAgrees' /\ CurrentHandleOpen'
    BY <1>12 DEF UnsubscribeKeyspace, ClusterFlagAgrees, CurrentHandleOpen, conn, server
  <2> QED BY <2>2, <2>3, <2>4
<1>13. CASE Do(p) \/ SubscribeNil(p)
  BY <1>2, <1>13 DEF Do, SubscribeNil
<1>14. CASE Use(p)
  BY <1>2, <1>6, <1>14 DEF Use
<1> QED
  BY <1>3, <1>4, <1>5, <1>7, <1>8, <1>9, <1>10, <1>11, <1>12, <1>13, <1>14 DEF Commands

\* Every step of the program keeps the invariant.
LEMMA NextKeeps == IInv /\ [Next]_vars => IInv'
<1> SUFFICES ASSUME IInv, [Next]_vars
             PROVE  IInv'
  OBVIOUS
<1>1. CASE \E p \in Connectors : Connecting(p)
  BY <1>1, ConnectingKeeps, RedisClientAssumption
<1>2. CASE \E p \in Procs : Commands(p)
  BY <1>2, CommandsKeep
<1>3. CASE \E l \in Listeners : StopListener(l)
  <2>1. PICK l \in Listeners : StopListener(l)
    BY <1>3
  <2>2. listeners' \in [Listeners -> {"unused", "running", "stopping", "done"}]
    BY <2>1 DEF StopListener, IInv, TypeOK
  <2>3. TypeOK'
    BY <2>1, <2>2 DEF StopListener, IInv, TypeOK, conn, server
  <2>4. OneLiveListener'
    BY <2>1 DEF StopListener, IInv, OneLiveListener, TypeOK
  <2>5. ClusterFlagAgrees' /\ CurrentHandleOpen'
    BY <2>1 DEF StopListener, IInv, ClusterFlagAgrees, CurrentHandleOpen, conn, server
  <2> QED BY <2>3, <2>4, <2>5 DEF IInv
<1>4. CASE UNCHANGED vars
  BY <1>4 DEF IInv, TypeOK, ClusterFlagAgrees, CurrentHandleOpen, OneLiveListener, vars
<1> QED BY <1>1, <1>2, <1>3, <1>4 DEF Next

\* The invariant holds throughout.
LEMMA Invariant == Spec => []IInv
BY InitIInv, NextKeeps, PTL DEF Spec

\* The fields and the goroutines' local state keep their types.
THEOREM ClientTypes == Spec => []TypeOK
<1>1. IInv => TypeOK
  BY DEF IInv
<1> QED BY <1>1, Invariant, PTL

\* isCluster is set exactly while a cluster client is installed.
THEOREM ClientClusterFlag == Spec => []ClusterFlagAgrees
<1>1. IInv => ClusterFlagAgrees
  BY DEF IInv
<1> QED BY <1>1, Invariant, PTL

\* No connect or disconnect leaves a closed client installed, however they
\* overlap.
THEOREM ClientHandleOpen == Spec => []CurrentHandleOpen
<1>1. IInv => CurrentHandleOpen
  BY DEF IInv
<1> QED BY <1>1, Invariant, PTL

\* At most one keyspace goroutine lives, and the client can cancel it.
THEOREM ClientOneListener == Spec => []OneLiveListener
<1>1. IInv => OneLiveListener
  BY DEF IInv
<1> QED BY <1>1, Invariant, PTL
=============================================================================
