---------------------------- MODULE RedisClient ----------------------------
(***************************************************************************)
(* internal/redis: Client, the one object every background command of the  *)
(* program shares.  Each tea.Cmd runs in a goroutine of its own, so any    *)
(* operation below may be between two of its lock sections while another   *)
(* one runs.  A section under c.mu is one step; network calls, credential  *)
(* resolution and unlocked reads lie between steps.  go-redis clients are  *)
(* handles: opened by NewClient/NewClusterClient, closed by Close, each    *)
(* with a pool of connections that have a selected database of their own.  *)
(***************************************************************************)
EXTENDS Integers, FiniteSets

CONSTANTS Procs,       \* goroutines running one tea.Cmd at a time
          Connectors,  \* those that may run Connect or ConnectCluster
          Handles,     \* go-redis clients the run may open
          Listeners,   \* keyspace subscriptions the run may open
          Pool,        \* connections of a pool
          DBs,         \* logical databases
          None         \* Go's nil

ASSUME RedisClientAssumption ==
  /\ Connectors \subseteq Procs
  /\ 0 \in DBs
  /\ None \notin Handles \cup Listeners

VARIABLES client,      \* Client.client
          cluster,     \* Client.cluster
          isCluster,   \* Client.isCluster
          db,          \* Client.db
          keyspace,    \* the listener whose keyspacePS and cancelKeyspace are held
          handles,     \* handle -> "unused", "open" or "closed"
          poolDB,      \* handle -> connection -> database its session is in
          listeners,   \* listener -> "unused", "running", "stopping" or "done"
          topic,       \* listener -> what it was subscribed with, as in local
          pc,          \* where each goroutine is
          local,       \* what it read or was given: [cluster, db, handle]
          crashed      \* a method was called on a nil client: the panic ends the program

conn == <<client, cluster, isCluster, db>>
sub == <<keyspace, listeners, topic>>
server == <<handles, poolDB>>
vars == <<client, cluster, isCluster, db, keyspace, handles, poolDB, listeners,
          topic, pc, local, crashed>>

NoLocal == [cluster |-> FALSE, db |-> 0, handle |-> None]
Locals == [cluster : BOOLEAN, db : DBs, handle : Handles \cup {None}]

Init ==
  /\ client = None /\ cluster = None /\ isCluster = FALSE /\ db = 0
  /\ keyspace = None
  /\ handles = [h \in Handles |-> "unused"]
  /\ poolDB = [h \in Handles |-> [c \in Pool |-> 0]]
  /\ listeners = [l \in Listeners |-> "unused"]
  /\ topic = [l \in Listeners |-> NoLocal]
  /\ pc = [p \in Procs |-> "idle"]
  /\ local = [p \in Procs |-> NoLocal]
  /\ crashed = FALSE

At(p, step) == ~crashed /\ pc[p] = step
Goto(p, step) == pc' = [pc EXCEPT ![p] = step]
\* Mutated form: databases are counted from 1.
HoldFromOne(p, isCl, d, h) ==
  local' = [local EXCEPT ![p] = [cluster |-> isCl, db |-> d + 1, handle |-> h]]

\* What an operation keeps between its lock sections.
Hold(p, isCl, d, h) == local' = [local EXCEPT ![p] = [cluster |-> isCl, db |-> d, handle |-> h]]
Return(p) == Goto(p, "idle") /\ Hold(p, FALSE, 0, None) /\ UNCHANGED crashed

\* cmdable, do, pipeline: the client a command uses.
cmdable == IF isCluster THEN cluster ELSE client

------------------------------------------------------------------------------
(* Connection management *)

\* cancelKeyspace() and keyspacePS.Close(): the goroutine will see its context
\* done or its channel closed, at once or after one more event.
CancelKeyspace ==
  /\ listeners' = [l \in Listeners |->
                     IF l = keyspace THEN "stopping" ELSE listeners[l]]
  /\ keyspace' = None
  /\ UNCHANGED topic

Closed == [h \in Handles |-> IF h \in {client, cluster} THEN "closed" ELSE handles[h]]

(* Mutated forms of disconnectLocked. *)

\* disconnectLocked without the reset of isCluster.
DisconnectKeepFlag ==
  /\ CancelKeyspace
  /\ handles' = Closed
  /\ client' = None
  /\ cluster' = None
  /\ UNCHANGED <<isCluster, db, poolDB>>

\* disconnectLocked closes the clients but leaves the fields set.
DisconnectKeepHandles ==
  /\ CancelKeyspace
  /\ handles' = Closed
  /\ isCluster' = FALSE
  /\ UNCHANGED <<client, cluster, db, poolDB>>

\* disconnectLocked: db keeps its value.
DisconnectLocked ==
  /\ CancelKeyspace
  /\ handles' = Closed
  /\ client' = None
  /\ cluster' = None
  /\ isCluster' = FALSE
  /\ UNCHANGED <<db, poolDB>>

\* Connect and ConnectCluster up to resolveCredentials: cleanup, then a call to
\* Vault that may take a while, with no client installed.
BeginConnect(p, toCluster, d) ==
  /\ At(p, "idle")
  /\ DisconnectLocked
  /\ Hold(p, toCluster, d, None)
  /\ Goto(p, "resolving")
  /\ UNCHANGED crashed

\* Credentials, options or TLS settings are refused: no client is installed.
ConnectRefused(p) ==
  /\ At(p, "resolving")
  /\ Return(p)
  /\ UNCHANGED <<conn, sub, server>>

\* NewClient and the locked section of Connect.
InstallClient(p) ==
  /\ At(p, "resolving") /\ ~local[p].cluster
  /\ \E h \in Handles :
       /\ handles[h] = "unused"
       /\ handles' = [handles EXCEPT ![h] = "open"]
       /\ poolDB' = [poolDB EXCEPT ![h] = [c \in Pool |-> local[p].db]]
       /\ client' = h
  /\ db' = local[p].db
  /\ Goto(p, "pinging")
  /\ UNCHANGED <<cluster, isCluster, sub, local, crashed>>

\* NewClusterClient and the locked section of ConnectCluster; db is left alone.
InstallCluster(p) ==
  /\ At(p, "resolving") /\ local[p].cluster
  /\ \E h \in Handles :
       /\ handles[h] = "unused"
       /\ handles' = [handles EXCEPT ![h] = "open"]
       /\ cluster' = h
  /\ isCluster' = TRUE
  /\ Goto(p, "pinging")
  /\ UNCHANGED <<client, db, poolDB, sub, local, crashed>>

\* The PING answers, fails or times out: the client stays installed.
Pinged(p) ==
  /\ At(p, "pinging")
  /\ Return(p)
  /\ UNCHANGED <<conn, sub, server>>

\* Disconnect.
Disconnect(p) ==
  /\ At(p, "idle")
  /\ DisconnectLocked
  /\ UNCHANGED <<pc, local, crashed>>

------------------------------------------------------------------------------
(* Commands *)

Panic ==
  /\ crashed' = TRUE
  /\ UNCHANGED <<conn, sub, server, pc, local>>

\* do, pipeline: the read lock is held until the answer is there, so only the
\* call on a nil client changes anything.
Do(p) ==
  /\ At(p, "idle")
  /\ cmdable = None
  /\ Panic

\* cmdable: the lock is released before the command is sent.
Snapshot(p) ==
  /\ At(p, "idle")
  /\ Hold(p, FALSE, 0, cmdable)
  /\ Goto(p, "using")
  /\ UNCHANGED <<conn, sub, server, crashed>>

\* ClusterNodes and ClusterInfo read isCluster with no lock, then the pointer.
ReadFlag(p) ==
  /\ At(p, "idle")
  /\ Hold(p, isCluster, 0, None)
  /\ Goto(p, "reading")
  /\ UNCHANGED <<conn, sub, server, crashed>>

ReadPointer(p) ==
  /\ At(p, "reading")
  /\ Hold(p, FALSE, 0, IF local[p].cluster THEN cluster ELSE client)
  /\ Goto(p, "using")
  /\ UNCHANGED <<conn, sub, server, crashed>>

\* The command runs, or fails on a closed client; a nil client panics.
Use(p) ==
  /\ At(p, "using")
  /\ IF local[p].handle = None
       THEN Panic
       ELSE Return(p) /\ UNCHANGED <<conn, sub, server>>

\* SelectDB, first locked section: refused in cluster mode or with no client.
SelectDB(p, d) ==
  /\ At(p, "idle")
  /\ ~isCluster /\ client # None
  /\ Hold(p, FALSE, d, client)
  /\ Goto(p, "selecting")
  /\ UNCHANGED <<conn, sub, server, crashed>>

\* SELECT runs in the session of the one connection the pool hands out, or fails.
SelectRuns(p) ==
  /\ At(p, "selecting")
  /\ LET h == local[p].handle IN
       \/ /\ handles[h] = "open"
          /\ \E c \in Pool : poolDB' = [poolDB EXCEPT ![h] = [@ EXCEPT ![c] = local[p].db]]
          /\ Goto(p, "selected")
          /\ UNCHANGED <<conn, sub, handles, local, crashed>>
       \/ /\ Return(p)
          /\ UNCHANGED <<conn, sub, server>>

\* SelectDB, second locked section.
SelectStored(p) ==
  /\ At(p, "selected")
  /\ db' = local[p].db
  /\ Return(p)
  /\ UNCHANGED <<client, cluster, isCluster, sub, server>>

------------------------------------------------------------------------------
(* Keyspace notifications *)

\* SubscribeKeyspace, first locked section; CONFIG SET is then sent.
SubscribeKeyspace(p) ==
  /\ At(p, "idle")
  /\ Hold(p, isCluster, 0, cmdable)
  /\ Goto(p, "configuring")
  /\ UNCHANGED <<conn, sub, server, crashed>>

\* Mutated form: the previous goroutine is not cancelled.
SubscribedNoCancel(p) ==
  /\ At(p, "configuring") /\ local[p].handle # None
  /\ \E l \in Listeners :
       /\ listeners[l] = "unused"
       /\ listeners' = [listeners EXCEPT ![l] = "running"]
       /\ topic' = [topic EXCEPT ![l] = [cluster |-> local[p].cluster, db |-> db,
                                          handle |-> local[p].handle]]
       /\ keyspace' = l
  /\ Return(p)
  /\ UNCHANGED <<conn, server>>

\* Second locked section: the previous goroutine is cancelled and a new one
\* subscribed, through the client read before and to the database read now.
Subscribed(p) ==
  /\ At(p, "configuring") /\ local[p].handle # None
  /\ \E l \in Listeners :
       /\ listeners[l] = "unused"
       /\ listeners' = [k \in Listeners |-> IF k = l THEN "running"
                                            ELSE IF k = keyspace THEN "stopping"
                                            ELSE listeners[k]]
       /\ topic' = [topic EXCEPT ![l] = [cluster |-> local[p].cluster, db |-> db,
                                          handle |-> local[p].handle]]
       /\ keyspace' = l
  /\ Return(p)
  /\ UNCHANGED <<conn, server>>

\* CONFIG SET on a nil client.
SubscribeNil(p) ==
  /\ At(p, "configuring") /\ local[p].handle = None
  /\ Panic

UnsubscribeKeyspace(p) ==
  /\ At(p, "idle")
  /\ CancelKeyspace
  /\ UNCHANGED <<conn, server, pc, local, crashed>>

\* The goroutine's select picks the done context or the closed channel.
StopListener(l) ==
  /\ ~crashed
  /\ listeners[l] = "stopping"
  /\ listeners' = [listeners EXCEPT ![l] = "done"]
  /\ UNCHANGED <<conn, server, keyspace, topic, pc, local, crashed>>

------------------------------------------------------------------------------
Connecting(p) ==
  \/ \E d \in DBs, toCluster \in BOOLEAN : BeginConnect(p, toCluster, d)
  \/ ConnectRefused(p)
  \/ InstallClient(p)
  \/ InstallCluster(p)
  \/ Pinged(p)
  \/ Disconnect(p)

Commands(p) ==
  \/ Do(p)
  \/ Snapshot(p)
  \/ ReadFlag(p)
  \/ ReadPointer(p)
  \/ Use(p)
  \/ \E d \in DBs : SelectDB(p, d)
  \/ SelectRuns(p)
  \/ SelectStored(p)
  \/ SubscribeKeyspace(p)
  \/ Subscribed(p)
  \/ SubscribeNil(p)
  \/ UnsubscribeKeyspace(p)

Next ==
  \/ \E p \in Connectors : Connecting(p)
  \/ \E p \in Procs : Commands(p)
  \/ \E l \in Listeners : StopListener(l)

Spec == Init /\ [][Next]_vars

------------------------------------------------------------------------------
(* Properties *)

Steps == {"idle", "resolving", "pinging", "using", "reading", "selecting",
          "selected", "configuring"}

\* Types of the fields and of what the goroutines hold.
TypeOK ==
  /\ client \in Handles \cup {None}
  /\ cluster \in Handles \cup {None}
  /\ isCluster \in BOOLEAN
  /\ db \in DBs
  /\ keyspace \in Listeners \cup {None}
  /\ handles \in [Handles -> {"unused", "open", "closed"}]
  /\ poolDB \in [Handles -> [Pool -> DBs]]
  /\ listeners \in [Listeners -> {"unused", "running", "stopping", "done"}]
  /\ topic \in [Listeners -> Locals]
  /\ pc \in [Procs -> Steps]
  /\ local \in [Procs -> Locals]
  /\ crashed \in BOOLEAN

\* cmdable never selects a nil cluster client while isCluster is set, and a
\* cluster client is never hidden behind a cleared flag, even when two connects
\* overlap: isCluster and cluster are set in one place and cleared in another.
ClusterFlagAgrees == isCluster <=> cluster # None

\* The client a new command would use was not closed by anyone: a connect that
\* another connect overtakes never leaves a closed client installed.
CurrentHandleOpen == \A h \in {client, cluster} \ {None} : handles[h] = "open"

\* At most one keyspace goroutine is live, and it is the one whose cancel
\* function the client still holds, whatever connects, disconnects and
\* subscribes interleave: pubsub.go:67 "Clear old handlers to prevent memory
\* leak and duplicate events".
OneLiveListener == \A l \in Listeners : listeners[l] = "running" <=> l = keyspace

Quiet == \A p \in Procs : pc[p] = "idle"

\* connection.go:254 "SelectDB switches the database": with one connect done and
\* no operation running, every connection a command may get is in database db.
PoolFollowsSelect == (Quiet /\ client # None /\ ~isCluster) =>
  \A c \in Pool : poolDB[client][c] = db
=============================================================================
