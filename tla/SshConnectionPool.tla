-------------------------- MODULE SshConnectionPool --------------------------
(***************************************************************************)
(* SSHConnectionPoolService and the part of SSHService that fills it       *)
(* (src/src/ssh/services).  Callers connect, run commands by the id of     *)
(* their connection, and disconnect, or forget to: several of them         *)
(* disconnect only when nothing was thrown.                                *)
(*                                                                         *)
(* The methods run to completion but for two awaits with consequences: in  *)
(* addConnection, between the clean-up of a full pool and the second look  *)
(* at its size, and in closeAllConnections, before the maps are cleared.   *)
(* The keys of serverConnections are the servers with a sequence that is   *)
(* not empty; times are ages, one past MaxIdle at most.                    *)
(***************************************************************************)
EXTENDS Integers, Sequences, FiniteSets

CONSTANTS
    Servers,
    Connections,    \* ids of connections; an id is used again once it is gone
    Users,          \* operations on servers that are under way together
    MaxPoolSize,    \* SSH_POOL_MAX_SIZE
    MaxIdle         \* SSH_POOL_MAX_IDLE_TIME, in ticks

\* No connection, no server.
Nothing == "nothing"

ASSUME PoolAssumption ==
    /\ IsFiniteSet(Connections)
    /\ MaxPoolSize \in Nat
    /\ MaxIdle \in Nat
    /\ Servers \cap Connections = {}
    /\ Nothing \notin Servers \cup Connections

VARIABLES
    pool,           \* the keys of `connections'
    tracked,        \* serverConnections
    live,           \* connection.isConnected
    idle,           \* age of connection.lastUsed
    user,           \* what each user is doing: its connection, the server it connects to
    shutdown,       \* "no", "closing" (closeAllConnections awaits) or "done"
    orphaned        \* history: connections lost in a way the code has

vars == <<pool, tracked, live, idle, user, shutdown, orphaned>>

IdleUser == [pc |-> "idle", conn |-> Nothing, server |-> Nothing]

\* connections and serverConnections agree: each pooled connection is listed
\* once, under one server, and nothing else is listed.
MapsAgree ==
    /\ pool = UNION {{tracked[s][k] : k \in DOMAIN tracked[s]} : s \in Servers}
    /\ \A s, t \in Servers : \A j \in DOMAIN tracked[s], k \in DOMAIN tracked[t] :
          tracked[s][j] = tracked[t][k] => s = t /\ j = k

\* The variables keep their types, and the two maps of the pool agree.
TypeOK ==
    /\ pool \subseteq Connections
    /\ tracked \in [Servers -> Seq(Connections)]
    /\ live \in [Connections -> BOOLEAN]
    /\ idle \in [Connections -> 0..(MaxIdle + 1)]
    /\ user \in [Users -> [pc : {"idle", "add", "recheck", "holding", "using", "failed"},
                           conn : Connections \cup {Nothing}, server : Servers \cup {Nothing}]]
    /\ \A u \in Users :
         /\ user[u].conn = Nothing <=> user[u].pc = "idle"
         /\ user[u].server \in Servers <=> user[u].pc \in {"add", "recheck"}
    /\ shutdown \in {"no", "closing", "done"}
    /\ orphaned \subseteq Connections
    /\ MapsAgree

Init ==
    /\ pool = {}
    /\ tracked = [s \in Servers |-> <<>>]
    /\ live = [c \in Connections |-> FALSE]
    /\ idle = [c \in Connections |-> 0]
    /\ user = [u \in Users |-> IdleUser]
    /\ shutdown = "no"
    /\ orphaned = {}

-----------------------------------------------------------------------------
GoTo(u, pc, c) == user' = [user EXCEPT ![u] = [pc |-> pc, conn |-> c, server |-> Nothing]]
Leave(u) == user' = [user EXCEPT ![u] = IdleUser]

Unused(c) == c \notin pool /\ ~live[c] /\ \A u \in Users : user[u].conn # c

\* The ids that are not in C, in their order: the n-th of them is at the
\* position up to which there are n.
Without(ids, C) ==
    LET kept == {k \in DOMAIN ids : ids[k] \notin C} IN
    [n \in 1..Cardinality(kept) |->
        ids[CHOOSE k \in kept : Cardinality({j \in kept : j <= k}) = n]]

\* Mutant: the connection stays in the list of its server.
CloseKeepsIds(C) ==
    /\ pool' = pool \ C
    /\ live' = [c \in Connections |-> live[c] /\ c \notin C \cap pool]
    /\ idle' = [c \in Connections |-> IF c \in C THEN 0 ELSE idle[c]]
    /\ UNCHANGED <<tracked, orphaned>>

\* Mutant: the connection is forgotten but not ended.
CloseWithoutEnd(C) ==
    /\ pool' = pool \ C
    /\ tracked' = [s \in Servers |-> Without(tracked[s], C \cap pool)]
    /\ idle' = [c \in Connections |-> IF c \in C THEN 0 ELSE idle[c]]
    /\ UNCHANGED <<live, orphaned>>

\* closeConnection for each connection of C: ended, removed from the pool
\* and from the list of its server.  An `end' that throws leaves it open.
\* The age of what is not in the pool is never read, and kept at 0.
Close(C) ==
    \E ended \in {C \cap pool} \cup {(C \cap pool) \ {c} : c \in C \cap pool} :
        /\ pool' = pool \ C
        /\ tracked' = [s \in Servers |-> Without(tracked[s], C \cap pool)]
        /\ live' = [c \in Connections |-> live[c] /\ c \notin ended]
        /\ idle' = [c \in Connections |-> IF c \in C THEN 0 ELSE idle[c]]
        /\ orphaned' = orphaned \cup {c \in (C \cap pool) \ ended : live[c]}

\* Mutant: only connections that are no longer connected count as idle.
IdleDisconnected == {c \in pool : idle[c] > MaxIdle /\ ~live[c]}

IdleConnections == {c \in pool : idle[c] > MaxIdle}

\* SSHService.connect up to the end of createConnection.
Connect(u, s, c) ==
    /\ user[u].pc = "idle"
    /\ Unused(c)
    /\ live' = [live EXCEPT ![c] = TRUE]
    /\ user' = [user EXCEPT ![u] = [pc |-> "add", conn |-> c, server |-> s]]
    /\ UNCHANGED <<pool, tracked, idle, shutdown, orphaned>>

Insert(u) ==
    LET c == user[u].conn IN
    /\ pool' = pool \cup {c}
    /\ tracked' = [tracked EXCEPT ![user[u].server] = Append(@, c)]
    /\ GoTo(u, "holding", c)
    /\ UNCHANGED <<live, idle, orphaned>>

\* addConnection: insert, or clean up and await.
Add(u) ==
    /\ user[u].pc = "add"
    /\ IF Cardinality(pool) < MaxPoolSize
         THEN Insert(u)
         ELSE /\ Close(IdleConnections)
              /\ user' = [user EXCEPT ![u] =
                   [pc |-> "recheck", conn |-> user[u].conn, server |-> user[u].server]]
    /\ UNCHANGED shutdown

\* Mutant: the size is not looked at again after the clean-up.
RecheckNothing(u) ==
    /\ user[u].pc = "recheck"
    /\ Insert(u)
    /\ UNCHANGED shutdown

\* addConnection after the clean-up.  When the pool is still full the error
\* goes up through connect, and nobody ends the client that was connected.
Recheck(u) ==
    /\ user[u].pc = "recheck"
    /\ IF Cardinality(pool) < MaxPoolSize
         THEN Insert(u)
         ELSE /\ Leave(u)
              /\ orphaned' = IF live[user[u].conn] THEN orphaned \cup {user[u].conn} ELSE orphaned
              /\ UNCHANGED <<pool, tracked, live, idle>>
    /\ UNCHANGED shutdown

\* serverConnections.get(key): a connection's id is never a key.
IdsOf(key) == IF key \in Servers THEN tracked[key] ELSE <<>>

\* getConnection: the first connection of the list that is connected.
Found(key) ==
    {k \in DOMAIN IdsOf(key) :
        /\ live[IdsOf(key)[k]]
        /\ \A j \in 1..(k - 1) : ~live[IdsOf(key)[j]]}

\* executeCommand, uploadFile and downloadFile, which all pass the id of the
\* connection on to getConnection, and throw when it finds none.
Command(u) ==
    LET key == user[u].conn IN
    /\ user[u].pc = "holding"
    /\ IF Found(key) = {} THEN GoTo(u, "failed", key) /\ UNCHANGED idle
       ELSE /\ \E k \in Found(key) : idle' = [idle EXCEPT ![IdsOf(key)[k]] = 0]
            /\ UNCHANGED user
    /\ UNCHANGED <<pool, tracked, live, shutdown, orphaned>>

\* getConnection by the id of a server, as the interface of the pool names it
\* (src has no such call yet; the base playbook asks SSHService for one).
Borrow(u, s) ==
    /\ user[u].pc = "idle"
    /\ \E k \in Found(s) : /\ GoTo(u, "using", IdsOf(s)[k])
                           /\ idle' = [idle EXCEPT ![IdsOf(s)[k]] = 0]
    /\ UNCHANGED <<pool, tracked, live, shutdown, orphaned>>

\* releaseConnection.
Release(u) ==
    /\ user[u].pc = "using"
    /\ idle' = [c \in Connections |-> IF c = user[u].conn /\ c \in pool THEN 0 ELSE idle[c]]
    /\ Leave(u)
    /\ UNCHANGED <<pool, tracked, live, shutdown, orphaned>>

\* disconnect.
Disconnect(u) ==
    /\ user[u].pc \in {"holding", "failed"}
    /\ Close({user[u].conn})
    /\ Leave(u)
    /\ UNCHANGED shutdown

\* The caller ends without disconnecting: it never does, or an error threw it
\* past the call.
Forget(u) ==
    /\ user[u].pc \in {"holding", "failed"}
    /\ Leave(u)
    /\ UNCHANGED <<pool, tracked, live, idle, shutdown, orphaned>>

\* The `close' or `end' event of a client: the connection stays in the pool.
RemoteClose(c) ==
    /\ live[c]
    /\ live' = [live EXCEPT ![c] = FALSE]
    /\ orphaned' = orphaned \ {c}
    /\ UNCHANGED <<pool, tracked, idle, user, shutdown>>

\* The timer; onModuleDestroy stops it first.
CleanupIdle ==
    /\ shutdown = "no"
    /\ IdleConnections # {}
    /\ Close(IdleConnections)
    /\ UNCHANGED <<user, shutdown>>

\* What `connectionIds.map' visits when closing an element removes it from
\* the very list that is visited: every other one, from the first.
Visited(ids) == {ids[k] : k \in {n \in DOMAIN ids : n % 2 = 1}}

CloseServerConnections(s) ==
    /\ tracked[s] # <<>>
    /\ Close(Visited(tracked[s]))
    /\ UNCHANGED <<user, shutdown>>

\* closeAllConnections up to its await.  It is called by the pool and by
\* SSHService as the module is destroyed.
CloseAll ==
    /\ Close(pool)
    /\ shutdown' = "closing"
    /\ UNCHANGED user

\* closeAllConnections after its await: what was added meanwhile is dropped.
CloseAllClear ==
    /\ shutdown = "closing"
    /\ orphaned' = orphaned \cup {c \in pool : live[c]}
    /\ pool' = {}
    /\ tracked' = [s \in Servers |-> <<>>]
    /\ shutdown' = "done"
    /\ idle' = [c \in Connections |-> 0]
    /\ UNCHANGED <<live, user>>

Tick ==
    /\ idle' = [c \in Connections |->
         IF c \in pool /\ idle[c] <= MaxIdle THEN idle[c] + 1 ELSE idle[c]]
    /\ UNCHANGED <<pool, tracked, live, user, shutdown, orphaned>>

Next ==
    \/ \E u \in Users :
         \/ \E s \in Servers, c \in Connections : Connect(u, s, c)
         \/ Add(u) \/ Recheck(u) \/ Command(u)
         \/ \E s \in Servers : Borrow(u, s)
         \/ Release(u) \/ Disconnect(u) \/ Forget(u)
    \/ \E c \in Connections : RemoteClose(c)
    \/ CleanupIdle
    \/ \E s \in Servers : CloseServerConnections(s)
    \/ CloseAll \/ CloseAllClear
    \/ Tick

Spec == Init /\ [][Next]_vars

\* Time passes and the timer fires.
FairSpec == Spec /\ WF_vars(Tick) /\ WF_vars(CleanupIdle)

-----------------------------------------------------------------------------
\* The pool never exceeds its size, however many connections wait together
\* for the clean-up of a full pool.
PoolBounded == Cardinality(pool) <= MaxPoolSize

\* A live client is in the pool or on its way into it, where the clean-up or
\* a caller can end it, but for those that a full pool refused, whose `end'
\* threw, or which joined the pool while it shut down.
LiveIsKnown ==
    \A c \in Connections : live[c] =>
        \/ c \in pool
        \/ c \in orphaned
        \/ \E u \in Users : user[u].conn = c /\ user[u].pc \in {"add", "recheck"}

\* A command by the id of one's connection finds the connection while it is
\* pooled and connected, as executeCommand(connectionId) says.
CommandsFindConnection ==
    \A u \in Users : user[u].pc = "failed" => user[u].conn \notin pool \/ ~live[user[u].conn]

\* closeServerConnections closes all connections of the server.
ServerClosed ==
    [][\A s \in Servers : CloseServerConnections(s) => tracked'[s] = <<>>]_vars

\* A connection that nobody uses leaves the pool in the end, also when its
\* user forgot to disconnect: the pool does not stay full of them.
UnusedLeaves ==
    \A c \in Connections :
        (c \in pool /\ \A u \in Users : user[u].conn # c)
            ~> (c \notin pool \/ (\E u \in Users : user[u].conn = c) \/ shutdown # "no")
=============================================================================
