----------------------- MODULE SshConnectionPool_proofs -----------------------
(***************************************************************************)
(* Proofs about SshConnectionPool, for any number of users, servers and    *)
(* connections and any size of the pool.                                   *)
(***************************************************************************)
EXTENDS SshConnectionPool, FiniteSetTheorems, SequenceTheorems, TLAPS

\* The types that the invariants below need, without those of the lists.
PoolType ==
    /\ pool \subseteq Connections
    /\ live \in [Connections -> BOOLEAN]
    /\ DOMAIN user = Users
    /\ \A u \in Users : user[u].pc \in {"add", "recheck"} => user[u].conn \in Connections

\* A subset of the pool is no larger than the pool.
LEMMA Shrinks ==
    ASSUME PoolAssumption, pool \subseteq Connections, NEW S, S \subseteq pool
    PROVE  Cardinality(S) \in Nat /\ Cardinality(S) <= Cardinality(pool)
<1>1. IsFiniteSet(pool)
  BY FS_Subset DEF PoolAssumption
<1>2. IsFiniteSet(S) /\ Cardinality(S) <= Cardinality(pool)
  BY <1>1, FS_Subset
<1>. QED
  BY <1>2, FS_CardinalityType

\* A connection inserted into a pool that is not full does not overfill it.
LEMMA Grows ==
    ASSUME PoolAssumption, pool \subseteq Connections, NEW c,
           Cardinality(pool) < MaxPoolSize
    PROVE  Cardinality(pool \cup {c}) <= MaxPoolSize
<1>1. IsFiniteSet(pool)
  BY FS_Subset DEF PoolAssumption
<1>2. Cardinality(pool) \in Nat
  BY <1>1, FS_CardinalityType
<1>3. Cardinality(pool \cup {c}) \in {Cardinality(pool), Cardinality(pool) + 1}
  BY <1>1, FS_AddElement
<1>. QED
  BY <1>2, <1>3 DEF PoolAssumption

-----------------------------------------------------------------------------
\* The user of connection c is about to put it into the pool.
Arriving(c) == \E u \in Users : user[u].conn = c /\ user[u].pc \in {"add", "recheck"}

\* Closing leaves a part of the pool, and what it does not end is known.
LEMMA Closes ==
    ASSUME PoolType, LiveIsKnown, NEW C, Close(C)
    PROVE  /\ pool' \subseteq pool
           /\ live' \in [Connections -> BOOLEAN]
           /\ \A c \in Connections : live'[c] => c \in pool' \/ c \in orphaned' \/ Arriving(c)
  BY DEF Close, PoolType, LiveIsKnown, Arriving

\* The pool type and the whereabouts of live connections are inductive.
THEOREM Inductive == Spec => [](PoolType /\ LiveIsKnown)
<1>1. Init => PoolType /\ LiveIsKnown
  BY DEF Init, PoolType, LiveIsKnown, IdleUser
<1>2. PoolType /\ LiveIsKnown /\ [Next]_vars => PoolType' /\ LiveIsKnown'
  <2>. SUFFICES ASSUME PoolType, LiveIsKnown, [Next]_vars
                PROVE  PoolType' /\ LiveIsKnown'
    OBVIOUS
  <2>1. ASSUME NEW u \in Users, NEW s \in Servers, NEW c \in Connections, Connect(u, s, c)
        PROVE  PoolType' /\ LiveIsKnown'
    BY <2>1 DEF Connect, Unused, PoolType, LiveIsKnown
  <2>2. ASSUME NEW u \in Users, user[u].pc \in {"add", "recheck"}, Insert(u)
        PROVE  PoolType' /\ LiveIsKnown'
    BY <2>2 DEF Insert, GoTo, IdleUser, PoolType, LiveIsKnown
  <2>3. ASSUME NEW u \in Users, Add(u)
        PROVE  PoolType' /\ LiveIsKnown'
    <3>1. CASE Insert(u)
      BY <2>2, <2>3, <3>1 DEF Add
    <3>2. CASE ~Insert(u)
      <4>1. /\ Close(IdleConnections)
            /\ user[u].pc = "add"
            /\ user' = [user EXCEPT ![u] =
                 [pc |-> "recheck", conn |-> user[u].conn, server |-> user[u].server]]
        BY <2>3, <3>2 DEF Add
      <4>2. PoolType' /\ \A c \in Connections : Arriving(c) => Arriving(c)'
        BY <4>1, Closes DEF PoolType, Arriving
      <4>. QED
        BY <4>1, <4>2, Closes DEF LiveIsKnown, Arriving
    <3>. QED
      BY <3>1, <3>2
  <2>4. ASSUME NEW u \in Users, Recheck(u)
        PROVE  PoolType' /\ LiveIsKnown'
    <3>1. CASE Insert(u)
      BY <2>2, <2>4, <3>1 DEF Recheck
    <3>2. CASE ~Insert(u)
      BY <2>4, <3>2 DEF Recheck, Leave, IdleUser, PoolType, LiveIsKnown
    <3>. QED
      BY <3>1, <3>2
  <2>5. ASSUME NEW u \in Users, Command(u) \/ Release(u) \/ Forget(u)
        PROVE  PoolType' /\ LiveIsKnown'
    BY <2>5 DEF Command, Release, Forget, GoTo, Leave, IdleUser, PoolType, LiveIsKnown
  <2>6. ASSUME NEW u \in Users, NEW s \in Servers, Borrow(u, s)
        PROVE  PoolType' /\ LiveIsKnown'
    BY <2>6 DEF Borrow, GoTo, IdleUser, PoolType, LiveIsKnown
  <2>7. ASSUME NEW u \in Users, Disconnect(u)
        PROVE  PoolType' /\ LiveIsKnown'
    <3>1. Close({user[u].conn}) /\ user[u].pc \notin {"add", "recheck"} /\ Leave(u)
      BY <2>7 DEF Disconnect
    <3>2. PoolType' /\ \A c \in Connections : Arriving(c) => Arriving(c)'
      BY <3>1, Closes DEF PoolType, Arriving, Leave, IdleUser
    <3>. QED
      BY <3>1, <3>2, Closes DEF LiveIsKnown, Arriving
  <2>8. ASSUME NEW C, Close(C), UNCHANGED user
        PROVE  PoolType' /\ LiveIsKnown'
    BY <2>8, Closes DEF PoolType, LiveIsKnown, Arriving
  <2>9. ASSUME NEW c \in Connections, RemoteClose(c)
        PROVE  PoolType' /\ LiveIsKnown'
    BY <2>9 DEF RemoteClose, PoolType, LiveIsKnown
  <2>10. CASE CleanupIdle \/ CloseAll \/ \E s \in Servers : CloseServerConnections(s)
    BY <2>8, <2>10 DEF CleanupIdle, CloseAll, CloseServerConnections
  <2>11. CASE CloseAllClear
    BY <2>11 DEF CloseAllClear, PoolType, LiveIsKnown
  <2>12. CASE Tick
    BY <2>12 DEF Tick, PoolType, LiveIsKnown
  <2>13. CASE UNCHANGED vars
    BY <2>13 DEF vars, PoolType, LiveIsKnown
  <2>. QED
    BY <2>1, <2>3, <2>4, <2>5, <2>6, <2>7, <2>9, <2>10, <2>11, <2>12, <2>13 DEF Next
<1>. QED
  BY <1>1, <1>2, PTL DEF Spec

\* Every live client is in the pool, on its way there, or lost in one of the
\* known ways.
THEOREM LiveKnown == Spec => []LiveIsKnown
  BY Inductive, PTL

\* The pool is never larger than its configuration, for any number of users:
\* nothing comes between a look at its size and the insertion it allows.
THEOREM NeverOverfull == Spec => []PoolBounded
<1>. DEFINE Inv == PoolType /\ LiveIsKnown
<1>1. Init => PoolBounded
  BY PoolAssumption, FS_EmptySet DEF Init, PoolBounded, PoolAssumption
<1>2. Inv /\ Inv' /\ PoolBounded /\ [Next]_vars => PoolBounded'
  <2>. SUFFICES ASSUME Inv, Inv', PoolBounded, [Next]_vars
                PROVE  PoolBounded'
    OBVIOUS
  <2>1. pool \subseteq Connections
    BY DEF PoolType
  <2>2. ASSUME pool' \subseteq pool
        PROVE  PoolBounded'
    <3>1. Cardinality(pool) \in Nat /\ Cardinality(pool') \in Nat
              /\ Cardinality(pool') <= Cardinality(pool)
      BY <2>1, <2>2, Shrinks, PoolAssumption
    <3>. QED
      BY <3>1, PoolAssumption DEF PoolBounded, PoolAssumption
  <2>3. ASSUME NEW u \in Users, Insert(u), Cardinality(pool) < MaxPoolSize
        PROVE  PoolBounded'
    BY <2>1, <2>3, Grows, PoolAssumption DEF Insert, PoolBounded
  <2>4. ASSUME NEW C, Close(C)
        PROVE  pool' \subseteq pool
    BY <2>4 DEF Close
  <2>5. ASSUME NEW u \in Users, Add(u) \/ Recheck(u)
        PROVE  PoolBounded'
    <3>1. CASE Cardinality(pool) < MaxPoolSize
      BY <2>3, <2>5, <3>1 DEF Add, Recheck
    <3>2. CASE ~(Cardinality(pool) < MaxPoolSize)
      <4>1. Close(IdleConnections) \/ UNCHANGED pool
        BY <2>5, <3>2 DEF Add, Recheck
      <4>. QED
        BY <2>2, <2>4, <4>1
    <3>. QED
      BY <3>1, <3>2
  <2>6. ASSUME NEW u \in Users, Disconnect(u)
        PROVE  PoolBounded'
    BY <2>2, <2>4, <2>6 DEF Disconnect
  <2>7. CASE CleanupIdle \/ CloseAll \/ \E s \in Servers : CloseServerConnections(s)
    BY <2>2, <2>4, <2>7 DEF CleanupIdle, CloseAll, CloseServerConnections
  <2>8. CASE CloseAllClear
    BY <2>2, <2>8 DEF CloseAllClear
  <2>9. CASE UNCHANGED pool
    BY <2>2, <2>9
  <2>10. ASSUME NEW u \in Users,
                \/ \E s \in Servers, c \in Connections : Connect(u, s, c)
                \/ Command(u) \/ Release(u) \/ Forget(u)
                \/ \E s \in Servers : Borrow(u, s)
         PROVE  UNCHANGED pool
    BY <2>10 DEF Connect, Command, Release, Forget, Borrow
  <2>11. CASE Tick \/ (\E c \in Connections : RemoteClose(c)) \/ UNCHANGED vars
    BY <2>9, <2>11 DEF Tick, RemoteClose, vars
  <2>. QED
    BY <2>5, <2>6, <2>7, <2>8, <2>9, <2>10, <2>11 DEF Next
<1>. QED
  BY <1>1, <1>2, Inductive, PTL DEF Spec
-----------------------------------------------------------------------------
\* The numbering of a finite set of positions reaches every number up to its
\* size, and each by one position only.
LEMMA Numbered ==
    ASSUME NEW K \in SUBSET Nat, IsFiniteSet(K), NEW n \in 1..Cardinality(K)
    PROVE  \E k \in K : Cardinality({j \in K : j <= k}) = n
<1>. DEFINE Upto(k) == {j \in K : j <= k}
            number == [k \in K |-> Cardinality(Upto(k))]
            size == Cardinality(K)
<1>1. \A k \in K : IsFiniteSet(Upto(k)) /\ Cardinality(Upto(k)) \in 1..size
  <2>. TAKE k \in K
  <2>1. Upto(k) \in SUBSET K /\ k \in Upto(k)
    OBVIOUS
  <2>2. IsFiniteSet(Upto(k)) /\ Cardinality(Upto(k)) <= size
    BY <2>1, FS_Subset
  <2>3. Cardinality(Upto(k)) \in Nat /\ size \in Nat
    BY <2>2, FS_CardinalityType
  <2>4. Cardinality(Upto(k)) # 0
    BY <2>1, <2>2, FS_EmptySet
  <2>. QED
    BY <2>2, <2>3, <2>4
<1>2. \A j, k \in K : number[j] = number[k] => j = k
  <2>1. ASSUME NEW j \in K, NEW k \in K, j < k
        PROVE  number[j] # number[k]
    <3>1. Upto(j) \in SUBSET Upto(k) /\ Upto(j) # Upto(k)
      <4>1. k \in Upto(k) /\ k \notin Upto(j)
        BY <2>1
      <4>2. \A i \in K : i <= j => i <= k
        BY <2>1
      <4>3. Upto(j) \subseteq Upto(k)
        BY <4>2
      <4>. QED
        BY <4>1, <4>3
    <3>2. Cardinality(Upto(k)) # Cardinality(Upto(j))
      BY <1>1, <3>1, FS_Subset
    <3>. QED
      BY <3>2
  <2>. QED
    BY <2>1
<1>3. IsFiniteSet(1..size) /\ Cardinality(1..size) = size
  <2>1. size \in Nat
    BY FS_CardinalityType
  <2>. QED
    BY <2>1, FS_Interval
<1>4. number \in Injection(K, 1..size)
  BY <1>1, <1>2 DEF Injection, IsInjective
<1>5. number \in Surjection(K, 1..size)
  BY <1>3, <1>4, FS_Injection
<1>6. \E k \in K : number[k] = n
  BY <1>5 DEF Surjection
<1>. QED
  BY <1>6

\* What is left of a list is a list of those of its ids that are not in C,
\* each at one position only when that was so before.
LEMMA LeavesTheOthers ==
    ASSUME NEW S, NEW ids \in Seq(S), NEW C, NEW left, left = Without(ids, C)
    PROVE  /\ left \in Seq(S)
           /\ \A x : (\E k \in DOMAIN left : left[k] = x)
                        <=> x \notin C /\ \E k \in DOMAIN ids : ids[k] = x
           /\ (\A j, k \in DOMAIN ids : ids[j] = ids[k] => j = k)
                  => \A j, k \in DOMAIN left : left[j] = left[k] => j = k
<1>. DEFINE kept == {k \in DOMAIN ids : ids[k] \notin C}
            Upto(k) == {j \in kept : j <= k}
            place(n) == CHOOSE k \in kept : Cardinality(Upto(k)) = n
            size == Cardinality(kept)
<1>1. DOMAIN ids = 1..Len(ids) /\ Len(ids) \in Nat
  BY LenProperties
<1>2. IsFiniteSet(kept) /\ size \in Nat /\ kept \in SUBSET Nat
  <2>1. IsFiniteSet(1..Len(ids)) /\ kept \in SUBSET (1..Len(ids))
    BY <1>1, FS_Interval
  <2>2. IsFiniteSet(kept)
    BY <2>1, FS_Subset
  <2>. QED
    BY <2>1, <2>2, FS_CardinalityType
<1>3. \A n \in 1..size : place(n) \in kept /\ Cardinality(Upto(place(n))) = n
  <2>. TAKE n \in 1..size
  <2>1. \E k \in kept : Cardinality(Upto(k)) = n
    BY <1>2, Numbered
  <2>. QED
    BY <2>1
<1>4. left = [n \in 1..size |-> ids[place(n)]]
  BY DEF Without
<1>5. \A k \in kept : Cardinality(Upto(k)) \in 1..size /\ place(Cardinality(Upto(k))) = k
  <2>. TAKE k \in kept
  <2>1. \A j \in kept : IsFiniteSet(Upto(j)) /\ Cardinality(Upto(j)) \in Nat
                          /\ Cardinality(Upto(j)) <= size
    <3>. TAKE j \in kept
    <3>1. Upto(j) \in SUBSET kept
      OBVIOUS
    <3>2. IsFiniteSet(Upto(j)) /\ Cardinality(Upto(j)) <= size
      BY <1>2, <3>1, FS_Subset
    <3>. QED
      BY <3>2, FS_CardinalityType
  <2>2. Cardinality(Upto(k)) # 0
    <3>1. k \in Upto(k)
      BY <1>2
    <3>. QED
      BY <2>1, <3>1, FS_EmptySet
  <2>3. Cardinality(Upto(k)) \in 1..size
    BY <1>2, <2>1, <2>2
  <2>4. PICK j \in kept : j = place(Cardinality(Upto(k))) /\ Cardinality(Upto(j)) = Cardinality(Upto(k))
    BY <1>3, <2>3
  <2>5. \A a, b \in kept : a < b => Cardinality(Upto(a)) # Cardinality(Upto(b))
    <3>. SUFFICES ASSUME NEW a \in kept, NEW b \in kept, a < b
                  PROVE  Cardinality(Upto(a)) # Cardinality(Upto(b))
      OBVIOUS
    <3>1. Upto(a) \in SUBSET Upto(b)
      BY <1>2
    <3>2. b \in Upto(b) /\ b \notin Upto(a)
      BY <1>2
    <3>. QED
      BY <2>1, <3>1, <3>2, FS_Subset
  <2>6. j \in Nat /\ k \in Nat
    BY <1>2
  <2>. QED
    BY <2>3, <2>4, <2>5, <2>6
<1>. HIDE DEF place, Upto
<1>6. \A n \in 1..size : ids[place(n)] \in S /\ ids[place(n)] \notin C
  BY <1>1, <1>3, ElementOfSeq
<1>7. left \in [1..size -> S]
  BY <1>4, <1>6
<1>8. left \in Seq(S)
  BY <1>2, <1>7, IsASeq, <1>4, <1>6
<1>9. DOMAIN left = 1..size
  BY <1>4
<1>10. \A x : (\E n \in DOMAIN left : left[n] = x)
                <=> x \notin C /\ \E k \in DOMAIN ids : ids[k] = x
  <2>. TAKE x
  <2>1. ASSUME NEW n \in 1..size, left[n] = x
        PROVE  x \notin C /\ \E k \in DOMAIN ids : ids[k] = x
    BY <1>3, <1>4, <1>6, <2>1
  <2>2. ASSUME x \notin C, NEW k \in DOMAIN ids, ids[k] = x
        PROVE  \E n \in 1..size : left[n] = x
    <3>1. k \in kept
      BY <2>2
    <3>2. PICK n \in 1..size : place(n) = k
      BY <1>5, <3>1
    <3>. QED
      BY <1>4, <2>2, <3>2
  <2>. QED
    BY <1>9, <2>1, <2>2
<1>11. ASSUME \A j, k \in DOMAIN ids : ids[j] = ids[k] => j = k
       PROVE  \A m, n \in 1..size : left[m] = left[n] => m = n
  <2>. SUFFICES ASSUME NEW m \in 1..size, NEW n \in 1..size, left[m] = left[n]
                PROVE  m = n
    OBVIOUS
  <2>1. place(m) \in DOMAIN ids /\ place(n) \in DOMAIN ids /\ ids[place(m)] = ids[place(n)]
    BY <1>3, <1>4
  <2>2. place(m) = place(n)
    BY <1>11, <2>1
  <2>. QED
    BY <1>3, <2>2
<1>. QED
  BY <1>8, <1>9, <1>10, <1>11

-----------------------------------------------------------------------------
\* Who is about to put a connection into the pool is the only one to have it.
Fresh ==
    \A u \in Users : user[u].pc \in {"add", "recheck"} =>
        /\ user[u].conn \in Connections \ pool
        /\ \A v \in Users \ {u} : user[v].conn # user[u].conn

TypeInv == TypeOK /\ Fresh

\* What TypeOK says of the users, and what it says of the rest.
UserType ==
    /\ user \in [Users -> [pc : {"idle", "add", "recheck", "holding", "using", "failed"},
                           conn : Connections \cup {Nothing}, server : Servers \cup {Nothing}]]
    /\ \A u \in Users :
         /\ user[u].conn = Nothing <=> user[u].pc = "idle"
         /\ user[u].server \in Servers <=> user[u].pc \in {"add", "recheck"}

MapType ==
    /\ pool \subseteq Connections
    /\ tracked \in [Servers -> Seq(Connections)]
    /\ live \in [Connections -> BOOLEAN]
    /\ idle \in [Connections -> 0..(MaxIdle + 1)]
    /\ shutdown \in {"no", "closing", "done"}
    /\ orphaned \subseteq Connections
    /\ MapsAgree

LEMMA TypesTogether == TypeOK <=> UserType /\ MapType
  BY DEF TypeOK, UserType, MapType

LEMMA TypesTogetherNext == TypeOK' <=> UserType' /\ MapType'
  BY DEF TypeOK, UserType, MapType

\* The two maps agree when each pooled connection, and nothing else, is at a
\* place of a list, and at one place only.
Listed(c) == \E s \in Servers : \E k \in DOMAIN tracked[s] : tracked[s][k] = c
OnePlace ==
    \A s, t \in Servers : \A j \in DOMAIN tracked[s], k \in DOMAIN tracked[t] :
        tracked[s][j] = tracked[t][k] => s = t /\ j = k

LEMMA Agreement ==
    ASSUME tracked \in [Servers -> Seq(Connections)]
    PROVE  MapsAgree <=> (\A c : c \in pool <=> Listed(c)) /\ OnePlace
<1>1. \A c : c \in UNION {{tracked[s][k] : k \in DOMAIN tracked[s]} : s \in Servers} <=> Listed(c)
  BY DEF Listed
<1>. QED
  BY <1>1 DEF MapsAgree, OnePlace

LEMMA AgreementNext ==
    ASSUME tracked' \in [Servers -> Seq(Connections)]
    PROVE  MapsAgree' <=> (\A c : c \in pool' <=> Listed(c)') /\ OnePlace'
<1>1. \A c : c \in UNION {{tracked'[s][k] : k \in DOMAIN tracked'[s]} : s \in Servers} <=> Listed(c)'
  BY DEF Listed
<1>. QED
  BY <1>1 DEF MapsAgree, OnePlace

\* Closing takes the connections out of both maps.
LEMMA CloseKeepsTypes ==
    ASSUME PoolAssumption, MapType, NEW C, Close(C), UNCHANGED shutdown \/ shutdown' = "closing"
    PROVE  MapType' /\ pool' \subseteq pool
<1>. DEFINE gone == C \cap pool
<1>1. /\ pool' = pool \ C
      /\ tracked' = [s \in Servers |-> Without(tracked[s], gone)]
      /\ idle' = [c \in Connections |-> IF c \in C THEN 0 ELSE idle[c]]
      /\ live' \in [Connections -> BOOLEAN]
      /\ orphaned' \subseteq Connections
  BY DEF Close, MapType
<1>. HIDE DEF gone
<1>2. ASSUME NEW s \in Servers
      PROVE  /\ tracked'[s] \in Seq(Connections)
             /\ \A c : (\E k \in DOMAIN tracked'[s] : tracked'[s][k] = c)
                         <=> c \notin gone /\ \E k \in DOMAIN tracked[s] : tracked[s][k] = c
             /\ (\A j, k \in DOMAIN tracked[s] : tracked[s][j] = tracked[s][k] => j = k)
                   => \A j, k \in DOMAIN tracked'[s] : tracked'[s][j] = tracked'[s][k] => j = k
  <2>1. tracked[s] \in Seq(Connections)
    BY DEF MapType
  <2>2. tracked'[s] = Without(tracked[s], gone)
    BY <1>1
  <2>3. ASSUME NEW ids \in Seq(Connections), NEW left, left = Without(ids, gone)
        PROVE  /\ left \in Seq(Connections)
               /\ \A c : (\E k \in DOMAIN left : left[k] = c)
                           <=> c \notin gone /\ \E k \in DOMAIN ids : ids[k] = c
               /\ (\A j, k \in DOMAIN ids : ids[j] = ids[k] => j = k)
                     => \A j, k \in DOMAIN left : left[j] = left[k] => j = k
    <3>1. left \in Seq(Connections)
      BY <2>3, LeavesTheOthers
    <3>2. \A c : (\E k \in DOMAIN left : left[k] = c)
                    <=> c \notin gone /\ \E k \in DOMAIN ids : ids[k] = c
      BY <2>3, LeavesTheOthers
    <3>3. (\A j, k \in DOMAIN ids : ids[j] = ids[k] => j = k)
             => \A j, k \in DOMAIN left : left[j] = left[k] => j = k
      BY <2>3, LeavesTheOthers
    <3>. QED
      BY <3>1, <3>2, <3>3
  <2>. QED
    BY <2>1, <2>2, <2>3
<1>3. tracked' \in [Servers -> Seq(Connections)]
  BY <1>1, <1>2
<1>4. (\A c : c \in pool <=> Listed(c)) /\ OnePlace
  BY Agreement DEF MapType
<1>5. ASSUME NEW s \in Servers
      PROVE  \A c : (\E k \in DOMAIN tracked'[s] : tracked'[s][k] = c)
                  <=> c \notin gone /\ \E k \in DOMAIN tracked[s] : tracked[s][k] = c
  BY <1>2
<1>6. \A c : c \in pool' <=> Listed(c)'
  <2>. TAKE c
  <2>1. Listed(c)' <=> c \notin gone /\ Listed(c)
    BY <1>5 DEF Listed
  <2>2. c \in pool' <=> c \in pool /\ c \notin gone
    BY <1>1 DEF gone
  <2>. QED
    BY <1>4, <2>1, <2>2
<1>7. OnePlace'
  <2>. SUFFICES ASSUME NEW s \in Servers, NEW t \in Servers,
                       NEW j \in DOMAIN tracked'[s], NEW k \in DOMAIN tracked'[t],
                       tracked'[s][j] = tracked'[t][k]
                PROVE  s = t /\ j = k
    BY DEF OnePlace
  <2>1. PICK m \in DOMAIN tracked[s] : tracked[s][m] = tracked'[s][j]
    BY <1>5
  <2>2. PICK n \in DOMAIN tracked[t] : tracked[t][n] = tracked'[t][k]
    BY <1>5
  <2>3. s = t
    BY <1>4, <2>1, <2>2 DEF OnePlace
  <2>4. \A a, b \in DOMAIN tracked[s] : tracked[s][a] = tracked[s][b] => a = b
    BY <1>4 DEF OnePlace
  <2>5. \A a, b \in DOMAIN tracked'[s] : tracked'[s][a] = tracked'[s][b] => a = b
    BY <1>2, <2>4
  <2>. QED
    BY <2>3, <2>5
<1>8. MapsAgree'
  BY <1>3, <1>6, <1>7, AgreementNext
<1>9. idle' \in [Connections -> 0..(MaxIdle + 1)]
  <2>1. idle \in [Connections -> 0..(MaxIdle + 1)] /\ MaxIdle \in Nat
    BY DEF MapType, PoolAssumption
  <2>2. 0 \in 0..(MaxIdle + 1)
    BY <2>1
  <2>. QED
    BY <1>1, <2>1, <2>2
<1>. QED
  BY <1>1, <1>3, <1>8, <1>9 DEF MapType

\* A connection that is not pooled goes to the end of one list.
LEMMA InsertKeepsTypes ==
    ASSUME PoolAssumption, TypeInv, NEW u \in Users, user[u].pc \in {"add", "recheck"}, Insert(u), UNCHANGED shutdown
    PROVE  TypeInv'
<1>. DEFINE new == user[u].conn
            server == user[u].server
            old == tracked[server]
<1>1. /\ new \in Connections /\ new \notin pool /\ server \in Servers
      /\ \A v \in Users \ {u} : user[v].conn # new
  BY DEF TypeInv, TypeOK, Fresh
<1>2. /\ pool' = pool \cup {new}
      /\ tracked' = [tracked EXCEPT ![server] = Append(old, new)]
      /\ user' = [user EXCEPT ![u] = [pc |-> "holding", conn |-> new, server |-> Nothing]]
      /\ UNCHANGED <<live, idle, orphaned, shutdown>>
  BY DEF Insert, GoTo
<1>3. UserType /\ MapType
  BY TypesTogether DEF TypeInv
<1>. HIDE DEF new, server
<1>4. tracked \in [Servers -> Seq(Connections)] /\ old \in Seq(Connections)
  BY <1>1, <1>3 DEF MapType
<1>5. /\ Append(old, new) \in Seq(Connections)
      /\ DOMAIN old = 1..Len(old) /\ Len(old) \in Nat
      /\ DOMAIN Append(old, new) = 1..(Len(old) + 1)
      /\ \A k \in 1..Len(old) : Append(old, new)[k] = old[k]
      /\ Append(old, new)[Len(old) + 1] = new
  BY <1>1, <1>4, AppendProperties, LenProperties
<1>6. tracked' \in [Servers -> Seq(Connections)]
  BY <1>1, <1>2, <1>4, <1>5
<1>7. /\ tracked'[server] = Append(old, new)
      /\ \A s \in Servers \ {server} : tracked'[s] = tracked[s]
  BY <1>1, <1>2, <1>4
<1>8. (\A c : c \in pool <=> Listed(c)) /\ OnePlace
  BY <1>3, Agreement DEF MapType
<1>. HIDE DEF old
<1>9. old = tracked[server]
  BY DEF old
<1>10. ASSUME NEW s \in Servers, NEW k \in DOMAIN tracked'[s]
       PROVE  \/ s = server /\ k = Len(old) + 1 /\ tracked'[s][k] = new
              \/ k \in DOMAIN tracked[s] /\ tracked'[s][k] = tracked[s][k]
  <2>1. CASE s # server
    BY <1>7, <1>10, <2>1
  <2>2. CASE s = server
    <3>1. k \in 1..(Len(old) + 1) /\ tracked'[s][k] = Append(old, new)[k]
      BY <1>5, <1>7, <1>10, <2>2
    <3>2. CASE k = Len(old) + 1
      BY <1>5, <2>2, <3>1, <3>2
    <3>3. CASE k # Len(old) + 1
      <4>1. k \in 1..Len(old)
        BY <1>5, <3>1, <3>3
      <4>. QED
        BY <1>5, <1>9, <2>2, <3>1, <4>1
    <3>. QED
      BY <3>2, <3>3
  <2>. QED
    BY <2>1, <2>2
<1>11. ASSUME NEW s \in Servers, NEW k \in DOMAIN tracked[s]
       PROVE  k \in DOMAIN tracked'[s] /\ tracked'[s][k] = tracked[s][k]
  BY <1>5, <1>7, <1>9, <1>11
<1>12. Len(old) + 1 \in DOMAIN tracked'[server] /\ tracked'[server][Len(old) + 1] = new
  BY <1>5, <1>7
<1>13. \A c : c \in pool' <=> Listed(c)'
  <2>. TAKE c
  <2>1. ASSUME Listed(c)
        PROVE  Listed(c)'
    BY <1>11, <2>1 DEF Listed
  <2>2. \E s \in Servers : \E k \in DOMAIN tracked'[s] : tracked'[s][k] = new
    BY <1>1, <1>12
  <2>3. ASSUME Listed(c)'
        PROVE  c = new \/ Listed(c)
    BY <1>10, <2>3 DEF Listed
  <2>4. c \in pool' <=> c = new \/ c \in pool
    BY <1>2
  <2>5. c = new => Listed(c)'
    BY <2>2 DEF Listed
  <2>. QED
    BY <1>8, <2>1, <2>3, <2>4, <2>5
<1>14. ASSUME NEW s \in Servers, NEW k \in DOMAIN tracked[s]
       PROVE  tracked[s][k] # new
  BY <1>1, <1>8, <1>14 DEF Listed
<1>15. OnePlace'
  <2>. SUFFICES ASSUME NEW s \in Servers, NEW t \in Servers,
                       NEW j \in DOMAIN tracked'[s], NEW k \in DOMAIN tracked'[t],
                       tracked'[s][j] = tracked'[t][k]
                PROVE  s = t /\ j = k
    BY DEF OnePlace
  <2>1. CASE j \in DOMAIN tracked[s] /\ tracked'[s][j] = tracked[s][j]
    <3>1. k \in DOMAIN tracked[t] /\ tracked'[t][k] = tracked[t][k]
      BY <1>10, <1>14, <2>1
    <3>2. tracked[s][j] = tracked[t][k]
      BY <2>1, <3>1
    <3>. QED
      BY <1>8, <2>1, <3>1, <3>2 DEF OnePlace
  <2>2. CASE s = server /\ j = Len(old) + 1 /\ tracked'[s][j] = new
    BY <1>10, <1>14, <2>2
  <2>. QED
    BY <1>10, <2>1, <2>2
<1>16. MapsAgree'
  BY <1>6, <1>13, <1>15, AgreementNext
<1>17. MapType'
  BY <1>1, <1>2, <1>3, <1>6, <1>16 DEF MapType
<1>18. UserType'
  <2>1. Nothing \notin Servers
    BY PoolAssumption DEF PoolAssumption
  <2>2. [pc |-> "holding", conn |-> new, server |-> Nothing]
          \in [pc : {"idle", "add", "recheck", "holding", "using", "failed"},
              conn : Connections \cup {Nothing}, server : Servers \cup {Nothing}]
    BY <1>1
  <2>3. new # Nothing
    BY <1>1, PoolAssumption DEF PoolAssumption
  <2>4. user' \in [Users -> [pc : {"idle", "add", "recheck", "holding", "using", "failed"},
                             conn : Connections \cup {Nothing}, server : Servers \cup {Nothing}]]
    BY <1>2, <1>3, <2>2 DEF UserType
  <2>5. /\ user'[u] = [pc |-> "holding", conn |-> new, server |-> Nothing]
        /\ \A v \in Users \ {u} : user'[v] = user[v]
    BY <1>2, <1>3 DEF UserType
  <2>. QED
    BY <1>3, <2>1, <2>3, <2>4, <2>5 DEF UserType
<1>19. Fresh'
  BY <1>1, <1>2, <1>3 DEF TypeInv, Fresh, UserType
<1>. QED
  BY <1>17, <1>18, <1>19, TypesTogetherNext DEF TypeInv

\* A user that turns to something else, without a connection of its own.
LEMMA UserTurns ==
    ASSUME PoolAssumption, UserType, Fresh, NEW u \in Users,
           NEW pc \in {"idle", "holding", "using", "failed"}, NEW c \in Connections \cup {Nothing},
           c = Nothing <=> pc = "idle",
           c \in pool \cup {user[u].conn, Nothing},
           user' = [user EXCEPT ![u] = [pc |-> pc, conn |-> c, server |-> Nothing]],
           pool' \subseteq pool
    PROVE  UserType' /\ Fresh'
<1>1. Nothing \notin Servers /\ Nothing \notin Connections
  BY PoolAssumption DEF PoolAssumption
<1>2. /\ user'[u] = [pc |-> pc, conn |-> c, server |-> Nothing]
      /\ \A v \in Users \ {u} : user'[v] = user[v]
  BY DEF UserType
<1>3. user' \in [Users -> [pc : {"idle", "add", "recheck", "holding", "using", "failed"},
                           conn : Connections \cup {Nothing}, server : Servers \cup {Nothing}]]
  <2>1. [pc |-> pc, conn |-> c, server |-> Nothing]
          \in [pc : {"idle", "add", "recheck", "holding", "using", "failed"},
              conn : Connections \cup {Nothing}, server : Servers \cup {Nothing}]
    OBVIOUS
  <2>. QED
    BY <2>1 DEF UserType
<1>4. UserType'
  BY <1>1, <1>2, <1>3 DEF UserType
<1>5. ASSUME NEW v \in Users, user'[v].pc \in {"add", "recheck"}
      PROVE  /\ user'[v].conn \in Connections \ pool'
             /\ \A w \in Users \ {v} : user'[w].conn # user'[v].conn
  <2>1. v # u /\ user'[v] = user[v]
    BY <1>2, <1>5
  <2>2. user[v].conn \in Connections \ pool /\ \A w \in Users \ {v} : user[w].conn # user[v].conn
    BY <1>5, <2>1 DEF Fresh
  <2>3. c # user[v].conn
    BY <1>1, <2>1, <2>2
  <2>. QED
    BY <1>2, <2>1, <2>2, <2>3
<1>. QED
  BY <1>4, <1>5 DEF Fresh

\* Where users stay as they are and the pool does not grow, so does what is said of them.
LEMMA UsersStay ==
    ASSUME UserType, Fresh, UNCHANGED user, pool' \subseteq pool
    PROVE  UserType' /\ Fresh'
  BY DEF UserType, Fresh

\* So does what is said of the maps, where only flags, ages and the shutdown change.
LEMMA MapsStay ==
    ASSUME MapType, UNCHANGED <<pool, tracked>>,
           live' \in [Connections -> BOOLEAN],
           idle' \in [Connections -> 0..(MaxIdle + 1)],
           shutdown' \in {"no", "closing", "done"},
           orphaned' \subseteq Connections
    PROVE  MapType' /\ pool' \subseteq pool
  BY DEF MapType, MapsAgree

\* The connection at a place that is found is pooled.
LEMMA FoundIsPooled ==
    ASSUME MapType, NEW key, NEW k \in Found(key)
    PROVE  IdsOf(key)[k] \in pool /\ IdsOf(key)[k] \in Connections
<1>1. key \in Servers /\ k \in DOMAIN tracked[key] /\ IdsOf(key)[k] = tracked[key][k]
  BY DEF Found, IdsOf
<1>2. Listed(IdsOf(key)[k])
  BY <1>1 DEF Listed
<1>. QED
  BY <1>2, Agreement DEF MapType

\* The step of a connect, of the clean-up in addConnection and of a full pool.
LEMMA UserConnects ==
    ASSUME PoolAssumption, TypeInv,
           NEW u \in Users, NEW s \in Servers, NEW c \in Connections, Connect(u, s, c)
    PROVE  TypeInv'
<1>1. UserType /\ MapType /\ Fresh
  BY TypesTogether DEF TypeInv
<1>2. Nothing \notin Servers /\ Nothing \notin Connections
  BY PoolAssumption DEF PoolAssumption
<1>3. /\ user' = [user EXCEPT ![u] = [pc |-> "add", conn |-> c, server |-> s]]
      /\ c \notin pool /\ \A v \in Users : user[v].conn # c
      /\ live' = [live EXCEPT ![c] = TRUE]
      /\ UNCHANGED <<pool, tracked, idle, shutdown, orphaned>>
  BY DEF Connect, Unused
<1>4. /\ user'[u] = [pc |-> "add", conn |-> c, server |-> s]
      /\ \A v \in Users \ {u} : user'[v] = user[v]
  BY <1>1, <1>3 DEF UserType
<1>5. UserType'
  <2>1. [pc |-> "add", conn |-> c, server |-> s]
          \in [pc : {"idle", "add", "recheck", "holding", "using", "failed"},
              conn : Connections \cup {Nothing}, server : Servers \cup {Nothing}]
    OBVIOUS
  <2>2. user' \in [Users -> [pc : {"idle", "add", "recheck", "holding", "using", "failed"},
                             conn : Connections \cup {Nothing}, server : Servers \cup {Nothing}]]
    BY <1>1, <1>3, <2>1 DEF UserType
  <2>. QED
    BY <1>1, <1>2, <1>4, <2>2 DEF UserType
<1>6. Fresh'
  <2>1. ASSUME NEW v \in Users, user'[v].pc \in {"add", "recheck"}
        PROVE  /\ user'[v].conn \in Connections \ pool'
               /\ \A w \in Users \ {v} : user'[w].conn # user'[v].conn
    <3>1. CASE v = u
      BY <1>3, <1>4, <3>1
    <3>2. CASE v # u
      BY <1>1, <1>3, <1>4, <2>1, <3>2 DEF Fresh
    <3>. QED
      BY <3>1, <3>2
  <2>. QED
    BY <2>1 DEF Fresh
<1>7. MapType'
  <2>1. live' \in [Connections -> BOOLEAN]
    BY <1>1, <1>3 DEF MapType
  <2>. QED
    BY <1>1, <1>3, <2>1, MapsStay DEF MapType
<1>. QED
  BY <1>5, <1>6, <1>7, TypesTogetherNext DEF TypeInv

LEMMA UserWaits ==
    ASSUME UserType, Fresh, NEW u \in Users, user[u].pc = "add",
           user' = [user EXCEPT ![u] =
                       [pc |-> "recheck", conn |-> user[u].conn, server |-> user[u].server]],
           pool' \subseteq pool
    PROVE  UserType' /\ Fresh'
<1>. DEFINE r == [pc |-> "recheck", conn |-> user[u].conn, server |-> user[u].server]
<1>1. /\ user[u].conn \in Connections \cup {Nothing}
      /\ user[u].server \in Servers \cup {Nothing}
  BY DEF UserType
<1>2. r \in [pc : {"idle", "add", "recheck", "holding", "using", "failed"},
             conn : Connections \cup {Nothing}, server : Servers \cup {Nothing}]
  BY <1>1
<1>3. /\ r.pc = "recheck" /\ r.conn = user[u].conn /\ r.server = user[u].server
      /\ user'[u] = r
      /\ \A v \in Users \ {u} : user'[v] = user[v]
  BY DEF UserType
<1>4. user' \in [Users -> [pc : {"idle", "add", "recheck", "holding", "using", "failed"},
                           conn : Connections \cup {Nothing}, server : Servers \cup {Nothing}]]
  BY <1>2 DEF UserType
<1>. HIDE DEF r
<1>5. UserType'
  BY <1>3, <1>4 DEF UserType
<1>6. \A v \in Users : user'[v].conn = user[v].conn
  BY <1>3
<1>7. \A v \in Users : user'[v].pc \in {"add", "recheck"} => user[v].pc \in {"add", "recheck"}
  BY <1>3
<1>. QED
  BY <1>5, <1>6, <1>7 DEF Fresh

\* Types, the agreement of the two maps, and that no two users bring one
\* connection: together they are inductive.
THEOREM TypesKept == TypeInv /\ [Next]_vars => TypeInv'
<1>. SUFFICES ASSUME TypeInv, [Next]_vars
              PROVE  TypeInv'
  OBVIOUS
<1>1. UserType /\ MapType /\ Fresh
  BY TypesTogether DEF TypeInv
<1>2. ASSUME UserType', MapType', Fresh'
      PROVE  TypeInv'
  BY <1>2, TypesTogetherNext DEF TypeInv
<1>3. MaxIdle \in Nat /\ 0 \in 0..(MaxIdle + 1) /\ Nothing \notin Servers /\ Nothing \notin Connections
  BY PoolAssumption DEF PoolAssumption
<1>4. ASSUME NEW u \in Users, NEW s \in Servers, NEW c \in Connections, Connect(u, s, c)
      PROVE  TypeInv'
  BY <1>4, UserConnects, PoolAssumption
<1>5. ASSUME NEW u \in Users, Add(u)
      PROVE  TypeInv'
  <2>1. CASE Insert(u)
    BY <1>5, <2>1, InsertKeepsTypes, PoolAssumption DEF Add
  <2>2. CASE ~Insert(u)
    <3>1. /\ Close(IdleConnections)
          /\ user[u].pc = "add"
          /\ user' = [user EXCEPT ![u] =
               [pc |-> "recheck", conn |-> user[u].conn, server |-> user[u].server]]
          /\ UNCHANGED shutdown
      BY <1>5, <2>2 DEF Add
    <3>2. MapType' /\ pool' \subseteq pool
      BY <1>1, <3>1, CloseKeepsTypes, PoolAssumption
    <3>. QED
      BY <1>1, <1>2, <3>1, <3>2, UserWaits
  <2>. QED
    BY <2>1, <2>2
<1>6. ASSUME NEW u \in Users, Recheck(u)
      PROVE  TypeInv'
  <2>1. CASE Insert(u)
    BY <1>6, <2>1, InsertKeepsTypes, PoolAssumption DEF Recheck
  <2>2. CASE ~Insert(u)
    <3>1. /\ user[u].pc = "recheck"
          /\ user' = [user EXCEPT ![u] = [pc |-> "idle", conn |-> Nothing, server |-> Nothing]]
          /\ orphaned' = IF live[user[u].conn] THEN orphaned \cup {user[u].conn} ELSE orphaned
          /\ UNCHANGED <<pool, tracked, live, idle, shutdown>>
      BY <1>6, <2>2 DEF Recheck, Leave, IdleUser
    <3>2. user[u].conn \in Connections
      BY <1>1, <3>1 DEF Fresh
    <3>3. orphaned' \subseteq Connections
      BY <1>1, <3>1, <3>2 DEF MapType
    <3>4. MapType' /\ pool' \subseteq pool
      BY <1>1, <3>1, <3>3, MapsStay DEF MapType
    <3>5. UserType' /\ Fresh'
      BY <1>1, <3>1, <3>4, UserTurns, PoolAssumption
    <3>. QED
      BY <1>2, <3>4, <3>5
  <2>. QED
    BY <2>1, <2>2
<1>7. ASSUME NEW u \in Users, Command(u)
      PROVE  TypeInv'
  <2>1. user[u].pc = "holding" /\ UNCHANGED <<pool, tracked, live, shutdown, orphaned>>
    BY <1>7 DEF Command
  <2>2. CASE Found(user[u].conn) = {}
    <3>1. /\ user' = [user EXCEPT ![u] = [pc |-> "failed", conn |-> user[u].conn, server |-> Nothing]]
          /\ UNCHANGED idle
      BY <1>7, <2>2 DEF Command, GoTo
    <3>2. user[u].conn \in Connections /\ user[u].conn # Nothing
      BY <1>1, <1>3, <2>1 DEF UserType
    <3>3. MapType' /\ pool' \subseteq pool
      BY <1>1, <2>1, <3>1, MapsStay DEF MapType
    <3>4. UserType' /\ Fresh'
      BY <1>1, <3>1, <3>2, <3>3, UserTurns, PoolAssumption
    <3>. QED
      BY <1>2, <3>3, <3>4
  <2>3. CASE Found(user[u].conn) # {}
    <3>1. PICK k \in Found(user[u].conn) :
             idle' = [idle EXCEPT ![IdsOf(user[u].conn)[k]] = 0] /\ UNCHANGED user
      BY <1>7, <2>3 DEF Command
    <3>2. idle' \in [Connections -> 0..(MaxIdle + 1)]
      BY <1>1, <1>3, <3>1 DEF MapType
    <3>3. MapType' /\ pool' \subseteq pool
      BY <1>1, <2>1, <3>2, MapsStay DEF MapType
    <3>. QED
      BY <1>1, <1>2, <3>1, <3>3, UsersStay
  <2>. QED
    BY <2>2, <2>3
<1>8. ASSUME NEW u \in Users, NEW s \in Servers, Borrow(u, s)
      PROVE  TypeInv'
  <2>1. PICK k \in Found(s) :
          /\ user' = [user EXCEPT ![u] = [pc |-> "using", conn |-> IdsOf(s)[k], server |-> Nothing]]
          /\ idle' = [idle EXCEPT ![IdsOf(s)[k]] = 0]
          /\ UNCHANGED <<pool, tracked, live, shutdown, orphaned>>
    BY <1>8 DEF Borrow, GoTo
  <2>2. IdsOf(s)[k] \in pool /\ IdsOf(s)[k] \in Connections
    BY <1>1, FoundIsPooled
  <2>3. idle' \in [Connections -> 0..(MaxIdle + 1)]
    BY <1>1, <1>3, <2>1 DEF MapType
  <2>4. MapType' /\ pool' \subseteq pool
    BY <1>1, <2>1, <2>3, MapsStay DEF MapType
  <2>5. UserType' /\ Fresh'
    BY <1>1, <1>3, <2>1, <2>2, <2>4, UserTurns, PoolAssumption
  <2>. QED
    BY <1>2, <2>4, <2>5
<1>9. ASSUME NEW u \in Users, Leave(u), MapType', pool' \subseteq pool
      PROVE  TypeInv'
  <2>1. user' = [user EXCEPT ![u] = [pc |-> "idle", conn |-> Nothing, server |-> Nothing]]
    BY <1>9 DEF Leave, IdleUser
  <2>2. UserType' /\ Fresh'
    BY <1>1, <1>9, <2>1, UserTurns, PoolAssumption
  <2>. QED
    BY <1>2, <1>9, <2>2
<1>10. ASSUME NEW u \in Users, Release(u)
       PROVE  TypeInv'
  <2>1. /\ idle' = [c \in Connections |-> IF c = user[u].conn /\ c \in pool THEN 0 ELSE idle[c]]
        /\ UNCHANGED <<pool, tracked, live, shutdown, orphaned>>
    BY <1>10 DEF Release
  <2>2. idle' \in [Connections -> 0..(MaxIdle + 1)]
    BY <1>1, <1>3, <2>1 DEF MapType
  <2>3. MapType' /\ pool' \subseteq pool
    BY <1>1, <2>1, <2>2, MapsStay DEF MapType
  <2>. QED
    BY <1>9, <1>10, <2>3 DEF Release
<1>11. ASSUME NEW u \in Users, Disconnect(u)
       PROVE  TypeInv'
  <2>1. MapType' /\ pool' \subseteq pool
    BY <1>1, <1>11, CloseKeepsTypes, PoolAssumption DEF Disconnect
  <2>. QED
    BY <1>9, <1>11, <2>1 DEF Disconnect
<1>12. ASSUME NEW u \in Users, Forget(u)
       PROVE  TypeInv'
  <2>1. MapType' /\ pool' \subseteq pool
    BY <1>1, <1>12, MapsStay DEF Forget, MapType
  <2>. QED
    BY <1>9, <1>12, <2>1 DEF Forget
<1>13. ASSUME NEW c \in Connections, RemoteClose(c)
       PROVE  TypeInv'
  <2>1. /\ live' \in [Connections -> BOOLEAN]
        /\ orphaned' \subseteq Connections
        /\ UNCHANGED <<pool, tracked, idle, user, shutdown>>
    BY <1>1, <1>13 DEF RemoteClose, MapType
  <2>2. MapType' /\ pool' \subseteq pool
    BY <1>1, <2>1, MapsStay DEF MapType
  <2>. QED
    BY <1>1, <1>2, <2>1, <2>2, UsersStay
<1>14. ASSUME NEW C, Close(C), UNCHANGED user, UNCHANGED shutdown \/ shutdown' = "closing"
       PROVE  TypeInv'
  <2>1. MapType' /\ pool' \subseteq pool
    BY <1>1, <1>14, CloseKeepsTypes, PoolAssumption
  <2>. QED
    BY <1>1, <1>2, <1>14, <2>1, UsersStay
<1>15. CASE CleanupIdle \/ CloseAll \/ \E s \in Servers : CloseServerConnections(s)
  BY <1>14, <1>15 DEF CleanupIdle, CloseAll, CloseServerConnections
<1>16. CASE CloseAllClear
  <2>1. /\ orphaned' = orphaned \cup {c \in pool : live[c]}
        /\ pool' = {}
        /\ tracked' = [s \in Servers |-> <<>>]
        /\ shutdown' = "done"
        /\ idle' = [c \in Connections |-> 0]
        /\ UNCHANGED <<live, user>>
    BY <1>16 DEF CloseAllClear
  <2>2. tracked' \in [Servers -> Seq(Connections)]
    BY <2>1
  <2>3. \A s \in Servers : tracked'[s] = <<>> /\ DOMAIN tracked'[s] = {}
    BY <2>1
  <2>4. MapsAgree'
    BY <2>1, <2>2, <2>3, AgreementNext DEF Listed, OnePlace
  <2>5. MapType'
    BY <1>1, <1>3, <2>1, <2>2, <2>4 DEF MapType
  <2>6. pool' \subseteq pool
    BY <2>1
  <2>. QED
    BY <1>1, <1>2, <2>1, <2>5, <2>6, UsersStay
<1>17. CASE Tick
  <2>1. /\ idle' = [c \in Connections |->
                      IF c \in pool /\ idle[c] <= MaxIdle THEN idle[c] + 1 ELSE idle[c]]
        /\ UNCHANGED <<pool, tracked, live, user, shutdown, orphaned>>
    BY <1>17 DEF Tick
  <2>2. ASSUME NEW c \in Connections
        PROVE  (IF c \in pool /\ idle[c] <= MaxIdle THEN idle[c] + 1 ELSE idle[c]) \in 0..(MaxIdle + 1)
    <3>1. PICK n \in 0..(MaxIdle + 1) : n = idle[c]
      BY <1>1 DEF MapType
    <3>2. n <= MaxIdle => n + 1 \in 0..(MaxIdle + 1)
      BY <1>3
    <3>. QED
      BY <3>1, <3>2
  <2>3. idle' \in [Connections -> 0..(MaxIdle + 1)]
    BY <2>1, <2>2
  <2>4. MapType' /\ pool' \subseteq pool
    BY <1>1, <2>1, <2>3, MapsStay DEF MapType
  <2>. QED
    BY <1>1, <1>2, <2>1, <2>4, UsersStay
<1>18. CASE UNCHANGED vars
  BY <1>18 DEF vars, TypeInv, TypeOK, MapsAgree, Fresh
<1>. QED
  BY <1>4, <1>5, <1>6, <1>7, <1>8, <1>10, <1>11, <1>12, <1>13, <1>15, <1>16, <1>17, <1>18 DEF Next

\* The pool, the lists of the servers, flags, ages and users always have
\* their types, and the two maps agree: each pooled connection is at one
\* place of one list, and what is in no pool is in no list.
THEOREM MapsAlwaysAgree == Spec => []TypeOK
<1>1. Init => TypeInv
  <2>. SUFFICES ASSUME Init
                PROVE  TypeInv
    OBVIOUS
  <2>1. MaxIdle \in Nat /\ 0 \in 0..(MaxIdle + 1) /\ Nothing \notin Servers
    BY PoolAssumption DEF PoolAssumption
  <2>2. UserType /\ Fresh
    BY <2>1 DEF Init, IdleUser, UserType, Fresh
  <2>3. tracked \in [Servers -> Seq(Connections)] /\ \A s \in Servers : DOMAIN tracked[s] = {}
    BY DEF Init
  <2>4. MapsAgree
    BY <2>3, Agreement DEF Init, Listed, OnePlace
  <2>5. MapType
    BY <2>1, <2>3, <2>4 DEF Init, MapType
  <2>. QED
    BY <2>2, <2>5, TypesTogether DEF TypeInv
<1>2. TypeInv => TypeOK
  BY DEF TypeInv
<1>. QED
  BY <1>1, <1>2, TypesKept, PTL DEF Spec
=============================================================================
