--------------------------- MODULE AppRouteProofs ---------------------------
(* Type correctness, RouteIsListed, NoClientLeak, StickyRoute and            *)
(* SelectsForward, for any number of goroutines, instances and clients.      *)
EXTENDS AppRoute, FiniteSetTheorems, TLAPS

\* A lookup that has created a client is about to store or to drop it; nobody else
\* has that client.
HandsInv ==
    \A t \in Threads :
        /\ pc[t] \in {"store", "drop"} <=> mine[t] # None
        /\ mine[t] # None =>
              /\ cur[t] # None
              /\ client[mine[t]] = "open" /\ mine[t] \notin closing
              /\ \A i \in Instances : serverList[i] # mine[t]
              /\ \A u \in Threads : mine[u] = mine[t] => u = t

\* A listed client is open, is not being closed, and is listed once.
ListInv ==
    \A i \in Instances : serverList[i] # None =>
        /\ client[serverList[i]] = "open" /\ serverList[i] \notin closing
        /\ \A j \in Instances : serverList[j] = serverList[i] => j = i

\* Every open client is somebody's, and Watcher closes only open ones.
OwnedInv ==
    /\ \A k \in closing : client[k] = "open"
    /\ \A k \in Clients : client[k] = "open" =>
          \/ k \in closing
          \/ \E i \in Instances : serverList[i] = k
          \/ \E t \in Threads : mine[t] = k

ChosenInv == \A s \in Servers : chosen[s] # None => ServerOf[chosen[s]] = s

IInv == TypeOK /\ RouteIsListed /\ HandsInv /\ ListInv /\ OwnedInv /\ ChosenInv

USE ConstAssumption DEF ConstAssumption, thread, vars

LEMMA InitInv == Init => IInv
<1> SUFFICES ASSUME Init PROVE IInv
  OBVIOUS
<1>1. TypeOK
  BY DEF Init, TypeOK
<1>2. RouteIsListed /\ HandsInv /\ ListInv /\ OwnedInv /\ ChosenInv
  BY DEF Init, RouteIsListed, HandsInv, ListInv, OwnedInv, ChosenInv, Servers
<1> QED  BY <1>1, <1>2 DEF IInv

-----------------------------------------------------------------------------
(* Steps of a lookup that create no client and end the life of none *)

\* Who has which client does not change while a lookup has none in its hands.
LEMMA ClientsKept ==
    ASSUME IInv, UNCHANGED <<serverList, client, closing, cur, mine>>,
           \A t \in Threads : pc'[t] = pc[t] \/ (pc[t] \notin {"store", "drop"}
                                                 /\ pc'[t] \notin {"store", "drop"})
    PROVE  HandsInv' /\ ListInv' /\ OwnedInv'
<1>1. HandsInv'
  BY DEF IInv, HandsInv
<1>2. ListInv'
  BY DEF IInv, ListInv
<1>3. OwnedInv'
  BY DEF IInv, OwnedInv
<1> QED  BY <1>1, <1>2, <1>3

\* The lookups that have no binding to make
Moves(t) == \/ \E s \in Servers : ByID(t, s)
            \/ \E i \in Instances : ByInstance(t, i)
            \/ ByIDList(t) \/ BindNone(t) \/ ByInstanceList(t) \/ ByType(t)
            \/ SessionCached(t) \/ SessionFail(t) \/ SessionsDone(t)

LEMMA MovesInv == ASSUME IInv, NEW t \in Threads, Moves(t) PROVE IInv'
<1> USE DEF Moves, ByID, ByInstance, ByIDList, BindNone, ByInstanceList, ByType,
            SessionCached, SessionFail, SessionsDone, Return
<1>1. UNCHANGED <<nodes, serverList, route, client, closing, cur, mine, chosen>>
  OBVIOUS
<1>2. \E l \in {"idle", "list", "listOne", "open", "bind"} : pc' = [pc EXCEPT ![t] = l]
  BY DEF IInv, TypeOK
<1>3. pc[t] \notin {"store", "drop"}
  OBVIOUS
<1>4. TypeOK'
  <2>1. want' \in [Threads -> Servers \cup Instances \cup {None}]
    BY DEF IInv, TypeOK
  <2>2. todo' \in [Threads -> SUBSET Instances]
    BY DEF IInv, TypeOK, Latest
  <2>3. got' \in [Threads -> SUBSET Instances]
    BY DEF IInv, TypeOK
  <2> QED  BY <1>1, <1>2, <2>1, <2>2, <2>3 DEF IInv, TypeOK
<1>5. RouteIsListed' /\ ChosenInv'
  BY <1>1 DEF IInv, RouteIsListed, ChosenInv
<1>6. HandsInv' /\ ListInv' /\ OwnedInv'
  BY <1>1, <1>2, <1>3, ClientsKept DEF IInv, TypeOK
<1> QED  BY <1>4, <1>5, <1>6 DEF IInv

LEMMA SelectorInv == ASSUME IInv, NEW t \in Threads, BySelector(t) PROVE IInv'
<1> USE DEF BySelector, Select, Latest, Random
<1>1. PICK i \in nodes : /\ todo' = [todo EXCEPT ![t] = {i}]
                         /\ chosen' = [chosen EXCEPT ![ServerOf[i]] = i]
  OBVIOUS
<1>2. i \in Instances /\ ServerOf[i] \in Servers
  BY DEF IInv, TypeOK, Servers
<1>3. TypeOK'
  BY <1>1, <1>2 DEF IInv, TypeOK
<1>4. RouteIsListed'
  BY DEF IInv, RouteIsListed
<1>5. ChosenInv'
  BY <1>1, <1>2 DEF IInv, TypeOK, ChosenInv
<1>6. HandsInv' /\ ListInv' /\ OwnedInv'
  BY ClientsKept DEF IInv, TypeOK
<1> QED  BY <1>3, <1>4, <1>5, <1>6 DEF IInv

\* A binding is made to an instance whose session is listed, under the mutex.
LEMMA BindInv == ASSUME IInv, NEW t \in Threads, Bind(t) PROVE IInv'
<1> USE DEF Bind, Return
<1>1. UNCHANGED <<nodes, serverList, client, closing, cur, mine, chosen>>
  OBVIOUS
<1>2. pc[t] = "bind" /\ (pc' = pc \/ pc' = [pc EXCEPT ![t] = "idle"])
  OBVIOUS
<1>3. PICK i \in got[t] : /\ ServerOf[i] = want[t]
                          /\ \/ route' = route
                             \/ serverList[i] # None /\ route' = [route EXCEPT ![want[t]] = i]
  OBVIOUS
<1>4. i \in Instances /\ want[t] \in Servers
  BY <1>3 DEF IInv, TypeOK, Servers
<1>5. TypeOK'
  <2>1. want' \in [Threads -> Servers \cup Instances \cup {None}]
    BY DEF IInv, TypeOK
  <2>2. todo' \in [Threads -> SUBSET Instances] /\ got' \in [Threads -> SUBSET Instances]
    BY DEF IInv, TypeOK
  <2>3. route' \in [Servers -> Instances \cup {None}]
    BY <1>3, <1>4 DEF IInv, TypeOK
  <2> QED  BY <1>1, <1>2, <2>1, <2>2, <2>3 DEF IInv, TypeOK
<1>6. RouteIsListed'
  BY <1>1, <1>3, <1>4 DEF IInv, TypeOK, RouteIsListed
<1>7. ChosenInv'
  BY <1>1 DEF IInv, ChosenInv
<1>8. HandsInv' /\ ListInv' /\ OwnedInv'
  BY <1>1, <1>2, ClientsKept DEF IInv, TypeOK
<1> QED  BY <1>5, <1>6, <1>7, <1>8 DEF IInv

-----------------------------------------------------------------------------
(* The life of a client *)

\* A new client belongs to the lookup that created it.
LEMMA NewInv == ASSUME IInv, NEW t \in Threads, SessionNew(t) PROVE IInv'
<1> USE DEF SessionNew
<1>1. PICK i \in todo[t], k \in Clients :
          /\ client[k] = "unused"
          /\ client' = [client EXCEPT ![k] = "open"]
          /\ cur' = [cur EXCEPT ![t] = i]
          /\ mine' = [mine EXCEPT ![t] = k]
  OBVIOUS
<1>2. i \in Instances
  BY DEF IInv, TypeOK
<1>3. TypeOK'
  BY <1>1, <1>2 DEF IInv, TypeOK
<1>4. RouteIsListed' /\ ChosenInv'
  BY DEF IInv, RouteIsListed, ChosenInv
<1>5. HandsInv'
  BY <1>1, <1>2 DEF IInv, TypeOK, HandsInv, ListInv, OwnedInv
<1>6. ListInv'
  BY <1>1 DEF IInv, TypeOK, ListInv
<1>7. OwnedInv'
  BY <1>1 DEF IInv, TypeOK, HandsInv, OwnedInv
<1> QED  BY <1>3, <1>4, <1>5, <1>6, <1>7 DEF IInv

\* LoadOrStore hands the client over to the list, or leaves it to be dropped.
LEMMA StoreInv == ASSUME IInv, NEW t \in Threads, SessionStore(t) PROVE IInv'
<1> USE DEF SessionStore
<1>1. /\ mine[t] \in Clients /\ cur[t] \in Instances
      /\ client[mine[t]] = "open" /\ mine[t] \notin closing
      /\ \A i \in Instances : serverList[i] # mine[t]
      /\ \A u \in Threads : mine[u] = mine[t] => u = t
  BY DEF IInv, TypeOK, HandsInv
<1>2. TypeOK'
  <2>1. todo' \in [Threads -> SUBSET Instances] /\ got' \in [Threads -> SUBSET Instances]
    BY <1>1 DEF IInv, TypeOK
  <2>2. /\ serverList' \in [Instances -> Clients \cup {None}]
        /\ pc' \in [Threads -> {"idle", "list", "listOne", "open", "store", "drop", "bind"}]
        /\ cur' \in [Threads -> Instances \cup {None}]
        /\ mine' \in [Threads -> Clients \cup {None}]
    BY <1>1 DEF IInv, TypeOK
  <2> QED  BY <2>1, <2>2 DEF IInv, TypeOK
<1>3. RouteIsListed' /\ ChosenInv'
  BY <1>1 DEF IInv, TypeOK, RouteIsListed, ChosenInv
<1>4. CASE serverList[cur[t]] = None
  <2>1. /\ serverList' = [serverList EXCEPT ![cur[t]] = mine[t]]
        /\ pc' = [pc EXCEPT ![t] = "open"]
        /\ cur' = [cur EXCEPT ![t] = None]
        /\ mine' = [mine EXCEPT ![t] = None]
        /\ UNCHANGED <<client, closing>>
    BY <1>4
  <2>2. HandsInv'
    BY <1>1, <2>1 DEF IInv, TypeOK, HandsInv
  <2>3. ListInv'
    BY <1>1, <1>4, <2>1 DEF IInv, TypeOK, ListInv
  <2>4. OwnedInv'
    BY <1>1, <1>4, <2>1 DEF IInv, TypeOK, OwnedInv
  <2> QED  BY <1>2, <1>3, <2>2, <2>3, <2>4 DEF IInv
<1>5. CASE serverList[cur[t]] # None
  <2>1. UNCHANGED <<serverList, client, closing, cur, mine>> /\ pc' = [pc EXCEPT ![t] = "drop"]
    BY <1>5
  <2>2. HandsInv'
    BY <2>1 DEF IInv, TypeOK, HandsInv
  <2>3. ListInv' /\ OwnedInv'
    BY <2>1 DEF IInv, ListInv, OwnedInv
  <2> QED  BY <1>2, <1>3, <2>2, <2>3 DEF IInv
<1> QED  BY <1>4, <1>5

LEMMA DropInv == ASSUME IInv, NEW t \in Threads, SessionDrop(t) PROVE IInv'
<1> USE DEF SessionDrop
<1>1. /\ mine[t] \in Clients /\ mine[t] \notin closing
      /\ \A i \in Instances : serverList[i] # mine[t]
      /\ \A u \in Threads : mine[u] = mine[t] => u = t
  BY DEF IInv, TypeOK, HandsInv
<1>2. TypeOK'
  BY <1>1 DEF IInv, TypeOK
<1>3. RouteIsListed' /\ ChosenInv'
  BY DEF IInv, RouteIsListed, ChosenInv
<1>4. HandsInv'
  BY <1>1 DEF IInv, TypeOK, HandsInv
<1>5. ListInv'
  BY <1>1 DEF IInv, TypeOK, ListInv
<1>6. OwnedInv'
  BY <1>1 DEF IInv, TypeOK, OwnedInv
<1> QED  BY <1>2, <1>3, <1>4, <1>5, <1>6 DEF IInv

\* Watcher takes session and binding away together; the client is its own to close.
LEMMA WatcherInv == ASSUME IInv, NEW i \in Instances, Watcher(i) PROVE IInv'
<1> USE DEF Watcher
<1>1. ServerOf[i] \in Servers
  BY DEF Servers
<1>2. TypeOK'
  <2>1. /\ nodes' \subseteq Instances /\ closing' \subseteq Clients
        /\ serverList' \in [Instances -> Clients \cup {None}]
    BY DEF IInv, TypeOK
  <2>2. route' \in [Servers -> Instances \cup {None}]
    BY DEF IInv, TypeOK
  <2> QED  BY <2>1, <2>2 DEF IInv, TypeOK
<1>3. RouteIsListed'
  BY <1>1 DEF IInv, TypeOK, RouteIsListed
<1>4. ChosenInv'
  BY DEF IInv, ChosenInv
<1>5. HandsInv'
  BY DEF IInv, TypeOK, HandsInv
<1>6. ListInv'
  BY DEF IInv, TypeOK, ListInv
<1>7. OwnedInv'
  BY DEF IInv, TypeOK, ListInv, OwnedInv
<1> QED  BY <1>2, <1>3, <1>4, <1>5, <1>6, <1>7 DEF IInv

LEMMA WatcherDoneInv == ASSUME IInv, NEW k \in Clients, WatcherDone(k) PROVE IInv'
<1> USE DEF WatcherDone
<1>1. TypeOK'
  BY DEF IInv, TypeOK
<1>2. RouteIsListed' /\ ChosenInv'
  BY DEF IInv, RouteIsListed, ChosenInv
<1>3. HandsInv'
  BY DEF IInv, TypeOK, HandsInv
<1>4. ListInv'
  BY DEF IInv, TypeOK, ListInv
<1>5. OwnedInv'
  BY DEF IInv, TypeOK, OwnedInv
<1> QED  BY <1>1, <1>2, <1>3, <1>4, <1>5 DEF IInv

LEMMA JoinInv == ASSUME IInv, NEW i \in Instances, Join(i) \/ Forget(i) PROVE IInv'
<1> USE DEF Join, Forget
<1>1. TypeOK'
  BY DEF IInv, TypeOK
<1>2. RouteIsListed' /\ ChosenInv'
  BY DEF IInv, RouteIsListed, ChosenInv
<1>3. HandsInv' /\ ListInv' /\ OwnedInv'
  BY ClientsKept
<1> QED  BY <1>1, <1>2, <1>3 DEF IInv

LEMMA StepInv == IInv /\ [Next]_vars => IInv'
<1> SUFFICES ASSUME IInv, [Next]_vars PROVE IInv'
  OBVIOUS
<1>1. ASSUME NEW t \in Threads, Lookup(t) PROVE IInv'
  BY <1>1, MovesInv, SelectorInv, BindInv, NewInv, StoreInv, DropInv DEF Lookup, Moves
<1>2. ASSUME NEW i \in Instances, Watcher(i) \/ Join(i) \/ Forget(i) PROVE IInv'
  BY <1>2, WatcherInv, JoinInv
<1>3. ASSUME NEW k \in Clients, WatcherDone(k) PROVE IInv'
  BY <1>3, WatcherDoneInv
<1>4. CASE UNCHANGED vars
  <2>1. TypeOK' /\ RouteIsListed' /\ ChosenInv'
    BY <1>4 DEF IInv, TypeOK, RouteIsListed, ChosenInv
  <2>2. HandsInv' /\ ListInv' /\ OwnedInv'
    BY <1>4, ClientsKept
  <2> QED  BY <2>1, <2>2 DEF IInv
<1> QED  BY <1>1, <1>2, <1>3, <1>4 DEF Next

-----------------------------------------------------------------------------
\* The inductive invariant holds in every state of the application.
THEOREM Invariance == Spec => []IInv
<1> QED  BY InitInv, StepInv, PTL DEF Spec

\* In every behaviour the variables of the application have their types.
THEOREM TypeCorrect == Spec => []TypeOK
<1>1. IInv => TypeOK
  BY DEF IInv
<1> QED  BY <1>1, Invariance, PTL

\* A ServerID is bound only to an instance of its own whose session is listed.
THEOREM RoutesListed == Spec => []RouteIsListed
<1>1. IInv => RouteIsListed
  BY DEF IInv
<1> QED  BY <1>1, Invariance, PTL

\* Every open client has exactly one owner, and a listed one is nobody's to close.
THEOREM ClientsOwned == Spec => []NoClientLeak
<1>1. ASSUME IInv, NEW k \in Clients, client[k] = "open"
      PROVE  Cardinality({i \in Instances : serverList[i] = k}
                         \cup {t \in Threads : mine[t] = k}
                         \cup ({k} \cap closing)) = 1
  <2> DEFINE listed == {i \in Instances : serverList[i] = k}
             hands == {t \in Threads : mine[t] = k}
             owners == listed \cup hands \cup ({k} \cap closing)
  <2>1. CASE k \in closing
    <3>1. listed = {} /\ hands = {}
      BY <1>1, <2>1 DEF IInv, HandsInv, ListInv
    <3>2. owners = {k}
      BY <2>1, <3>1
    <3> QED  BY <3>2, FS_Singleton
  <2>2. ASSUME NEW i \in Instances, serverList[i] = k PROVE Cardinality(owners) = 1
    <3>1. k \notin closing /\ hands = {} /\ listed = {i}
      BY <1>1, <2>2 DEF IInv, HandsInv, ListInv
    <3>2. owners = {i}
      BY <3>1
    <3> QED  BY <3>2, FS_Singleton
  <2>3. ASSUME NEW t \in Threads, mine[t] = k PROVE Cardinality(owners) = 1
    <3>1. k \notin closing /\ hands = {t} /\ listed = {}
      BY <1>1, <2>3 DEF IInv, HandsInv
    <3>2. owners = {t}
      BY <3>1
    <3> QED  BY <3>2, FS_Singleton
  <2> QED  BY <1>1, <2>1, <2>2, <2>3 DEF IInv, OwnedInv
<1>2. IInv => NoClientLeak
  BY <1>1 DEF IInv, ListInv, NoClientLeak
<1> QED  BY <1>2, Invariance, PTL

\* No step moves a binding while the session of the bound instance is listed.
THEOREM RoutesStick == Spec => StickyRoute
<1>1. IInv /\ [Next]_vars =>
        [\A s \in Servers : Bound(s) # None /\ serverList'[Bound(s)] # None
                               => route'[s] = route[s]]_vars
  <2> SUFFICES ASSUME IInv, Next, NEW s \in Servers,
                      Bound(s) # None, serverList'[Bound(s)] # None
               PROVE  route'[s] = route[s]
    OBVIOUS
  <2>1. route[s] \in Instances /\ Bound(s) = route[s]
    BY DEF IInv, TypeOK, Bound
  <2>2. ASSUME NEW t \in Threads, Bind(t) PROVE route'[s] = route[s]
    BY <2>1, <2>2 DEF IInv, TypeOK, Bind
  <2>3. ASSUME NEW i \in Instances, Watcher(i) PROVE route'[s] = route[s]
    BY <2>1, <2>3 DEF IInv, TypeOK, Watcher
  <2>4. CASE UNCHANGED route
    BY <2>4
  <2> QED  BY <2>2, <2>3, <2>4 DEF Next, Lookup, ByID, ByInstance, ByIDList, BindNone,
         ByInstanceList, BySelector, ByType, SessionCached, SessionNew, SessionFail,
         SessionStore, SessionDrop, SessionsDone, WatcherDone, Join, Forget
<1> QED  BY <1>1, Invariance, PTL DEF Spec, StickyRoute

\* While the instance selected last for a ServerID is known, none that started before
\* it is selected, whatever the filters.
THEOREM SelectionsForward == Spec => SelectsForward
<1>1. IInv /\ [Next]_vars =>
        [\A s \in Servers : chosen[s] \in nodes =>
              StartedAt[chosen'[s]] >= StartedAt[chosen[s]]]_vars
  <2> SUFFICES ASSUME IInv, Next, NEW s \in Servers, chosen[s] \in nodes
               PROVE  StartedAt[chosen'[s]] >= StartedAt[chosen[s]]
    OBVIOUS
  <2>1. chosen[s] \in Instances /\ ServerOf[chosen[s]] = s
    BY DEF IInv, TypeOK, ChosenInv
  <2>2. ASSUME NEW t \in Threads, BySelector(t)
        PROVE  StartedAt[chosen'[s]] >= StartedAt[chosen[s]]
    <3>1. PICK i \in Latest(nodes) : chosen' = [chosen EXCEPT ![ServerOf[i]] = i]
      BY <2>2 DEF BySelector, Select, Random
    <3>2. i \in Instances
      BY <3>1 DEF Latest, IInv, TypeOK
    <3>3. CASE ServerOf[i] = s
      BY <2>1, <3>1, <3>2, <3>3 DEF Latest, IInv, TypeOK
    <3>4. CASE ServerOf[i] # s
      BY <2>1, <3>1, <3>4 DEF IInv, TypeOK
    <3> QED  BY <3>3, <3>4
  <2>3. CASE UNCHANGED chosen
    BY <2>1, <2>3
  <2> QED  BY <2>2, <2>3 DEF Next, Lookup, ByID, ByInstance, ByIDList, Bind, BindNone,
         ByInstanceList, ByType, SessionCached, SessionNew, SessionFail,
         SessionStore, SessionDrop, SessionsDone, Watcher, WatcherDone, Join, Forget
<1> QED  BY <1>1, Invariance, PTL DEF Spec, SelectsForward
=============================================================================
