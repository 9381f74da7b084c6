------------------------------ MODULE AppRoute ------------------------------
(***************************************************************************)
(* Sessions and logical routes of an application (app/app.go): serverList  *)
(* keeps one ServerSession, that is one RPC client, per discovered         *)
(* instance; logicalRoutes binds a ServerID to the instance first chosen   *)
(* for it.  Any number of goroutines look servers up while the selector    *)
(* reports instances that left (Watcher).                                  *)
(*                                                                         *)
(* A section under serverListMu is one action; so is each access to the    *)
(* sync.Maps outside it.  An instance is one run of a process; it may be   *)
(* reported and come back, or leave the selector without a report.         *)
(***************************************************************************)
EXTENDS Naturals, FiniteSets

CONSTANTS Threads,    \* goroutines that look servers up
          Instances,  \* instances of one service that ever register
          ServerOf,   \* ServerOf[i]: the ServerID instance i registers
          StartedAt,  \* StartedAt[i]: the rank of its start time, then its InstanceID
          VersionOf,  \* VersionOf[i]: the version of the service i runs
          LabelOf,    \* LabelOf[i]: the metadata i registers, None for none
          Endpoints,  \* Endpoints[v]: the endpoints version v of the service has
          Clients,    \* identities of the RPC clients that may be created
          None

Servers == {ServerOf[i] : i \in Instances}

ASSUME ConstAssumption == /\ StartedAt \in [Instances -> Nat]
                          /\ \A i, j \in Instances : StartedAt[i] = StartedAt[j] => i = j
                          /\ None \notin Instances \cup Clients \cup Servers

VARIABLES
    nodes,       \* what Selector.GetService returns
    serverList,  \* serverList[i]: the client of the session of i, or None
    route,       \* logicalRoutes: route[s] is an instance, or None
    client,      \* client[k]: "unused", "open" or "closed"
    closing,     \* clients Watcher has removed and is calling Done on
    pc,          \* pc[t]: where the lookup of goroutine t is
    want,        \* want[t]: the ServerID GetServerByID looks for, else None
    todo,        \* todo[t]: instances t still calls getServerSession for
    got,         \* got[t]: instances t has a session of
    cur,         \* cur[t]: the instance t has created a client for
    mine,        \* mine[t]: that client
    chosen       \* chosen[s]: the instance Select returned last for ServerID s, or None

thread == <<pc, want, todo, got, cur, mine>>
vars == <<nodes, serverList, route, client, closing, thread, chosen>>

TypeOK == /\ nodes \subseteq Instances
          /\ serverList \in [Instances -> Clients \cup {None}]
          /\ route \in [Servers -> Instances \cup {None}]
          /\ client \in [Clients -> {"unused", "open", "closed"}]
          /\ closing \subseteq Clients
          /\ pc \in [Threads -> {"idle", "list", "listOne", "open", "store", "drop", "bind"}]
          /\ want \in [Threads -> Servers \cup Instances \cup {None}]
          /\ todo \in [Threads -> SUBSET Instances]
          /\ got \in [Threads -> SUBSET Instances]
          /\ cur \in [Threads -> Instances \cup {None}]
          /\ mine \in [Threads -> Clients \cup {None}]
          /\ chosen \in [Servers -> Instances \cup {None}]

Init == /\ nodes = {}
        /\ serverList = [i \in Instances |-> None]
        /\ route = [s \in Servers |-> None]
        /\ client = [k \in Clients |-> "unused"]
        /\ closing = {}
        /\ pc = [t \in Threads |-> "idle"]
        /\ want = [t \in Threads |-> None]
        /\ todo = [t \in Threads |-> {}]
        /\ got = [t \in Threads |-> {}]
        /\ cur = [t \in Threads |-> None]
        /\ mine = [t \in Threads |-> None]
        /\ chosen = [s \in Servers |-> None]

\* registry.LatestServices on instances of one service: of every ServerID the
\* instance started last, of two started at once the one of the greater
\* InstanceID.  (Every module registers a ServerID.)
Latest(S) == {i \in S : \A j \in S : ServerOf[j] = ServerOf[i] => StartedAt[j] <= StartedAt[i]}

\* What a filter keeps: the instances with the metadata, those of the versions that
\* have the endpoint, those of the version.
FilterLabel(l) == {i \in Instances : LabelOf[i] = l}
FilterEndpoint(e) == {i \in Instances : e \in Endpoints[VersionOf[i]]}
FilterVersion(v) == {i \in Instances : VersionOf[i] = v}

Filters == {FilterLabel(l) : l \in {LabelOf[i] : i \in Instances} \ {None}}
           \cup {FilterEndpoint(e) : e \in UNION {Endpoints[VersionOf[i]] : i \in Instances}}
           \cup {FilterVersion(VersionOf[i]) : i \in Instances}

\* Mutant of Select: the filters come before LatestServices.
Select_FilterFirst(S, fs) == Latest({i \in S : \A f \in fs : i \in f})

\* cacheSelector.Select: the latest instances that pass every filter, in that order;
\* none is ErrNoneAvailable.
Select(S, fs) == {i \in Latest(S) : \A f \in fs : i \in f}

\* The Next of a strategy, called once: any of the nodes of all services.
Random(S) == S

\* cacheSelector.update calls Watcher, and so Done, with the selector locked:
\* GetService and Select wait.
SelectorFree == closing = {}

\* The instance a ServerID is bound to, if its session is still there.
Bound(s) == IF route[s] # None /\ serverList[route[s]] # None THEN route[s] ELSE None

\* A lookup that ends: the goroutine is ready for the next one.
Return(t) == /\ pc' = [pc EXCEPT ![t] = "idle"]
             /\ want' = [want EXCEPT ![t] = None]
             /\ todo' = [todo EXCEPT ![t] = {}]
             /\ got' = [got EXCEPT ![t] = {}]
             /\ UNCHANGED <<cur, mine>>

-----------------------------------------------------------------------------
(* GetServerByID *)

\* No live binding: on to the instances (a live one is returned as it is, which
\* changes nothing).
ByID(t, s) ==
    /\ pc[t] = "idle"
    /\ Bound(s) = None
    /\ pc' = [pc EXCEPT ![t] = "list"]
    /\ want' = [want EXCEPT ![t] = s]
    /\ UNCHANGED <<nodes, serverList, route, client, closing, todo, got, cur, mine, chosen>>

\* getServersByType(service, latest = true): the snapshot of the selector
ByIDList(t) ==
    /\ pc[t] = "list"
    /\ SelectorFree
    /\ todo' = [todo EXCEPT ![t] = Latest(nodes)]
    /\ pc' = [pc EXCEPT ![t] = "open"]
    /\ UNCHANGED <<nodes, serverList, route, client, closing, want, got, cur, mine, chosen>>

\* Mutant of Bind: the second look at the binding is missing.
Bind_Overwrite(t) ==
    /\ pc[t] = "bind"
    /\ \E i \in got[t] :
         /\ ServerOf[i] = want[t]
         /\ serverList[i] # None
         /\ route' = [route EXCEPT ![want[t]] = i]
         /\ Return(t)
    /\ UNCHANGED <<nodes, serverList, client, closing, chosen>>

\* A candidate with the wanted ServerID, under serverListMu: a binding made
\* meanwhile wins, else the candidate is bound if its session is still listed,
\* else the next candidate is tried.
Bind(t) ==
    /\ pc[t] = "bind"
    /\ \E i \in got[t] :
         /\ ServerOf[i] = want[t]
         /\ \/ Bound(want[t]) # None /\ UNCHANGED route /\ Return(t)
            \/ /\ Bound(want[t]) = None
               /\ serverList[i] # None
               /\ route' = [route EXCEPT ![want[t]] = i]
               /\ Return(t)
            \/ /\ Bound(want[t]) = None
               /\ serverList[i] = None
               /\ got' = [got EXCEPT ![t] = @ \ {i}]
               /\ UNCHANGED <<route, pc, want, todo, cur, mine>>
    /\ UNCHANGED <<nodes, serverList, client, closing, chosen>>

\* No candidate is left: "nofound"
BindNone(t) ==
    /\ pc[t] = "bind"
    /\ \A i \in got[t] : ServerOf[i] # want[t]
    /\ Return(t)
    /\ UNCHANGED <<nodes, serverList, route, client, closing, chosen>>

-----------------------------------------------------------------------------
(* GetServerByInstanceID, GetServerBySelector, GetServersByType *)

\* The instance has no session yet: ask the selector
ByInstance(t, i) ==
    /\ pc[t] = "idle"
    /\ serverList[i] = None
    /\ pc' = [pc EXCEPT ![t] = "listOne"]
    /\ want' = [want EXCEPT ![t] = i]
    /\ UNCHANGED <<nodes, serverList, route, client, closing, todo, got, cur, mine, chosen>>

\* ... exactly this instance, no other one of the same ServerID
ByInstanceList(t) ==
    /\ pc[t] = "listOne"
    /\ SelectorFree
    /\ IF want[t] \in nodes
       THEN /\ todo' = [todo EXCEPT ![t] = {want[t]}]
            /\ pc' = [pc EXCEPT ![t] = "open"]
            /\ want' = [want EXCEPT ![t] = None]
            /\ UNCHANGED <<got, cur, mine>>
       ELSE Return(t)
    /\ UNCHANGED <<nodes, serverList, route, client, closing, chosen>>

\* Selector.Select with the caller's filters, and next(): one of the instances
BySelector(t) ==
    /\ pc[t] = "idle"
    /\ SelectorFree
    /\ \E fs \in SUBSET Filters : \E i \in Random(Select(nodes, fs)) :
         /\ todo' = [todo EXCEPT ![t] = {i}]
         /\ chosen' = [chosen EXCEPT ![ServerOf[i]] = i]
    /\ pc' = [pc EXCEPT ![t] = "open"]
    /\ UNCHANGED <<nodes, serverList, route, client, closing, want, got, cur, mine>>

\* GetServersByType: all of them
ByType(t) ==
    /\ pc[t] = "idle"
    /\ SelectorFree
    /\ todo' = [todo EXCEPT ![t] = nodes]
    /\ pc' = [pc EXCEPT ![t] = "open"]
    /\ UNCHANGED <<nodes, serverList, route, client, closing, want, got, cur, mine, chosen>>

-----------------------------------------------------------------------------
(* getServerSession, for the instances in todo one after the other *)

SessionCached(t) ==
    /\ pc[t] = "open"
    /\ \E i \in todo[t] : /\ serverList[i] # None
                          /\ todo' = [todo EXCEPT ![t] = @ \ {i}]
                          /\ got' = [got EXCEPT ![t] = @ \cup {i}]
    /\ UNCHANGED <<nodes, serverList, route, client, closing, pc, want, cur, mine, chosen>>

\* NewServerSession: a new RPC client with its subscription and receive loop
SessionNew(t) ==
    /\ pc[t] = "open"
    /\ \E i \in todo[t], k \in Clients :
         /\ serverList[i] = None
         /\ client[k] = "unused"
         /\ client' = [client EXCEPT ![k] = "open"]
         /\ cur' = [cur EXCEPT ![t] = i]
         /\ mine' = [mine EXCEPT ![t] = k]
    /\ pc' = [pc EXCEPT ![t] = "store"]
    /\ UNCHANGED <<nodes, serverList, route, closing, want, todo, got, chosen>>

\* NewServerSession fails: the instance is skipped
SessionFail(t) ==
    /\ pc[t] = "open"
    /\ \E i \in todo[t] : /\ serverList[i] = None
                          /\ todo' = [todo EXCEPT ![t] = @ \ {i}]
    /\ UNCHANGED <<nodes, serverList, route, client, closing, pc, want, got, cur, mine, chosen>>

\* Mutant of SessionStore: Store instead of LoadOrStore.
SessionStore_Overwrite(t) ==
    /\ pc[t] = "store"
    /\ serverList' = [serverList EXCEPT ![cur[t]] = mine[t]]
    /\ todo' = [todo EXCEPT ![t] = @ \ {cur[t]}]
    /\ got' = [got EXCEPT ![t] = @ \cup {cur[t]}]
    /\ pc' = [pc EXCEPT ![t] = "open"]
    /\ cur' = [cur EXCEPT ![t] = None]
    /\ mine' = [mine EXCEPT ![t] = None]
    /\ UNCHANGED <<nodes, route, client, closing, want, chosen>>

\* LoadOrStore under serverListMu: the first client wins, a second one is dropped
SessionStore(t) ==
    /\ pc[t] = "store"
    /\ todo' = [todo EXCEPT ![t] = @ \ {cur[t]}]
    /\ got' = [got EXCEPT ![t] = @ \cup {cur[t]}]
    /\ IF serverList[cur[t]] = None
       THEN /\ serverList' = [serverList EXCEPT ![cur[t]] = mine[t]]
            /\ pc' = [pc EXCEPT ![t] = "open"]
            /\ cur' = [cur EXCEPT ![t] = None]
            /\ mine' = [mine EXCEPT ![t] = None]
       ELSE /\ pc' = [pc EXCEPT ![t] = "drop"]
            /\ UNCHANGED <<serverList, cur, mine>>
    /\ UNCHANGED <<nodes, route, client, closing, want, chosen>>

\* session.GetRPC().Done() on the client that lost
SessionDrop(t) ==
    /\ pc[t] = "drop"
    /\ client' = [client EXCEPT ![mine[t]] = "closed"]
    /\ pc' = [pc EXCEPT ![t] = "open"]
    /\ cur' = [cur EXCEPT ![t] = None]
    /\ mine' = [mine EXCEPT ![t] = None]
    /\ UNCHANGED <<nodes, serverList, route, closing, want, todo, got, chosen>>

\* All sessions are there: GetServerByID goes on to bind, the others return
SessionsDone(t) ==
    /\ pc[t] = "open"
    /\ todo[t] = {}
    /\ IF want[t] # None
       THEN pc' = [pc EXCEPT ![t] = "bind"] /\ UNCHANGED <<want, todo, got, cur, mine>>
       ELSE Return(t)
    /\ UNCHANGED <<nodes, serverList, route, client, closing, chosen>>

-----------------------------------------------------------------------------
(* Watcher, called by the selector for an instance that left *)

\* Mutant of Watcher: the binding is not removed with the session.
Watcher_KeepRoute(i) ==
    /\ i \in nodes
    /\ SelectorFree
    /\ nodes' = nodes \ {i}
    /\ closing' = closing \cup ({serverList[i]} \ {None})
    /\ serverList' = [serverList EXCEPT ![i] = None]
    /\ UNCHANGED <<route, client, thread, chosen>>

\* The section under serverListMu
Watcher(i) ==
    /\ i \in nodes
    /\ SelectorFree
    /\ nodes' = nodes \ {i}
    /\ closing' = closing \cup ({serverList[i]} \ {None})
    /\ serverList' = [serverList EXCEPT ![i] = None]
    /\ route' = IF serverList[i] # None /\ route[ServerOf[i]] = i
                THEN [route EXCEPT ![ServerOf[i]] = None]
                ELSE route
    /\ UNCHANGED <<client, thread, chosen>>

\* ... and Done outside it
WatcherDone(k) ==
    /\ k \in closing
    /\ client' = [client EXCEPT ![k] = "closed"]
    /\ closing' = closing \ {k}
    /\ UNCHANGED <<nodes, serverList, route, thread, chosen>>

\* An instance registers or returns (external)
Join(i) ==
    /\ i \notin nodes
    /\ SelectorFree
    /\ nodes' = nodes \cup {i}
    /\ UNCHANGED <<serverList, route, client, closing, thread, chosen>>

\* A refresh of the selector's entry no longer finds an instance, which nobody reports.
Forget(i) ==
    /\ i \in nodes
    /\ SelectorFree
    /\ nodes' = nodes \ {i}
    /\ UNCHANGED <<serverList, route, client, closing, thread, chosen>>

-----------------------------------------------------------------------------
Lookup(t) == \/ \E s \in Servers : ByID(t, s)
             \/ \E i \in Instances : ByInstance(t, i)
             \/ ByIDList(t) \/ Bind(t) \/ BindNone(t)
             \/ ByInstanceList(t) \/ BySelector(t) \/ ByType(t)
             \/ SessionCached(t) \/ SessionNew(t) \/ SessionFail(t)
             \/ SessionStore(t) \/ SessionDrop(t) \/ SessionsDone(t)

Next == \/ \E t \in Threads : Lookup(t)
        \/ \E i \in Instances : Watcher(i) \/ Join(i) \/ Forget(i)
        \/ \E k \in Clients : WatcherDone(k)

Spec == Init /\ [][Next]_vars

-----------------------------------------------------------------------------
(* Properties *)

\* A ServerID is only ever bound to one of its own instances, and to one whose
\* session is listed: Watcher takes both away together, and a lookup that lost
\* the race with it binds nothing.
RouteIsListed ==
    \A s \in Servers : route[s] # None => /\ ServerOf[route[s]] = s
                                          /\ serverList[route[s]] # None

\* No RPC client (a subscription and a goroutine each) is leaked: an open client
\* is the listed one of exactly one instance, or in the hands of the lookup that
\* created it, or being closed by Watcher ("only one RPC client is kept when an
\* instance is discovered concurrently", app.go:401).  And no lookup is given a
\* listed client that is closed or about to be.
NoClientLeak ==
    /\ \A k \in Clients : client[k] = "open" =>
          Cardinality({i \in Instances : serverList[i] = k}
                      \cup {t \in Threads : mine[t] = k}
                      \cup ({k} \cap closing)) = 1
    /\ \A i \in Instances : serverList[i] # None =>
          client[serverList[i]] = "open" /\ serverList[i] \notin closing

\* "The first instance chosen stays while it is alive" (app.go:181): no step moves
\* a binding to another instance while the session of the bound one is listed.
StickyRoute ==
    [][\A s \in Servers : Bound(s) # None /\ serverList'[Bound(s)] # None
                            => route'[s] = route[s]]_vars

\* Selections of a ServerID never go back: while the instance selected last is known
\* to the selector, no filter makes Select return an older instance of that ServerID,
\* be it of another version (LatestServices keeps the newest "across versions",
\* latest.go:3).
SelectsForward ==
    [][\A s \in Servers : chosen[s] \in nodes => StartedAt[chosen'[s]] >= StartedAt[chosen[s]]]_vars

=============================================================================
