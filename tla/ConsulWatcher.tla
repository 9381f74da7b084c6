---------------------------- MODULE ConsulWatcher ----------------------------
(***************************************************************************)
(* The watcher of a Consul registry (registry/consul_watcher.go) and the   *)
(* cache that follows it (selector/cache/cache.go, update), for one        *)
(* service.  A plan over the service names starts and stops the plan of    *)
(* the service, whose handler compares every snapshot with the one before  *)
(* and sends the differences to next.  Stop of a plan does not wait for a  *)
(* handler that is running.  Plans (and their queries) are the consul      *)
(* library's (external): a plan calls its handler with the state of the    *)
(* catalogue whenever that has changed since its last call.                *)
(*                                                                         *)
(* A Result carries a pointer: the Service a result names is the one the   *)
(* watcher keeps for its next comparison and the one the cache stores, and *)
(* all three are changed in place.  Services are therefore objects, with   *)
(* the instances in their Nodes in `nodes'.                                *)
(***************************************************************************)
EXTENDS ConsulRegistry

CONSTANTS Plans,    \* the plans the service may get, one after the other
          Objects,  \* the registry.Service objects
          NoPlan,
          Cap       \* capacity of next (10 in the code)

ASSUME WatcherAssumption == /\ Cap \in Nat \ {0} /\ IsFiniteSet(Versions)
                            /\ None \notin Objects /\ NoPlan \notin Plans
\* A map that is missing is told apart from every map.
ASSUME NoMapAssumption == None \notin [Versions -> Objects \cup {None}]

VARIABLES
    nodes,     \* nodes[o]: the instances in the Nodes of Service o
    services,  \* cw.services of the service: the object of each version, or None
    watcher,   \* cw.watchers of the service, or NoPlan
    listed,    \* whether the services plan last saw the service
    mainPc,    \* where handle, the services plan's handler, is
    plan,      \* plan[p]: "off", "running" or "stopped"
    seen,      \* seen[p]: what plan p has delivered last
    pc,        \* pc[p]: where serviceHandler, p's handler, is
    new,       \* new[p]: serviceMap, the object of each version
    old,       \* old[p]: rservices of the service
    todo,      \* todo[p]: the versions of new the loop has not reached
    out,       \* out[p]: the results to be sent next
    next,      \* cw.next
    cached,    \* the cache's entry: the object of each version, or None
    emptied,   \* a snapshot was empty while cw.services held the service
    ahead      \* the lookup saw a catalogue the plan had not delivered

handlers == <<pc, new, old, todo, out, seen>>
plans == <<watcher, listed, mainPc, plan>>
watcherVars == <<nodes, services, plans, handlers, next, cached, emptied, ahead>>
allVars == <<registryVars, watcherVars>>

Maps == [Versions -> Objects \cup {None}]
NoMap == [v \in Versions |-> None]
Result(a, v, o) == [action |-> a, version |-> v, service |-> o]
Snapshot == [v \in Known |-> Healthy(v)]

WatcherTypeOK == /\ RegistryTypeOK
                 /\ nodes \in [Objects -> SUBSET Instances]
                 /\ services \in Maps \cup {None} /\ cached \in Maps \cup {None}
                 /\ watcher \in Plans \cup {NoPlan} /\ listed \in BOOLEAN
                 /\ mainPc \in {"idle", "sendCreate", "stop", "sendDelete"}
                 /\ plan \in [Plans -> {"off", "running", "stopped"}]
                 /\ pc \in [Plans -> {"idle", "loop", "store"}]
                 /\ new \in [Plans -> Maps] /\ old \in [Plans -> Maps \cup {None}]
                 /\ todo \in [Plans -> SUBSET Versions]
                 /\ Len(next) <= Cap /\ emptied \in BOOLEAN
                 /\ ahead \in BOOLEAN

WatcherInit == /\ RegistryInit
               /\ nodes = [o \in Objects |-> {}]
               /\ services = None /\ cached = None
               /\ watcher = NoPlan /\ listed = FALSE /\ mainPc = "idle"
               /\ plan = [p \in Plans |-> "off"]
               /\ seen = [p \in Plans |-> <<>>]
               /\ pc = [p \in Plans |-> "idle"]
               /\ new = [p \in Plans |-> NoMap]
               /\ old = [p \in Plans |-> None]
               /\ todo = [p \in Plans |-> {}]
               /\ out = [p \in Plans |-> <<>>]
               /\ next = <<>> /\ emptied = FALSE /\ ahead = FALSE

\* Objects nothing refers to
Of(m) == IF m = None THEN {} ELSE {m[v] : v \in Versions}
Sent(q) == {q[n].service : n \in 1..Len(q)}
Unused == Objects \ (Of(services) \cup Of(cached) \cup Sent(next)
             \cup UNION {Of(new[p]) \cup Of(old[p]) \cup Sent(out[p]) : p \in Plans})

\* A new object for every version of V; bound: there are as many left
Free(V) == {f \in [V -> Unused] : \A v, w \in V : f[v] = f[w] => v = w}
Allocate(V) == LET m == CHOOSE f \in Free(V) : TRUE
               IN  [v \in Versions |-> IF v \in V THEN m[v] ELSE None]

\* The nodes of the new objects m are those of the catalogue.
Filled(m) ==
    LET free == Unused
    IN  [o \in Objects |->
            IF o \notin free THEN nodes[o]
            ELSE UNION {Healthy(v) : v \in {w \in Versions : m[w] = o}}]

-----------------------------------------------------------------------------
(* handle: the names of the services *)

\* The service is listed and has no watcher: its plan starts. It is no longer
\* listed: what is known of it is dropped.
Handle ==
    /\ mainPc = "idle" /\ listed # (Known # {})
    /\ listed' = (Known # {})
    /\ IF listed'
         THEN /\ \E p \in Plans : plan[p] = "off"
              /\ watcher' = CHOOSE p \in Plans : plan[p] = "off"
              /\ plan' = [plan EXCEPT ![watcher'] = "running"]
              /\ mainPc' = "sendCreate"
              /\ UNCHANGED services
         ELSE /\ services' = None
              /\ mainPc' = "stop"
              /\ UNCHANGED <<plan, watcher>>
    /\ UNCHANGED <<registryVars, nodes, handlers, next, cached, emptied, ahead>>

\* Then its plan is stopped.
StopPlan ==
    /\ mainPc = "stop"
    /\ plan' = [plan EXCEPT ![watcher] = "stopped"]
    /\ watcher' = NoPlan
    /\ mainPc' = "sendDelete"
    /\ UNCHANGED <<registryVars, nodes, services, listed, handlers, next, cached, emptied, ahead>>

\* A result without nodes for either; the send waits for room in next.
HandleSends ==
    /\ mainPc \in {"sendCreate", "sendDelete"} /\ Len(next) < Cap
    /\ next' = Append(next, Result(IF mainPc = "sendCreate" THEN "create" ELSE "delete",
                                   None, None))
    /\ mainPc' = "idle"
    /\ UNCHANGED <<registryVars, nodes, services, watcher, listed, plan, handlers,
                   cached, emptied, ahead>>

-----------------------------------------------------------------------------
(* serviceHandler: the instances of the service *)

\* A snapshot is delivered. The service's name is taken from its entries: without
\* entries nothing is compared, and the empty list stored under the name "".
SnapshotArrives(p) ==
    /\ plan[p] = "running" /\ pc[p] = "idle" /\ Snapshot # seen[p]
    /\ seen' = [seen EXCEPT ![p] = Snapshot]
    /\ IF Known = {}
         THEN /\ emptied' = (emptied \/ services # None)
              /\ UNCHANGED <<nodes, pc, new, old, todo>>
         ELSE /\ Free(Known) # {}
              /\ \E m \in {Allocate(Known)} :
                    /\ new' = [new EXCEPT ![p] = m]
                    /\ nodes' = Filled(m)
              /\ old' = [old EXCEPT ![p] = services]
              /\ todo' = [todo EXCEPT ![p] = Known]
              /\ pc' = [pc EXCEPT ![p] = "loop"]
              /\ UNCHANGED emptied
    /\ UNCHANGED <<registryVars, services, plans, out, next, cached, ahead>>

\* Mutant of Compare: the instances that are gone are not reported.
Compare_NoDelete(p) ==
    /\ pc[p] = "loop" /\ out[p] = <<>>
    /\ \E v \in todo[p] :
          /\ todo' = [todo EXCEPT ![p] = @ \ {v}]
          /\ out' = [out EXCEPT ![p] = <<Result("update", v, new[p][v])>>]
    /\ UNCHANGED <<registryVars, nodes, services, plans, pc, new, old, seen, next,
                   cached, emptied, ahead>>

\* A version that was known: its Service keeps only the instances that are gone, and
\* is reported as deleted; the new one follows, as an update or a creation.
Compare(p) ==
    /\ pc[p] = "loop" /\ out[p] = <<>>
    /\ \E v \in todo[p] :
          LET o == IF old[p] = None THEN None ELSE old[p][v]
              gone == IF o = None THEN {} ELSE nodes[o] \ nodes[new[p][v]]
          IN  /\ todo' = [todo EXCEPT ![p] = @ \ {v}]
              /\ nodes' = IF gone = {} THEN nodes ELSE [nodes EXCEPT ![o] = gone]
              /\ out' = [out EXCEPT ![p] =
                    (IF gone = {} THEN <<>> ELSE <<Result("delete", v, o)>>)
                    \o <<Result(IF o = None THEN "create" ELSE "update", v, new[p][v])>>]
    /\ UNCHANGED <<registryVars, services, plans, pc, new, old, seen, next, cached, emptied, ahead>>

\* The versions that are gone are reported as deleted, one after the other.
CompareVersions(p) ==
    /\ pc[p] = "loop" /\ todo[p] = {} /\ out[p] = <<>>
    /\ LET gone == {v \in Versions : old[p] # None /\ old[p][v] # None
                                       /\ new[p][v] = None}
       IN  \E f \in {g \in [1..Cardinality(gone) -> gone] :
                        \A v \in gone : \E n \in DOMAIN g : g[n] = v} :
              out' = [out EXCEPT ![p] =
                         [n \in DOMAIN f |-> Result("delete", f[n], old[p][f[n]])]]
    /\ pc' = [pc EXCEPT ![p] = "store"]
    /\ UNCHANGED <<registryVars, nodes, services, plans, new, old, todo, seen, next,
                   cached, emptied, ahead>>

Send(p) ==
    /\ out[p] # <<>> /\ Len(next) < Cap
    /\ next' = Append(next, Head(out[p]))
    /\ out' = [out EXCEPT ![p] = Tail(@)]
    /\ UNCHANGED <<registryVars, nodes, services, plans, pc, new, old, todo, seen,
                   cached, emptied, ahead>>

\* The new services replace the old ones in cw.services.
Store(p) ==
    /\ pc[p] = "store" /\ out[p] = <<>>
    /\ services' = new[p]
    /\ pc' = [pc EXCEPT ![p] = "idle"]
    /\ new' = [new EXCEPT ![p] = NoMap]
    /\ old' = [old EXCEPT ![p] = None]
    /\ UNCHANGED <<registryVars, nodes, plans, todo, out, seen, next, cached,
                   emptied, ahead>>

-----------------------------------------------------------------------------
(* The cache *)

\* A lookup fills the entry with what GetService returns.
Lookup ==
    /\ cached = None /\ Known # {} /\ Free(Known) # {}
    /\ \E m \in {Allocate(Known)} : cached' = m /\ nodes' = Filled(m)
    /\ ahead' = (watcher = NoPlan \/ seen[watcher] # Snapshot)
    /\ UNCHANGED <<registryVars, services, plans, handlers, next, emptied>>

\* The cache's entry and the objects after result r is applied
Applied(r) ==
    LET cur == cached[r.version]
        rest == nodes[cur] \ nodes[r.service]
        others == [cached EXCEPT ![r.version] = None]
    IN  CASE cached = None -> <<cached, nodes>>
          [] cached # None /\ (r.service = None \/ nodes[r.service] = {}) ->
                <<IF r.action = "delete" THEN None ELSE cached, nodes>>
          [] OTHER ->
                CASE r.action = "delete" /\ cur = None -> <<cached, nodes>>
                  [] r.action = "delete" /\ cur # None /\ rest # {} ->
                        <<cached, [nodes EXCEPT ![cur] = rest]>>
                  [] r.action = "delete" /\ cur # None /\ rest = {} ->
                        <<IF others = NoMap THEN None ELSE others, nodes>>
                  [] r.action # "delete" ->
                        <<[cached EXCEPT ![r.version] = r.service],
                          IF cur = None THEN nodes
                          ELSE [nodes EXCEPT ![r.service] = @ \cup nodes[cur]]>>

\* The cache takes a result from Next and applies it.
NextResult ==
    /\ next # <<>>
    /\ LET a == Applied(Head(next)) IN cached' = a[1] /\ nodes' = a[2]
    /\ next' = Tail(next)
    /\ UNCHANGED <<registryVars, services, plans, handlers, emptied, ahead>>

ServiceHandler(p) == \/ SnapshotArrives(p) \/ Compare(p) \/ CompareVersions(p)
                     \/ Send(p) \/ Store(p)

WatcherNext == \/ RegistryNext /\ UNCHANGED watcherVars
               \/ Handle \/ StopPlan \/ HandleSends \/ Lookup \/ NextResult
               \/ \E p \in Plans : ServiceHandler(p)

WatcherSpec == WatcherInit /\ [][WatcherNext]_allVars

-----------------------------------------------------------------------------
(* Properties *)

\* Nothing is under way: both plans have delivered the catalogue as it is, and the
\* cache has applied every result.
Settled == /\ next = <<>> /\ mainPc = "idle"
           /\ watcher # NoPlan /\ listed = (Known # {}) /\ seen[watcher] = Snapshot
           /\ \A p \in Plans : pc[p] = "idle"

\* What can leave the cache behind until its entry expires: it was filled with a
\* catalogue the plan never delivered; a snapshot was empty, whose nodes are not
\* reported; the handler of a stopped plan ran on while another plan had started.
Excused == ahead \/ emptied \/ \E p \in Plans : plan[p] = "stopped"

\* Otherwise the cache that follows the watcher holds the healthy instances of every
\* version, although the watcher, the results and the cache share the objects and
\* each changes them in place.
CacheFollows ==
    Settled /\ cached # None /\ ~Excused =>
        \A v \in Versions : Healthy(v) = IF cached[v] = None THEN {} ELSE nodes[cached[v]]
=============================================================================
