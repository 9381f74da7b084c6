--------------------------- MODULE SelectorCache ---------------------------
(***************************************************************************)
(* The caching selector (selector/cache/cache.go) for one service name: a  *)
(* cache of the instances in the registry, filled by lookups, kept up to   *)
(* date by a watch of the registry and refreshed when its TTL has passed.  *)
(* Instances that leave are reported to the application (Watcher).         *)
(*                                                                         *)
(* get and update hold the selector's lock from beginning to end and are   *)
(* one action each, the registry call and the Watcher calls included.      *)
(***************************************************************************)
EXTENDS Naturals, Sequences, SequencesExt

CONSTANTS Nodes,      \* instances that register, leave and return
          VersionOf,  \* VersionOf[n]: the version of the service n runs
          TTL,        \* the TTL, in ticks
          Runs,       \* bound: run goroutines ever started (1..n)
          MaxStale,   \* bound: ended watches whose stopper still waits
          MaxStream,  \* bound: events waiting in a watch when the registry changes ...
          MaxLate,    \* ... and when Close has been called
          Ops         \* which of "close", "reset", "init" the application uses

ASSUME ConstAssumption == /\ TTL \in Nat \ {0}
                          /\ MaxStale \in Nat
                          /\ Ops \subseteq {"close", "reset", "init"}

VARIABLES
    registered,  \* instances in the registry now
    vanished,    \* the registry has yet to tell that a version or the service is gone
    has, cache,  \* is there an entry in c.cache, and its instances
    age,         \* ticks since the entry was set, up to when it expires (empty: 0)
    watched,     \* c.watched[name]
    closer,      \* where Close is: "idle", "closing" (cache dropped) or "closed"
    reload,      \* tokens in c.reload (capacity 1)
    sender,      \* a goroutine of Init waits to send its token
    run,         \* run[r]: where run goroutine r is
    stream,      \* stream[r]: events the watch of r has for Next
    armed,       \* armed[r]: the stopper of the watch of r waits
    stopped,     \* stopped[r]: the watch of r has been stopped
    stale,       \* stoppers of ended watches that still wait
    followed     \* (ghost) until Close: a watch has listened since the entry was fetched

registry == <<registered, vanished>>
entry == <<has, cache, age>>
watch == <<run, stream, armed, stopped, stale>>
control == <<watched, closer, reload, sender>>
vars == <<registry, entry, watch, control, followed>>

exit == closer = "closed"   \* c.exit is closed

Event(a, ns) == [action |-> a, nodes |-> ns]
Events == [action : {"create", "delete"}, nodes : SUBSET Nodes]

TypeOK == /\ registered \subseteq Nodes /\ vanished \in BOOLEAN
          /\ has \in BOOLEAN /\ cache \subseteq Nodes
          /\ age \in 0..(2 * TTL)
          /\ watched \in BOOLEAN /\ closer \in {"idle", "closing", "closed"} /\ sender \in BOOLEAN
          /\ reload \in 0..1
          /\ run \in [Runs -> {"none", "top", "watch", "ended"}]
          /\ stream \in [Runs -> Seq(Events)]
          /\ armed \in [Runs -> BOOLEAN] /\ stopped \in [Runs -> BOOLEAN]
          /\ stale \in 0..MaxStale
          /\ followed \in BOOLEAN

Init == /\ registered = {}
        /\ vanished = FALSE
        /\ has = FALSE
        /\ cache = {}
        /\ age = 0
        /\ watched = FALSE
        /\ closer = "idle"
        /\ reload = 0
        /\ sender = FALSE
        /\ run = [r \in Runs |-> "none"]
        /\ stream = [r \in Runs |-> <<>>]
        /\ armed = [r \in Runs |-> FALSE]
        /\ stopped = [r \in Runs |-> FALSE]
        /\ stale = 0
        /\ followed = FALSE

-----------------------------------------------------------------------------
(* get *)

\* Mutant of Fresh: the TTL is ignored.
Fresh_Always == TRUE

\* ttls holds the time of the last set PLUS the TTL, and get tests
\* time.Since(ttls) < ttl
Fresh == age < 2 * TTL

\* The first lookup of a service starts its watch: go c.run(service).  The goroutines are
\* numbered as they start.
StartWatch ==
    IF watched
    THEN UNCHANGED <<watched, run>>
    ELSE /\ watched' = TRUE
         /\ \E r \in Runs : /\ run[r] = "none" /\ \A q \in Runs : q < r => run[q] # "none"
                            /\ run' = [run EXCEPT ![r] = "top"]

\* The entry is set, its TTL starts anew; the entry is deleted
set(ns) == has' = TRUE /\ cache' = ns /\ age' = 0
del == has' = FALSE /\ cache' = {} /\ age' = 0 /\ followed' = FALSE

\* What every get leaves alone
GetFrame == UNCHANGED <<registry, stream, armed, stopped, stale, closer, reload, sender>>

\* The watch of r hears of every change.
Listens(r) == run[r] = "watch" /\ ~stopped[r]

\* An entry that is not empty and not expired
GetCached ==
    /\ has /\ cache # {} /\ Fresh
    /\ StartWatch
    /\ GetFrame
    /\ UNCHANGED <<entry, followed>>

\* Otherwise the registry is asked, and its answer cached ...
GetFetched ==
    /\ ~(has /\ cache # {} /\ Fresh)
    /\ StartWatch
    /\ set(registered)
    /\ followed' = (closer = "idle" /\ \E r \in Runs : Listens(r))
    /\ GetFrame

\* ... or the registry fails or knows no such service, and nothing is cached anew:
\* an error, or nil where "return expired cache as last resort" is meant
GetFailed ==
    /\ ~(has /\ cache # {} /\ Fresh)
    /\ StartWatch
    /\ GetFrame
    /\ UNCHANGED <<entry, followed>>

\* Reset: c.del(service)
Reset ==
    /\ "reset" \in Ops
    /\ del
    /\ UNCHANGED <<registry, watch, control>>

-----------------------------------------------------------------------------
(* update: one event of a watch *)

VersionsOf(ns) == {VersionOf[n] : n \in ns}

\* Mutant of Apply: the instances that stay are reported, not those that left.
Apply_Inverted(e) ==
    CASE ~has -> [has |-> FALSE, cache |-> {}, set |-> FALSE, gone |-> {}]
      [] e.nodes = {} /\ e.action = "delete" ->
            [has |-> FALSE, cache |-> {}, set |-> FALSE, gone |-> cache]
      [] e.nodes # {} /\ e.action = "delete" ->
            [has |-> TRUE, cache |-> cache \ e.nodes, set |-> TRUE, gone |-> cache \ e.nodes]
      [] OTHER -> [has |-> TRUE, cache |-> cache \cup e.nodes, set |-> TRUE, gone |-> {}]

\* Mutant of Apply: an instance that left is reported but stays in the cache.
Apply_Keep(e) ==
    CASE ~has -> [has |-> FALSE, cache |-> {}, set |-> FALSE, gone |-> {}]
      [] e.nodes = {} /\ e.action = "delete" ->
            [has |-> FALSE, cache |-> {}, set |-> FALSE, gone |-> cache]
      [] e.nodes # {} /\ e.action = "delete" ->
            [has |-> TRUE, cache |-> cache, set |-> TRUE, gone |-> cache \cap e.nodes]
      [] OTHER -> [has |-> TRUE, cache |-> cache \cup e.nodes, set |-> TRUE, gone |-> {}]

\* The entry after event e, whether it was set again (a new TTL), and the
\* instances reported to Watcher:
\*  - nothing is cached unless there was a lookup;
\*  - a delete without nodes reports and drops the whole entry;
\*  - a create joins the nodes of its version, or adds the version;
\*  - a delete removes and reports those of its nodes that are cached under its
\*    version, and drops the entry when no node of any version is left.
Apply(e) ==
    LET same == {n \in cache : VersionOf[n] \in VersionsOf(e.nodes)}
        rest == cache \ e.nodes
    IN  CASE ~has -> [has |-> FALSE, cache |-> {}, set |-> FALSE, gone |-> {}]
          [] has /\ e.nodes = {} /\ e.action = "delete" ->
                [has |-> FALSE, cache |-> {}, set |-> FALSE, gone |-> cache]
          [] has /\ e.nodes # {} /\ e.action = "create" ->
                [has |-> TRUE, cache |-> cache \cup e.nodes, set |-> TRUE, gone |-> {}]
          [] has /\ e.nodes # {} /\ e.action = "delete" /\ same = {} ->
                [has |-> TRUE, cache |-> cache, set |-> FALSE, gone |-> {}]
          [] has /\ e.nodes # {} /\ e.action = "delete" /\ same # {} ->
                [has |-> rest # {}, cache |-> rest, set |-> rest # {},
                 gone |-> cache \cap e.nodes]
          [] OTHER -> [has |-> TRUE, cache |-> cache, set |-> FALSE, gone |-> {}]

\* watch: res, err := w.Next(); c.update(res)
Update(r) ==
    /\ run[r] = "watch"
    /\ stream[r] # <<>>
    /\ LET u == Apply(Head(stream[r]))
       IN  /\ has' = u.has
           /\ cache' = u.cache
           /\ age' = IF u.set \/ ~u.has THEN 0 ELSE age
           /\ followed' = (followed /\ u.has)
    /\ stream' = [stream EXCEPT ![r] = Tail(@)]
    /\ UNCHANGED <<registry, run, armed, stopped, stale, control>>

-----------------------------------------------------------------------------
(* run and watch; Init and Close *)

\* run: exit early if already dead
RunQuit(r) ==
    /\ run[r] = "top"
    /\ exit
    /\ run' = [run EXCEPT ![r] = "ended"]
    /\ UNCHANGED <<registry, entry, stream, armed, stopped, stale, control,
                   followed>>

RoomInStreams(str) ==
    \A r \in Runs : Len(str[r]) <= IF closer = "idle" THEN MaxStream ELSE MaxLate

\* run: Registry.Watch succeeds (it fails: wait and retry).  Some registries
\* begin with an event for each instance registered; the stopper is started.
RunWatch(r) ==
    /\ run[r] = "top"
    /\ ~exit
    /\ run' = [run EXCEPT ![r] = "watch"]
    /\ \E first \in {{}, registered} :
         stream' = [stream EXCEPT ![r] = SetToSeq({Event("create", {n}) : n \in first})]
    /\ RoomInStreams(stream')
    /\ armed' = [armed EXCEPT ![r] = TRUE]
    /\ UNCHANGED <<registry, entry, stopped, stale, control, followed>>

\* watch: w.Next() fails because the watch was stopped or for any other reason;
\* w.Stop(), and run starts again or quits.  The stopper goes on waiting.
WatchError(r) ==
    /\ run[r] = "watch"
    /\ armed[r] => stale < MaxStale
    /\ stale' = IF armed[r] THEN stale + 1 ELSE stale
    /\ armed' = [armed EXCEPT ![r] = FALSE]
    /\ stream' = [stream EXCEPT ![r] = <<>>]
    /\ run' = [run EXCEPT ![r] = IF exit THEN "ended" ELSE "top"]
    /\ stopped' = [stopped EXCEPT ![r] = FALSE]
    /\ followed' = FALSE
    /\ UNCHANGED <<registry, entry, control>>

\* Mutant of StopperExit: the stopper does not wait for exit.
StopperExit_Missing(r) ==
    /\ FALSE /\ armed[r]
    /\ UNCHANGED vars

\* The stopper: <-c.exit, then w.Stop()
StopperExit(r) ==
    /\ armed[r]
    /\ exit
    /\ armed' = [armed EXCEPT ![r] = FALSE]
    /\ stopped' = [stopped EXCEPT ![r] = TRUE]
    /\ followed' = FALSE
    /\ UNCHANGED <<registry, entry, run, stream, stale, control>>

\* The stopper: <-c.reload, then w.Stop()
StopperReload(r) ==
    /\ armed[r]
    /\ reload = 1
    /\ reload' = 0
    /\ armed' = [armed EXCEPT ![r] = FALSE]
    /\ stopped' = [stopped EXCEPT ![r] = TRUE]
    /\ followed' = FALSE
    /\ UNCHANGED <<registry, entry, run, stream, stale, watched, closer, sender>>

\* The stopper of a watch that has ended takes the token and stops nothing.
StaleStopper ==
    /\ stale > 0
    /\ reload = 1 \/ exit
    /\ reload' \in (IF exit THEN {reload, 0} ELSE {0})
    /\ stale' = stale - 1
    /\ UNCHANGED <<registry, entry, run, stream, armed, stopped, watched, closer, sender, followed>>

\* Init: a goroutine that sends to reload unless exit is closed
InitCall ==
    /\ "init" \in Ops
    /\ ~sender
    /\ sender' = ~exit
    /\ UNCHANGED <<registry, entry, watch, watched, closer, reload, followed>>

\* c.reload <- true
InitSend ==
    /\ sender
    /\ reload = 0
    /\ reload' = 1
    /\ sender' = FALSE
    /\ UNCHANGED <<registry, entry, watch, watched, closer, followed>>

\* Close: cache and watched are emptied under the lock ...
CloseCache ==
    /\ "close" \in Ops
    /\ closer = "idle"
    /\ closer' = "closing"
    /\ del
    /\ watched' = FALSE
    /\ UNCHANGED <<registry, watch, reload, sender>>

\* ... and exit closed outside it
CloseExit ==
    /\ closer = "closing"
    /\ closer' = "closed"
    /\ UNCHANGED <<registry, entry, watch, watched, reload, sender, followed>>

-----------------------------------------------------------------------------
(* Time and the registry (external) *)

Tick ==
    /\ cache # {}
    /\ age < 2 * TTL
    /\ age' = age + 1
    /\ UNCHANGED <<registry, has, cache, watch, control, followed>>

\* Every watch that is not stopped hears of a change.
Publish(e) == /\ stream' = [r \in Runs |-> IF Listens(r) THEN Append(stream[r], e) ELSE stream[r]]
              /\ RoomInStreams(stream')

\* An instance registers, or returns: it started again, or its check passes again.
Join(n) ==
    /\ n \notin registered
    /\ registered' = registered \cup {n}
    /\ Publish(Event("create", {n}))
    /\ UNCHANGED <<vanished, entry, run, armed, stopped, stale, control, followed>>

\* An instance leaves.  With the last one of a version the version may be gone, and
\* with the last one of all the service, which need not be told as its own leaving.
Leave(n) ==
    /\ n \in registered
    /\ registered' = registered \ {n}
    /\ \/ /\ Publish(Event("delete", {n}))
          /\ \/ UNCHANGED vanished
             \/ VersionOf[n] \notin VersionsOf(registered \ {n}) /\ vanished' = TRUE
       \/ /\ registered = {n}
          /\ vanished' = TRUE
          /\ UNCHANGED stream
    /\ UNCHANGED <<entry, run, armed, stopped, stale, control, followed>>

\* A delete without nodes: of a version whose nodes were gone before, or of the whole
\* service.  It comes when it comes, instances may have registered meanwhile.
Vanish ==
    /\ vanished
    /\ vanished' = FALSE
    /\ Publish(Event("delete", {}))
    /\ UNCHANGED <<registered, entry, run, armed, stopped, stale, control, followed>>

-----------------------------------------------------------------------------
Get == GetCached \/ GetFetched \/ GetFailed

RunStep(r) == \/ RunQuit(r) \/ RunWatch(r) \/ Update(r)
              \/ stopped[r] /\ WatchError(r)

Stopper(r) == StopperExit(r) \/ StopperReload(r)

Next == \/ Get \/ Reset
        \/ \E r \in Runs : RunStep(r) \/ Stopper(r) \/ WatchError(r)
        \/ StaleStopper
        \/ InitCall \/ InitSend \/ CloseCache \/ CloseExit
        \/ Tick
        \/ \E n \in Nodes : Join(n) \/ Leave(n)
        \/ Vanish

Spec == Init /\ [][Next]_vars

\* Time passes, watches and their stoppers run, and the registry answers sooner or
\* later a lookup that needs it.  Nothing obliges a watch to fail or the application to
\* use Init, Reset or Close.
Fairness == /\ WF_vars(Tick)
            /\ WF_vars(GetFetched)
            /\ \A r \in Runs : WF_vars(RunStep(r)) /\ WF_vars(Stopper(r))

FairSpec == Spec /\ Fairness

-----------------------------------------------------------------------------
(* Properties *)

\* No event in s names n; event i is the last one in s that does.
Silent(s, n) == \A i \in 1..Len(s) : n \notin s[i].nodes
LastAt(s, n, i) == /\ i \in 1..Len(s) /\ n \in s[i].nodes
                   /\ \A j \in (i + 1)..Len(s) : n \notin s[j].nodes

\* A create of n waits in s, and a delete without nodes does.
Returns(s, n) == \E i \in 1..Len(s) : s[i].action = "create" /\ n \in s[i].nodes
Drops(s) == \E i \in 1..Len(s) : s[i] = Event("delete", {})

\* Watcher makes the application close the RPC client of the instance it is given ("delete
\* the ServerSession of deregistered services", app.go:292).  When a watch that was not
\* stopped applies a delete that names its nodes, every instance it reports has left
\* the registry; one that has returned is reported only if its return is yet to come
\* in the same watch, by whatever sequence of lookups, events, restarts of the watch,
\* Reset and Close.  (A delete without nodes reports all that is cached.)
OnlyLeaversNotified ==
    [][\A r \in Runs :
          Update(r) /\ ~stopped[r] /\ Head(stream[r]).nodes # {} =>
             \A n \in Apply(Head(stream[r])).gone :
                n \notin registered \/ Returns(Tail(stream[r]), n)]_vars

\* The entry holds n once the events in s that name it are applied.
Served(s, n) == \/ Silent(s, n) /\ n \in cache
                \/ \E i \in 1..Len(s) : LastAt(s, n, i) /\ s[i].action = "create"

\* Until Close, an entry that was fetched while a watch listened which has not ended
\* since is the registry's but for the events that wait: every registered
\* instance is or comes to be served, and one that left is not, or a delete without
\* nodes that drops the entry is still to come.  Late events, instances that return,
\* lookups in between and Reset do not change that.
EntryFollows ==
    followed =>
       \E r \in Runs :
          /\ Listens(r)
          /\ \A n \in registered : Served(stream[r], n)
          /\ \A n \in Nodes \ registered :
                Served(stream[r], n) => vanished \/ Drops(stream[r])

\* When the registry no longer changes and watches no longer end, the cache agrees
\* with the registry for good, even though the events between two watches were
\* lost: an event or the TTL corrects it.  (A watch that keeps failing and begins
\* with an event for every instance renews the TTL each time.)
CacheConverges ==
    <>[][/\ registered' = registered
         /\ \A r \in Runs : ~(run[r] = "watch" /\ run'[r] = "top")]_vars
        => <>[](has => cache = registered)

\* "returns when Close is called" (cache.go:268): every run goroutine ends.
CloseEndsRuns == exit ~> (\A r \in Runs : run[r] \in {"none", "ended"})
=============================================================================
