--------------------------- MODULE DiscoveryProofs ---------------------------
(***************************************************************************)
(* Proofs about service discovery: the caching selector (SelectorCache)    *)
(* and the Consul registry with its watcher and the cache that follows it  *)
(* (ConsulRegistry, ConsulWatcher).                                        *)
(***************************************************************************)
EXTENDS SelectorCache, ConsulWatcher, FiniteSetTheorems, SequenceTheorems, TLAPS

-----------------------------------------------------------------------------
(* The cache *)

\* What the events s of a watch that listens say of instance n: nothing, or the last one that
\* names it says whether it is registered, unless the service vanished with it (drop: that is
\* still to be told, or told after it).
DropsAfter(s, i) == \E j \in (i + 1)..Len(s) : s[j] = Event("delete", {})
Heard(s, n, reg, drop) ==
    \/ Silent(s, n)
    \/ \E i \in 1..Len(s) :
          /\ LastAt(s, n, i)
          /\ \/ n \in reg /\ s[i].action = "create"
             \/ n \notin reg /\ s[i].action = "delete"
             \/ n \notin reg /\ s[i].action = "create" /\ (drop \/ DropsAfter(s, i))

StreamInv == \A r \in Runs : Listens(r) =>
                \A n \in Nodes : Heard(stream[r], n, registered, vanished)

\* Until Close there is one run goroutine, and so one order of events.
OneRun == closer = "idle" =>
             /\ ~watched => \A r \in Runs : run[r] = "none"
             /\ \A r, q \in Runs : run[r] # "none" /\ run[q] # "none" => r = q

\* What the waiting events do not name, the entry has as the registry has it.
Kept(s) == \A n \in Nodes : Silent(s, n) =>
              /\ n \in registered => n \in cache
              /\ n \in cache => n \in registered \/ vanished \/ Drops(s)
FollowInv == followed => closer = "idle" /\ \E r \in Runs : Listens(r) /\ Kept(stream[r])

CacheInv == TypeOK /\ IsFiniteSet(registered) /\ StreamInv /\ OneRun /\ FollowInv

USE ConstAssumption DEF ConstAssumption, registry, entry, watch, control, vars

-----------------------------------------------------------------------------
(* Events waiting in a watch *)

\* A set that is finite has a sequence without repetitions: the events a watch begins with.
LEMMA SetToSeqOf ==
    ASSUME NEW S, IsFiniteSet(S)
    PROVE  SetToSeq(S) \in Seq(S) /\ IsInjective(SetToSeq(S))
<1>1. Cardinality(S) \in Nat /\ ExistsBijection(1..Cardinality(S), S)
  BY FS_CardinalityType
<1>2. PICK f \in [1..Cardinality(S) -> S] : IsInjective(f)
  BY <1>1 DEF ExistsBijection, Bijection, Injection, IsInjective
<1>3. SetToSeq(S) \in [1..Cardinality(S) -> S] /\ IsInjective(SetToSeq(S))
  BY <1>2 DEF SetToSeq
<1> QED  BY <1>1, <1>3

\* The events of finitely many instances are finitely many.
LEMMA CreatesFinite ==
    ASSUME NEW F, IsFiniteSet(F) PROVE IsFiniteSet({Event("create", {n}) : n \in F})
<1> DEFINE S == {Event("create", {n}) : n \in F}
           f == [n \in F |-> Event("create", {n})]
<1>1. f \in Surjection(F, S)
  BY DEF Surjection
<1> QED  BY <1>1, FS_Surjection

LEMMA SeqMembers ==
    ASSUME NEW S, NEW T, S \subseteq T, NEW s \in Seq(S)
    PROVE  s \in Seq(T) /\ \A i \in 1..Len(s) : s[i] \in S
OBVIOUS

LEMMA TailOf ==
    ASSUME NEW s \in Seq(Events), s # <<>>
    PROVE  /\ Head(s) \in Events /\ Head(s) = s[1] /\ 1 \in 1..Len(s) /\ Len(s) \in Nat
           /\ Tail(s) \in Seq(Events) /\ Len(Tail(s)) = Len(s) - 1
           /\ \A i \in 1..Len(Tail(s)) : Tail(s)[i] = s[i + 1] /\ i + 1 \in 1..Len(s)
OBVIOUS

LEMMA AppendOf ==
    ASSUME NEW s \in Seq(Events), NEW e \in Events
    PROVE  /\ Append(s, e) \in Seq(Events) /\ Len(Append(s, e)) = Len(s) + 1
           /\ Append(s, e)[Len(s) + 1] = e /\ Len(s) \in Nat
           /\ \A i \in 1..Len(s) : Append(s, e)[i] = s[i]
OBVIOUS

\* The first event taken: the others stay what they are.
LEMMA TailSilent ==
    ASSUME NEW s \in Seq(Events), s # <<>>, NEW n
    PROVE  /\ Silent(s, n) => Silent(Tail(s), n)
           /\ Silent(Tail(s), n) /\ n \notin Head(s).nodes => Silent(s, n)
<1>1. \A i \in 1..Len(s) : i # 1 => i - 1 \in 1..Len(Tail(s)) /\ Tail(s)[i - 1] = s[i]
  BY TailOf
<1> QED  BY <1>1, TailOf DEF Silent

LEMMA TailLast ==
    ASSUME NEW s \in Seq(Events), s # <<>>, NEW n, NEW i, LastAt(s, n, i)
    PROVE  \/ i = 1 /\ Silent(Tail(s), n)
           \/ /\ i - 1 \in 1..Len(Tail(s)) /\ LastAt(Tail(s), n, i - 1) /\ Tail(s)[i - 1] = s[i]
              /\ DropsAfter(s, i) => DropsAfter(Tail(s), i - 1)
<1> DEFINE t == Tail(s)
<1>1. /\ Len(s) \in Nat /\ Len(t) = Len(s) - 1
      /\ \A j \in 1..Len(t) : t[j] = s[j + 1] /\ j + 1 \in 1..Len(s)
  BY TailOf
<1>2. i \in 1..Len(s) /\ n \in s[i].nodes /\ \A j \in (i + 1)..Len(s) : n \notin s[j].nodes
  BY DEF LastAt
<1> HIDE DEF t
<1>3. CASE i = 1
  BY <1>1, <1>2, <1>3 DEF Silent, t
<1>4. CASE i # 1
  <2>1. i - 1 \in 1..Len(t) /\ t[i - 1] = s[i]
    BY <1>1, <1>2, <1>4
  <2>2. \A j \in i..Len(t) : n \notin t[j].nodes
    BY <1>1, <1>2
  <2>3. LastAt(t, n, i - 1)
    BY <1>2, <2>1, <2>2 DEF LastAt
  <2>4. ASSUME NEW j \in (i + 1)..Len(s), s[j] = Event("delete", {})
        PROVE  j - 1 \in i..Len(t) /\ t[j - 1] = Event("delete", {})
    BY <1>1, <1>2, <2>4
  <2>5. DropsAfter(s, i) => DropsAfter(t, i - 1)
    <3>1. (i - 1) + 1 = i
      BY <1>2
    <3> QED  BY <2>4, <3>1 DEF DropsAfter
  <2> QED  BY <2>1, <2>3, <2>5 DEF t
<1> QED  BY <1>3, <1>4

LEMMA TailDrops ==
    ASSUME NEW s \in Seq(Events), s # <<>>,
           \/ Drops(s) /\ Head(s) # Event("delete", {})
           \/ DropsAfter(s, 1)
    PROVE  Drops(Tail(s))
<1>1. PICK i \in 1..Len(s) : i # 1 /\ s[i] = Event("delete", {})
  BY TailOf DEF Drops, DropsAfter
<1>2. i - 1 \in 1..Len(Tail(s)) /\ Tail(s)[i - 1] = s[i]
  BY <1>1, TailOf
<1> QED  BY <1>1, <1>2 DEF Drops

\* An event more: what waits stays, what the event names it says last.
LEMMA AppendSilent ==
    ASSUME NEW s \in Seq(Events), NEW e \in Events, NEW n
    PROVE  Silent(Append(s, e), n) <=> Silent(s, n) /\ n \notin e.nodes
<1>1. /\ Len(s) \in Nat
      /\ \A i \in 1..Len(Append(s, e)) : i \in 1..Len(s) \/ i = Len(s) + 1
      /\ \A i \in 1..Len(s) : i \in 1..Len(Append(s, e))
      /\ Len(s) + 1 \in 1..Len(Append(s, e))
  BY AppendOf
<1> QED  BY <1>1, AppendOf DEF Silent

LEMMA AppendLast ==
    ASSUME NEW s \in Seq(Events), NEW e \in Events, NEW n, n \notin e.nodes,
           NEW i \in 1..Len(s), LastAt(s, n, i)
    PROVE  /\ i \in 1..Len(Append(s, e)) /\ LastAt(Append(s, e), n, i) /\ Append(s, e)[i] = s[i]
           /\ DropsAfter(s, i) \/ e = Event("delete", {}) => DropsAfter(Append(s, e), i)
<1> DEFINE t == Append(s, e)
<1>1. /\ Len(s) \in Nat /\ Len(t) = Len(s) + 1 /\ t[Len(s) + 1] = e
      /\ \A j \in 1..Len(s) : t[j] = s[j]
  BY AppendOf
<1> HIDE DEF t
<1>2. i \in 1..Len(t) /\ t[i] = s[i]
  BY <1>1
<1>3. \A j \in (i + 1)..Len(t) : n \notin t[j].nodes
  <2>1. \A j \in (i + 1)..Len(t) : j # Len(s) + 1 => j \in (i + 1)..Len(s) /\ t[j] = s[j]
    BY <1>1
  <2> QED  BY <1>1, <2>1 DEF LastAt
<1>4. LastAt(t, n, i)
  BY <1>2, <1>3 DEF LastAt
<1>5. DropsAfter(s, i) => DropsAfter(t, i)
  BY <1>1 DEF DropsAfter
<1>6. e = Event("delete", {}) => DropsAfter(t, i)
  BY <1>1 DEF DropsAfter
<1> QED  BY <1>2, <1>4, <1>5, <1>6 DEF t

LEMMA AppendNames ==
    ASSUME NEW s \in Seq(Events), NEW e \in Events, NEW n \in e.nodes
    PROVE  /\ Len(s) + 1 \in 1..Len(Append(s, e)) /\ LastAt(Append(s, e), n, Len(s) + 1)
           /\ Append(s, e)[Len(s) + 1] = e
BY AppendOf DEF LastAt

\* An event that agrees with the registry keeps what is told so.
LEMMA HeardAppend ==
    ASSUME NEW s \in Seq(Events), NEW e \in Events, NEW n,
           NEW reg, NEW reg2, NEW drop \in BOOLEAN, NEW drop2 \in BOOLEAN,
           Heard(s, n, reg, drop),
           drop => drop2 \/ e = Event("delete", {}),
           n \notin e.nodes => (n \in reg2 <=> n \in reg),
           n \in e.nodes => e.action = IF n \in reg2 THEN "create" ELSE "delete"
    PROVE  Heard(Append(s, e), n, reg2, drop2)
<1>1. CASE n \in e.nodes
  BY <1>1, AppendNames DEF Heard
<1>2. CASE n \notin e.nodes
  <2>1. CASE Silent(s, n)
    BY <1>2, <2>1, AppendSilent DEF Heard
  <2>2. ASSUME NEW i \in 1..Len(s), LastAt(s, n, i),
               \/ n \in reg /\ s[i].action = "create"
               \/ n \notin reg /\ s[i].action = "delete"
               \/ n \notin reg /\ s[i].action = "create" /\ (drop \/ DropsAfter(s, i))
        PROVE  Heard(Append(s, e), n, reg2, drop2)
    BY <1>2, <2>2, AppendLast DEF Heard
  <2> QED  BY <2>1, <2>2 DEF Heard
<1> QED  BY <1>1, <1>2

LEMMA HeardTail ==
    ASSUME NEW s \in Seq(Events), s # <<>>, NEW n, NEW reg, NEW drop \in BOOLEAN,
           Heard(s, n, reg, drop)
    PROVE  Heard(Tail(s), n, reg, drop)
<1>1. CASE Silent(s, n)
  BY <1>1, TailSilent DEF Heard
<1>2. ASSUME NEW i \in 1..Len(s), LastAt(s, n, i),
             \/ n \in reg /\ s[i].action = "create"
             \/ n \notin reg /\ s[i].action = "delete"
             \/ n \notin reg /\ s[i].action = "create" /\ (drop \/ DropsAfter(s, i))
      PROVE  Heard(Tail(s), n, reg, drop)
  BY <1>2, TailLast DEF Heard
<1> QED  BY <1>1, <1>2 DEF Heard

-----------------------------------------------------------------------------
(* Every step keeps the invariant *)

LEMMA CacheInitInv == Init => CacheInv
<1> SUFFICES ASSUME Init PROVE CacheInv
  OBVIOUS
<1> USE DEF Init
<1>1. TypeOK
  <2>1. age \in 0..(2 * TTL) /\ reload \in 0..1 /\ stale \in 0..MaxStale
    OBVIOUS
  <2>2. stream \in [Runs -> Seq(Events)] /\ run \in [Runs -> {"none", "top", "watch", "ended"}]
    OBVIOUS
  <2> QED  BY <2>1, <2>2 DEF TypeOK
<1>2. IsFiniteSet(registered)
  BY FS_EmptySet
<1>3. StreamInv /\ OneRun /\ FollowInv
  BY DEF StreamInv, Listens, OneRun, FollowInv
<1> QED  BY <1>1, <1>2, <1>3 DEF CacheInv

\* Steps that leave the registry and what the watches hear alone, and the entry if it is
\* still followed.
LEMMA AsideStep ==
    ASSUME CacheInv, TypeOK',
           UNCHANGED <<registered, vanished, stream>>,
           \A r \in Runs : Listens(r)' => Listens(r),
           followed' => /\ followed /\ UNCHANGED cache /\ closer' = "idle"
                        /\ \A r \in Runs : Listens(r)' <=> Listens(r),
           OneRun'
    PROVE  CacheInv'
<1>1. StreamInv'
  BY DEF CacheInv, StreamInv
<1>2. FollowInv'
  <2> SUFFICES ASSUME followed' PROVE closer' = "idle" /\ \E r \in Runs : Listens(r)' /\ Kept(stream[r])'
    BY DEF FollowInv
  <2>1. PICK r \in Runs : Listens(r) /\ Kept(stream[r])
    BY DEF CacheInv, FollowInv
  <2> QED  BY <2>1 DEF Kept
<1> QED  BY <1>1, <1>2 DEF CacheInv

LEMMA GetInv == ASSUME CacheInv, Get PROVE CacheInv'
<1> USE DEF Get, GetCached, GetFetched, GetFailed, GetFrame, StartWatch, set
<1>1. UNCHANGED <<registered, vanished, stream, armed, stopped, stale, closer, reload, sender>>
  OBVIOUS
<1>2. has' \in BOOLEAN /\ watched' \in BOOLEAN /\ followed' \in BOOLEAN
  BY Zenon DEF CacheInv, TypeOK
<1>3. cache' \subseteq Nodes /\ age' \in 0..(2 * TTL)
  BY DEF CacheInv, TypeOK
<1>4. run' \in [Runs -> {"none", "top", "watch", "ended"}]
  BY DEF CacheInv, TypeOK
<1>5. TypeOK'
  BY <1>1, <1>2, <1>3, <1>4 DEF CacheInv, TypeOK
<1>6. OneRun'
  BY DEF CacheInv, TypeOK, OneRun
<1>7. \A r \in Runs : Listens(r)' <=> Listens(r)
  BY DEF CacheInv, TypeOK, Listens
<1>8. CASE GetCached \/ GetFailed
  <2>1. UNCHANGED <<cache, followed>>
    BY <1>8
  <2>2. followed => closer = "idle"
    BY DEF CacheInv, FollowInv
  <2> QED  BY <1>1, <1>5, <1>6, <1>7, <2>1, <2>2, AsideStep
<1>9. CASE GetFetched
  <2>1. StreamInv'
    BY <1>1, <1>7 DEF CacheInv, StreamInv
  <2>2. cache' = registered /\ (followed' => closer = "idle" /\ \E r \in Runs : Listens(r))
    BY <1>9
  <2>3. FollowInv'
    BY <1>1, <1>7, <2>2 DEF FollowInv, Kept
  <2> QED  BY <1>1, <1>5, <1>6, <2>1, <2>3 DEF CacheInv
<1> QED  BY <1>8, <1>9

\* Reset, the TTL, Init, Close and the stoppers
LEMMA AsideInv ==
    ASSUME CacheInv,
           \/ Reset \/ Tick \/ InitCall \/ InitSend \/ CloseCache \/ CloseExit \/ StaleStopper
           \/ \E r \in Runs : Stopper(r)
    PROVE  CacheInv'
<1> USE DEF Reset, Tick, InitCall, InitSend, CloseCache, CloseExit, StaleStopper, Stopper,
            StopperExit, StopperReload, del, exit
<1>1. UNCHANGED <<registered, vanished, stream, run>>
  OBVIOUS
<1>2. has' \in BOOLEAN /\ watched' \in BOOLEAN /\ sender' \in BOOLEAN /\ followed' \in BOOLEAN
  BY Zenon DEF CacheInv, TypeOK
<1>3. armed' \in [Runs -> BOOLEAN] /\ stopped' \in [Runs -> BOOLEAN]
  BY Zenon DEF CacheInv, TypeOK
<1>4. age' \in 0..(2 * TTL) /\ reload' \in 0..1 /\ stale' \in 0..MaxStale
  BY DEF CacheInv, TypeOK
<1>5. /\ cache' \subseteq Nodes
      /\ closer' \in {"idle", "closing", "closed"} /\ (closer' = "idle" => closer = "idle")
      /\ closer' = "idle" => watched' = watched
  BY DEF CacheInv, TypeOK
<1>6. TypeOK'
  BY <1>1, <1>2, <1>3, <1>4, <1>5 DEF CacheInv, TypeOK
<1>7. OneRun'
  BY <1>1, <1>5 DEF CacheInv, OneRun
<1>8. \A r \in Runs : Listens(r)' => Listens(r)
  BY <1>1 DEF CacheInv, TypeOK, Listens
<1>9. followed' => followed /\ UNCHANGED <<cache, stopped>> /\ closer' = "idle"
  BY DEF CacheInv, FollowInv
<1> QED  BY <1>1, <1>6, <1>7, <1>8, <1>9, AsideStep DEF Listens

\* What update does with an event: a create adds its instances, a delete removes those of
\* its instances that are cached, and reports no other.
LEMMA ApplyOf ==
    ASSUME CacheInv, NEW e \in Events
    PROVE  /\ Apply(e).has \in BOOLEAN /\ Apply(e).cache \subseteq Nodes
           /\ Apply(e).has => has /\ e # Event("delete", {})
           /\ Apply(e).has /\ e.action = "create" => Apply(e).cache = cache \cup e.nodes
           /\ Apply(e).has /\ e.action = "delete" => Apply(e).cache = cache \ e.nodes
           /\ e.nodes # {} => Apply(e).gone \subseteq e.nodes
           /\ Apply(e).gone # {} => e.action = "delete"
<1>1. /\ e.action \in {"create", "delete"} /\ e.nodes \subseteq Nodes /\ has \in BOOLEAN
      /\ cache \subseteq Nodes
  BY DEF Events, CacheInv, TypeOK
<1>2. e # Event("delete", {}) <=> e.nodes # {} \/ e.action = "create"
  BY <1>1 DEF Events, Event
<1>3. CASE ~has
  BY <1>3 DEF Apply
<1>4. CASE has /\ e.action = "create"
  BY <1>1, <1>2, <1>4 DEF Apply
<1>5. CASE has /\ e.action = "delete" /\ e.nodes = {}
  BY <1>1, <1>2, <1>5 DEF Apply
<1>6. CASE has /\ e.action = "delete" /\ e.nodes # {}
  <2> DEFINE same == {n \in cache : VersionOf[n] \in VersionsOf(e.nodes)}
  <2>1. cache \cap e.nodes \subseteq same
    BY DEF VersionsOf
  <2>2. CASE same = {}
    BY <1>1, <1>2, <1>6, <2>1, <2>2 DEF Apply
  <2>3. CASE same # {}
    BY <1>1, <1>2, <1>6, <2>3 DEF Apply
  <2> QED  BY <2>2, <2>3
<1> QED  BY <1>1, <1>3, <1>4, <1>5, <1>6

LEMMA UpdateInv == ASSUME CacheInv, NEW r \in Runs, Update(r) PROVE CacheInv'
<1> DEFINE e == Head(stream[r])
           s == stream[r]
<1>1. s \in Seq(Events) /\ s # <<>> /\ run[r] = "watch"
  BY DEF CacheInv, TypeOK, Update
<1>2. e \in Events /\ e = s[1] /\ 1 \in 1..Len(s)
  BY <1>1, TailOf
<1>3. /\ has' = Apply(e).has /\ cache' = Apply(e).cache
      /\ followed' = (followed /\ Apply(e).has)
      /\ stream' = [stream EXCEPT ![r] = Tail(s)]
      /\ age' \in {0, age}
      /\ UNCHANGED <<registered, vanished, run, armed, stopped, stale, watched, closer, reload, sender>>
  BY DEF Update
<1>4. TypeOK'
  <2>1. has' \in BOOLEAN /\ cache' \subseteq Nodes
    BY <1>2, <1>3, ApplyOf
  <2>2. stream' \in [Runs -> Seq(Events)]
    BY <1>1, <1>3, TailOf DEF CacheInv, TypeOK
  <2>3. age' \in 0..(2 * TTL)
    BY <1>3 DEF CacheInv, TypeOK
  <2>4. followed' \in BOOLEAN
    BY Zenon, <1>3
  <2> QED  BY <1>3, <2>1, <2>2, <2>3, <2>4 DEF CacheInv, TypeOK
<1>5. /\ stream'[r] = Tail(s)
      /\ \A q \in Runs : q # r => stream'[q] = stream[q]
      /\ \A q \in Runs : Listens(q)' <=> Listens(q)
  BY <1>3 DEF CacheInv, TypeOK, Listens
<1>6. StreamInv'
  <2> SUFFICES ASSUME NEW q \in Runs, Listens(q), NEW n \in Nodes
               PROVE  Heard(stream'[q], n, registered, vanished)
    BY <1>3, <1>5 DEF StreamInv
  <2>1. Heard(stream[q], n, registered, vanished)
    BY DEF CacheInv, StreamInv
  <2>2. vanished \in BOOLEAN
    BY DEF CacheInv, TypeOK
  <2>3. CASE q = r
    BY <1>1, <1>5, <2>1, <2>2, <2>3, HeardTail
  <2>4. CASE q # r
    BY <1>5, <2>1, <2>4
  <2> QED  BY <2>3, <2>4
<1>7. OneRun'
  BY <1>3 DEF CacheInv, OneRun
<1>8. FollowInv'
  <2> SUFFICES ASSUME followed' PROVE FollowInv'
    BY DEF FollowInv
  <2>1. followed /\ Apply(e).has
    BY <1>3
  <2>2. closer = "idle" /\ Listens(r) /\ Kept(s)
    BY <1>1, <2>1 DEF CacheInv, FollowInv, OneRun, Listens
  <2>3. e # Event("delete", {}) /\ e.action \in {"create", "delete"}
    BY <1>2, <2>1, ApplyOf DEF Events
  <2>4. ASSUME NEW n \in Nodes, Silent(Tail(s), n)
        PROVE  /\ n \in registered => n \in cache'
               /\ n \in cache' => n \in registered \/ vanished \/ Drops(Tail(s))
    <3>1. CASE n \in e.nodes
      <4>1. \A j \in 2..Len(s) : n \notin s[j].nodes
        <5>1. \A j \in 2..Len(s) : j - 1 \in 1..Len(Tail(s)) /\ Tail(s)[j - 1] = s[j]
          BY <1>1, TailOf
        <5> QED  BY <2>4, <5>1 DEF Silent
      <4>2. \A i \in 1..Len(s) : LastAt(s, n, i) => i = 1
        BY <4>1 DEF LastAt
      <4>3. Heard(s, n, registered, vanished) /\ ~Silent(s, n)
        BY <1>2, <2>2, <3>1 DEF CacheInv, StreamInv, Silent
      <4>4. \/ n \in registered /\ e.action = "create"
            \/ n \notin registered /\ e.action = "delete"
            \/ n \notin registered /\ e.action = "create" /\ (vanished \/ DropsAfter(s, 1))
        BY <1>2, <4>2, <4>3 DEF Heard
      <4>5. DropsAfter(s, 1) => Drops(Tail(s))
        BY <1>1, TailDrops
      <4>6. /\ e.action = "create" => n \in cache'
            /\ e.action = "delete" => n \notin cache'
        BY <1>2, <1>3, <2>1, <3>1, ApplyOf
      <4> QED  BY <2>3, <4>4, <4>5, <4>6
    <3>2. CASE n \notin e.nodes
      <4>1. Silent(s, n)
        BY <1>1, <2>4, <3>2, TailSilent
      <4>2. n \in cache' <=> n \in cache
        BY <1>2, <1>3, <2>1, <2>3, <3>2, ApplyOf
      <4>3. Drops(s) => Drops(Tail(s))
        BY <1>1, <2>3, TailDrops
      <4> QED  BY <2>2, <4>1, <4>2, <4>3 DEF Kept
    <3> QED  BY <3>1, <3>2
  <2>5. Kept(stream[r])'
    BY <1>3, <1>5, <2>4 DEF Kept
  <2> QED  BY <1>3, <1>5, <2>2, <2>5 DEF FollowInv
<1> QED  BY <1>3, <1>4, <1>6, <1>7, <1>8 DEF CacheInv

-----------------------------------------------------------------------------
(* The run goroutine *)

LEMMA RunQuitInv == ASSUME CacheInv, NEW r \in Runs, RunQuit(r) PROVE CacheInv'
<1>1. TypeOK'
  BY DEF CacheInv, TypeOK, RunQuit
<1>2. closer = "closed" /\ ~followed /\ OneRun'
  BY DEF CacheInv, FollowInv, OneRun, RunQuit, exit
<1>3. \A q \in Runs : Listens(q)' => Listens(q)
  BY DEF CacheInv, TypeOK, RunQuit, Listens
<1>4. UNCHANGED <<registered, vanished, stream, followed>>
  BY DEF RunQuit
<1> QED  BY <1>1, <1>2, <1>3, <1>4, AsideStep

\* A new watch begins with creates of what the registry holds, or with nothing.
LEMMA RunWatchInv == ASSUME CacheInv, NEW r \in Runs, RunWatch(r) PROVE CacheInv'
<1>1. PICK first \in {{}, registered} :
         stream' = [stream EXCEPT ![r] = SetToSeq({Event("create", {n}) : n \in first})]
  BY DEF RunWatch
<1> DEFINE S == {Event("create", {n}) : n \in first}
           s == SetToSeq(S)
<1>2. IsFiniteSet(first)
  BY FS_EmptySet DEF CacheInv
<1>3. s \in Seq(S) /\ IsInjective(s)
  BY <1>2, CreatesFinite, SetToSeqOf
<1>4. ASSUME NEW e \in S
      PROVE  \E n \in registered : e = Event("create", {n}) /\ e \in Events
  <2>1. PICK n \in first : e = Event("create", {n})
    OBVIOUS
  <2>2. n \in registered /\ n \in Nodes
    BY <1>1 DEF CacheInv, TypeOK
  <2> QED  BY <2>1, <2>2 DEF Event, Events
<1> HIDE DEF S
<1>5. \A i \in 1..Len(s) : s[i] \in S
  BY <1>3, SeqMembers
<1>6. s \in Seq(Events)
  BY <1>3, <1>4, SeqMembers
<1> HIDE DEF s
<1>7. UNCHANGED <<registered, vanished, has, cache, age, watched, closer, reload, sender, stale,
                  stopped, followed>>
  BY DEF RunWatch
<1>8. TypeOK'
  <2>1. armed' \in [Runs -> BOOLEAN]
    BY Zenon DEF CacheInv, TypeOK, RunWatch
  <2>2. stream' \in [Runs -> Seq(Events)]
    BY <1>1, <1>6 DEF CacheInv, TypeOK, s, S
  <2>3. run' \in [Runs -> {"none", "top", "watch", "ended"}]
    BY DEF CacheInv, TypeOK, RunWatch
  <2> QED  BY <1>7, <2>1, <2>2, <2>3 DEF CacheInv, TypeOK
<1>9. /\ stream'[r] = s /\ \A q \in Runs : q # r => stream'[q] = stream[q]
      /\ run[r] = "top" /\ run'[r] = "watch" /\ \A q \in Runs : q # r => run'[q] = run[q]
  BY <1>1 DEF CacheInv, TypeOK, RunWatch, s, S
<1>10. ASSUME NEW n \in Nodes PROVE Heard(s, n, registered, vanished)
  <2>1. CASE Silent(s, n)
    BY <2>1 DEF Heard
  <2>2. ASSUME NEW i \in 1..Len(s), n \in s[i].nodes PROVE Heard(s, n, registered, vanished)
    <3>1. ASSUME NEW j \in 1..Len(s), n \in s[j].nodes
          PROVE  s[j] = Event("create", {n}) /\ n \in registered
      <4>1. PICK m \in registered : s[j] = Event("create", {m})
        BY <1>4, <1>5
      <4> QED  BY <3>1, <4>1 DEF Event
    <3>2. ASSUME NEW j \in 1..Len(s), n \in s[j].nodes PROVE j = i
      <4>1. s[j] = s[i] /\ i \in DOMAIN s /\ j \in DOMAIN s
        BY <1>6, <2>2, <3>1, <3>2
      <4> QED  BY <1>3, <4>1 DEF IsInjective
    <3>3. \A j \in (i + 1)..Len(s) : j \in 1..Len(s) /\ j # i
      BY <1>6
    <3>4. LastAt(s, n, i)
      BY <2>2, <3>2, <3>3 DEF LastAt
    <3>5. n \in registered /\ s[i].action = "create"
      BY <2>2, <3>1 DEF Event
    <3> QED  BY <3>4, <3>5 DEF Heard
  <2> QED  BY <2>1, <2>2 DEF Silent
<1>11. StreamInv'
  <2> SUFFICES ASSUME NEW q \in Runs, Listens(q)', NEW n \in Nodes
               PROVE  Heard(stream'[q], n, registered, vanished)
    BY <1>7 DEF StreamInv
  <2>1. CASE q = r
    BY <1>9, <1>10, <2>1
  <2>2. CASE q # r
    BY <1>7, <1>9, <2>2 DEF CacheInv, StreamInv, Listens
  <2> QED  BY <2>1, <2>2
<1>12. OneRun'
  BY <1>7, <1>9 DEF CacheInv, OneRun
<1>13. FollowInv'
  BY <1>7, <1>9 DEF CacheInv, OneRun, FollowInv, Listens
<1> QED  BY <1>7, <1>8, <1>11, <1>12, <1>13 DEF CacheInv

LEMMA WatchErrorInv == ASSUME CacheInv, NEW r \in Runs, WatchError(r) PROVE CacheInv'
<1>1. /\ UNCHANGED <<registered, vanished, has, cache, age, watched, closer, reload, sender>>
      /\ stream' = [stream EXCEPT ![r] = <<>>] /\ ~followed'
  BY DEF WatchError
<1>2. TypeOK'
  <2>1. armed' \in [Runs -> BOOLEAN] /\ stopped' \in [Runs -> BOOLEAN] /\ followed' \in BOOLEAN
    BY Zenon DEF CacheInv, TypeOK, WatchError
  <2>2. stream' \in [Runs -> Seq(Events)] /\ stale' \in 0..MaxStale
    BY DEF CacheInv, TypeOK, WatchError
  <2>3. run' \in [Runs -> {"none", "top", "watch", "ended"}]
    BY DEF CacheInv, TypeOK, WatchError
  <2> QED  BY <1>1, <2>1, <2>2, <2>3 DEF CacheInv, TypeOK
<1>3. /\ \A q \in Runs : q # r => stream'[q] = stream[q] /\ stopped'[q] = stopped[q]
      /\ run[r] = "watch" /\ run'[r] \in {"top", "ended"}
      /\ \A q \in Runs : q # r => run'[q] = run[q]
  BY DEF CacheInv, TypeOK, WatchError
<1>4. StreamInv'
  BY <1>1, <1>3 DEF CacheInv, StreamInv, Listens
<1>5. OneRun' /\ FollowInv'
  BY <1>1, <1>3 DEF CacheInv, OneRun, FollowInv
<1> QED  BY <1>1, <1>2, <1>4, <1>5 DEF CacheInv

-----------------------------------------------------------------------------
(* The registry *)

\* The watches that listen hear of a change that is told as it happened.
LEMMA PublishInv ==
    ASSUME CacheInv, NEW e \in Events, Publish(e),
           registered' \subseteq Nodes, IsFiniteSet(registered'), vanished' \in BOOLEAN,
           vanished => vanished' \/ e = Event("delete", {}),
           \A n \in Nodes : n \notin e.nodes => (n \in registered' <=> n \in registered),
           \A n \in e.nodes : e.action = IF n \in registered' THEN "create" ELSE "delete",
           UNCHANGED <<has, cache, age, run, armed, stopped, stale, watched, closer, reload,
                       sender, followed>>
    PROVE  CacheInv'
<1>1. /\ \A q \in Runs : stream[q] \in Seq(Events)
      /\ \A q \in Runs : Listens(q) => stream'[q] = Append(stream[q], e)
      /\ \A q \in Runs : Listens(q)' <=> Listens(q)
  BY DEF CacheInv, TypeOK, Publish, Listens
<1>2. stream' \in [Runs -> Seq(Events)]
  BY AppendOf DEF CacheInv, TypeOK, Publish
<1>3. TypeOK'
  BY <1>2 DEF CacheInv, TypeOK
<1>4. StreamInv'
  <2> SUFFICES ASSUME NEW q \in Runs, Listens(q), NEW n \in Nodes
               PROVE  Heard(Append(stream[q], e), n, registered', vanished')
    BY <1>1 DEF StreamInv
  <2>1. Heard(stream[q], n, registered, vanished)
    BY DEF CacheInv, StreamInv
  <2>2. /\ vanished \in BOOLEAN /\ vanished' \in BOOLEAN
        /\ vanished => vanished' \/ e = Event("delete", {})
        /\ n \notin e.nodes => (n \in registered' <=> n \in registered)
        /\ n \in e.nodes => e.action = IF n \in registered' THEN "create" ELSE "delete"
    BY DEF CacheInv, TypeOK
  <2> QED  BY <1>1, <2>1, <2>2, HeardAppend
<1>5. OneRun'
  BY DEF CacheInv, OneRun
<1>6. FollowInv'
  <2> SUFFICES ASSUME followed PROVE FollowInv'
    BY DEF FollowInv
  <2>1. PICK q \in Runs : Listens(q) /\ Kept(stream[q]) /\ closer = "idle"
    BY DEF CacheInv, FollowInv
  <2> DEFINE t == Append(stream[q], e)
  <2>2. stream'[q] = t /\ Listens(q)'
    BY <1>1, <2>1
  <2>3. \A n \in Nodes : Silent(t, n) => Silent(stream[q], n) /\ n \notin e.nodes
    BY <1>1, AppendSilent
  <2>4. /\ Drops(stream[q]) => Drops(t)
        /\ e = Event("delete", {}) => Drops(t)
    BY <1>1, AppendOf DEF Drops
  <2> HIDE DEF t
  <2>5. ASSUME NEW n \in Nodes, Silent(t, n)
        PROVE  /\ n \in registered' => n \in cache
               /\ n \in cache => n \in registered' \/ vanished' \/ Drops(t)
    <3>1. /\ n \in registered => n \in cache
          /\ n \in cache => n \in registered \/ vanished \/ Drops(stream[q])
      BY <2>1, <2>3, <2>5 DEF Kept
    <3>2. n \in registered' <=> n \in registered
      BY <2>3, <2>5
    <3> QED  BY <2>4, <3>1, <3>2
  <2>6. Kept(stream[q])'
    BY <2>2, <2>5 DEF Kept
  <2> QED  BY <2>1, <2>2, <2>6 DEF FollowInv
<1> QED  BY <1>3, <1>4, <1>5, <1>6 DEF CacheInv

LEMMA JoinInv == ASSUME CacheInv, NEW n \in Nodes, Join(n) PROVE CacheInv'
<1> DEFINE e == Event("create", {n})
<1>1. e \in Events /\ e.nodes = {n} /\ e.action = "create"
  BY DEF Event, Events
<1>2. /\ registered' = registered \cup {n} /\ Publish(e)
      /\ UNCHANGED <<vanished, has, cache, age, run, armed, stopped, stale, watched, closer, reload,
                     sender, followed>>
  BY DEF Join
<1> HIDE DEF e
<1>3. registered' \subseteq Nodes /\ IsFiniteSet(registered') /\ vanished' \in BOOLEAN
  BY <1>2, FS_AddElement DEF CacheInv, TypeOK
<1> QED  BY <1>1, <1>2, <1>3, PublishInv

LEMMA LeaveInv == ASSUME CacheInv, NEW n \in Nodes, Leave(n) PROVE CacheInv'
<1> DEFINE e == Event("delete", {n})
<1>1. e \in Events /\ e.nodes = {n} /\ e.action = "delete"
  BY DEF Event, Events
<1>2. /\ registered' = registered \ {n} /\ vanished' \in {vanished, TRUE}
      /\ \/ Publish(e)
         \/ registered = {n} /\ vanished' = TRUE /\ UNCHANGED stream
      /\ UNCHANGED <<has, cache, age, run, armed, stopped, stale, watched, closer, reload,
                     sender, followed>>
  BY DEF Leave
<1> HIDE DEF e
<1>3. registered' \subseteq Nodes /\ IsFiniteSet(registered') /\ vanished' \in BOOLEAN
  BY <1>2, FS_RemoveElement DEF CacheInv, TypeOK
<1>4. CASE Publish(e)
  <2>1. vanished => vanished' \/ e = Event("delete", {})
    BY Zenon, <1>2
  <2>2. /\ \A m \in Nodes : m \notin e.nodes => (m \in registered' <=> m \in registered)
        /\ \A m \in e.nodes : e.action = IF m \in registered' THEN "create" ELSE "delete"
    BY <1>1, <1>2
  <2> QED  BY <1>1, <1>2, <1>3, <1>4, <2>1, <2>2, PublishInv
<1>5. CASE registered' = {} /\ vanished' = TRUE /\ UNCHANGED stream
  <2>1. TypeOK' /\ OneRun'
    BY <1>2, <1>3, <1>5 DEF CacheInv, TypeOK, OneRun
  <2>2. \A q \in Runs : Listens(q)' <=> Listens(q)
    BY <1>2 DEF Listens
  <2>3. ASSUME NEW q \in Runs, Listens(q), NEW m \in Nodes
        PROVE  Heard(stream[q], m, {}, TRUE)
    <3>1. Heard(stream[q], m, registered, vanished)
      BY <2>3 DEF CacheInv, StreamInv
    <3> QED  BY <3>1 DEF Heard
  <2>4. StreamInv'
    BY <1>5, <2>2, <2>3 DEF StreamInv
  <2>5. FollowInv'
    BY <1>2, <1>5, <2>2 DEF CacheInv, FollowInv, Kept
  <2> QED  BY <1>3, <2>1, <2>4, <2>5 DEF CacheInv
<1> QED  BY <1>2, <1>4, <1>5

LEMMA VanishInv == ASSUME CacheInv, Vanish PROVE CacheInv'
<1> DEFINE e == Event("delete", {})
<1>1. e \in Events /\ e.nodes = {}
  BY DEF Event, Events
<1>2. /\ registered' = registered /\ Publish(e) /\ vanished' \in BOOLEAN
      /\ UNCHANGED <<has, cache, age, run, armed, stopped, stale, watched, closer, reload,
                     sender, followed>>
  BY DEF Vanish
<1>3. registered' \subseteq Nodes /\ IsFiniteSet(registered')
  BY <1>2 DEF CacheInv, TypeOK
<1> QED  BY <1>1, <1>2, <1>3, PublishInv

LEMMA CacheStepInv == CacheInv /\ [Next]_vars => CacheInv'
<1> SUFFICES ASSUME CacheInv, [Next]_vars PROVE CacheInv'
  OBVIOUS
<1>1. CASE Get
  BY <1>1, GetInv
<1>2. ASSUME NEW r \in Runs, RunStep(r) \/ Stopper(r) \/ WatchError(r) PROVE CacheInv'
  BY <1>2, RunQuitInv, RunWatchInv, UpdateInv, WatchErrorInv, AsideInv DEF RunStep
<1>3. CASE Reset \/ StaleStopper \/ InitCall \/ InitSend \/ CloseCache \/ CloseExit \/ Tick
  BY <1>3, AsideInv
<1>4. ASSUME NEW n \in Nodes, Join(n) \/ Leave(n) PROVE CacheInv'
  BY <1>4, JoinInv, LeaveInv
<1>5. CASE Vanish
  BY <1>5, VanishInv
<1>6. CASE UNCHANGED vars
  BY <1>6 DEF CacheInv, TypeOK, StreamInv, OneRun, FollowInv, Listens, Kept
<1> QED  BY <1>1, <1>2, <1>3, <1>4, <1>5, <1>6 DEF Next

\* The inductive invariant of the cache
THEOREM CacheInvariance == Spec => []CacheInv
<1> QED  BY CacheInitInv, CacheStepInv, PTL DEF Spec

\* In every behaviour the variables of the cache have their types.
THEOREM CacheTypeCorrect == Spec => []TypeOK
<1>1. CacheInv => TypeOK
  BY DEF CacheInv
<1> QED  BY <1>1, CacheInvariance, PTL

\* A watch that listens reports with an event that names its nodes only instances that
\* have left the registry or whose return it has yet to deliver, for any number of
\* instances that come and go, versions, watches and restarts of the watch.
THEOREM LeaversNotified == Spec => OnlyLeaversNotified
<1> DEFINE Reported(r) ==
             Update(r) /\ ~stopped[r] /\ Head(stream[r]).nodes # {} =>
               \A n \in Apply(Head(stream[r])).gone :
                  n \notin registered \/ Returns(Tail(stream[r]), n)
<1>1. ASSUME CacheInv, NEW r \in Runs PROVE Reported(r)
  <2> SUFFICES ASSUME Update(r), ~stopped[r], Head(stream[r]).nodes # {},
                      NEW n \in Apply(Head(stream[r])).gone, n \in registered
               PROVE  Returns(Tail(stream[r]), n)
    OBVIOUS
  <2> DEFINE s == stream[r]
             e == Head(s)
  <2>1. s \in Seq(Events) /\ s # <<>> /\ Listens(r) /\ n \in Nodes
    BY <1>1 DEF CacheInv, TypeOK, Update, Listens
  <2>2. e \in Events /\ e = s[1] /\ 1 \in 1..Len(s)
    BY <2>1, TailOf
  <2>3. e.action = "delete" /\ n \in e.nodes
    BY <1>1, <2>2, ApplyOf
  <2>4. PICK i \in 1..Len(s) : LastAt(s, n, i) /\ s[i].action = "create"
    BY <1>1, <2>1, <2>2, <2>3 DEF CacheInv, StreamInv, Heard, Silent
  <2>5. i # 1
    BY <2>2, <2>3, <2>4
  <2>6. i - 1 \in 1..Len(Tail(s)) /\ Tail(s)[i - 1] = s[i] /\ n \in s[i].nodes
    BY <2>1, <2>4, <2>5, TailLast DEF LastAt
  <2> QED  BY <2>4, <2>6 DEF Returns
<1>2. CacheInv /\ [Next]_vars => [\A r \in Runs : Reported(r)]_vars
  BY <1>1
<1> QED  BY <1>2, CacheInvariance, PTL DEF Spec, OnlyLeaversNotified

\* Until Close an entry that a watch has followed since it was fetched is the registry's, but
\* for what the waiting events say, however often instances leave and return.
THEOREM EntryFollowed == Spec => []EntryFollows
<1>1. ASSUME CacheInv, followed
      PROVE  \E r \in Runs :
                /\ Listens(r)
                /\ \A n \in registered : Served(stream[r], n)
                /\ \A n \in Nodes \ registered :
                      Served(stream[r], n) => vanished \/ Drops(stream[r])
  <2>1. PICK r \in Runs : Listens(r) /\ Kept(stream[r])
    BY <1>1 DEF CacheInv, FollowInv
  <2> DEFINE s == stream[r]
  <2>2. \A n \in Nodes : Heard(s, n, registered, vanished)
    BY <1>1, <2>1 DEF CacheInv, StreamInv
  <2>3. registered \subseteq Nodes /\ s \in Seq(Events)
    BY <1>1 DEF CacheInv, TypeOK
  <2>4. ASSUME NEW n \in registered PROVE Served(s, n)
    <3>1. Silent(s, n) => n \in cache
      BY <2>1, <2>3 DEF Kept
    <3> QED  BY <2>2, <2>3, <3>1 DEF Heard, Served
  <2>5. ASSUME NEW n \in Nodes \ registered, Served(s, n) PROVE vanished \/ Drops(s)
    <3>1. CASE Silent(s, n)
      BY <2>1, <2>5, <3>1 DEF Served, Kept, LastAt, Silent
    <3>2. CASE ~Silent(s, n)
      <4>1. PICK i \in 1..Len(s) : LastAt(s, n, i) /\ s[i].action = "create"
        BY <2>5, <3>2 DEF Served
      <4>2. ASSUME NEW j \in 1..Len(s), LastAt(s, n, j) PROVE j = i
        <5>1. i \in Nat /\ j \in Nat /\ n \in s[i].nodes /\ n \in s[j].nodes
          BY <4>1, <4>2 DEF LastAt
        <5>2. ~(i < j) /\ ~(j < i)
          BY <4>1, <4>2, <5>1 DEF LastAt
        <5> QED  BY <5>1, <5>2
      <4>3. vanished \/ DropsAfter(s, i)
        BY <2>2, <3>2, <4>1, <4>2 DEF Heard
      <4>4. \A j \in (i + 1)..Len(s) : j \in 1..Len(s)
        BY <2>3
      <4> QED  BY <4>3, <4>4 DEF DropsAfter, Drops
    <3> QED  BY <3>1, <3>2
  <2> QED  BY <2>1, <2>4, <2>5
<1>2. CacheInv => EntryFollows
  BY <1>1 DEF EntryFollows
<1> QED  BY <1>2, CacheInvariance, PTL

-----------------------------------------------------------------------------
(* Consul: the results waiting for the cache *)

HIDE ConstAssumption DEF ConstAssumption, registry, entry, watch, control, vars

Results == [action : {"create", "update", "delete"}, version : Versions \cup {None},
            service : Objects \cup {None}]

\* Positions of the results about version v in q, and those that delete
About(q, v) == {n \in 1..Len(q) : q[n].version = v}
Deletes(q, n) == q[n].action = "delete"

\* An object is announced once; its deletion follows at once; the object the cache holds
\* has been announced; the watcher's latest object is announced last.
Once(q, v) == \A n, m \in About(q, v) :
    ~Deletes(q, n) /\ ~Deletes(q, m) /\ q[n].service = q[m].service => n = m
Followed(q, v) == \A m, n \in About(q, v) :
    ~Deletes(q, m) /\ Deletes(q, n) /\ q[n].service = q[m].service =>
       /\ m < n
       /\ \A k \in About(q, v) : m < k /\ k < n => Deletes(q, k) /\ q[k].service = q[n].service
Passed(q, v, c) == c # None => \A n \in About(q, v) : q[n].service = c =>
    /\ Deletes(q, n)
    /\ \A k \in About(q, v) : k < n => Deletes(q, k) /\ q[k].service = c
Final(q, v, l) == l # None =>
    /\ \A n \in About(q, v) : q[n].service = l =>
          ~Deletes(q, n) /\ \A k \in About(q, v) : k <= n
    /\ About(q, v) # {} => \E m \in About(q, v) : q[m].service = l
Chain(q, v, c, l) == Once(q, v) /\ Followed(q, v) /\ Passed(q, v, c) /\ Final(q, v, l)

\* The result at d takes x out of the entry of v.
Removes(q, v, ns, d, x) ==
    /\ Deletes(q, d)
    /\ \/ x \in ns[q[d].service] \/ ns[q[d].service] = {}
       \/ \E m \in About(q, v) : m < d /\ ~Deletes(q, m) /\ q[m].service = q[d].service
\* What an announced object or the entry c has beyond g is still taken out.
Bounded(q, v, ns, g) == \A n \in About(q, v) : \A x \in ns[q[n].service] :
    ~Deletes(q, n) /\ x \notin g => \E d \in About(q, v) : n < d /\ Removes(q, v, ns, d, x)
NodesAt(ns, c) == IF c = None THEN {} ELSE ns[c]
EntryBounded(q, v, ns, c, g) == \A x \in NodesAt(ns, c) :
    x \notin g => \E d \in About(q, v) : Removes(q, v, ns, d, x)

\* h maps the results about v in q one to one and in order to those in r.
Same(q, r, v, h) ==
    /\ \A n \in About(q, v) : h[n] \in About(r, v) /\ r[h[n]] = q[n]
    /\ \A m \in About(r, v) : \E n \in About(q, v) : h[n] = m
    /\ \A n, k \in About(q, v) : (n < k <=> h[n] < h[k]) /\ (n = k <=> h[n] = h[k])

\* Positions are numbers of the sequence.
LEMMA AboutNat ==
    ASSUME NEW q, NEW v, NEW n \in About(q, v)
    PROVE  n \in Nat /\ n \in Int /\ n \in 1..Len(q) /\ q[n].version = v
BY DEF About

\* Sequences with the same results about v in the same order are alike in every respect.
LEMMA SameChain ==
    ASSUME NEW q, NEW r, NEW v, NEW h, Same(q, r, v, h), NEW c, NEW l, Chain(q, v, c, l)
    PROVE  Chain(r, v, c, l)
<1>1. Once(r, v)
  BY DEF Same, Chain, Once, Deletes
<1>2. Followed(r, v)
  BY DEF Same, Chain, Followed, Deletes
<1>3. Passed(r, v, c)
  BY DEF Same, Chain, Passed, Deletes
<1>4. Final(r, v, l)
  <2>1. SUFFICES ASSUME l # None PROVE Final(r, v, l)!2
    BY DEF Final
  <2>2. ASSUME NEW n \in About(r, v), r[n].service = l, NEW k \in About(r, v)
        PROVE  ~Deletes(r, n) /\ k <= n
    <3>1. PICK i \in About(q, v) : h[i] = n  BY <2>2 DEF Same
    <3>2. PICK j \in About(q, v) : h[j] = k  BY <2>2 DEF Same
    <3>3. q[i].service = l /\ q[i] = r[n]  BY <2>2, <3>1 DEF Same
    <3>4. ~Deletes(q, i) /\ j <= i  BY <2>1, <3>3 DEF Chain, Final
    <3>5. i \in Nat /\ j \in Nat /\ n \in Nat /\ k \in Nat  BY AboutNat
    <3>6. k = n \/ k < n  BY <3>1, <3>2, <3>4, <3>5 DEF Same
    <3> QED  BY <3>3, <3>4, <3>5, <3>6 DEF Deletes
  <2>3. ASSUME About(r, v) # {} PROVE \E m \in About(r, v) : r[m].service = l
    BY <2>1, <2>3 DEF Same, Chain, Final
  <2> QED  BY <2>2, <2>3
<1> QED  BY <1>1, <1>2, <1>3, <1>4 DEF Chain

LEMMA SameRemoves ==
    ASSUME NEW q, NEW r, NEW v, NEW h, Same(q, r, v, h), NEW ns, NEW ns2,
           \A n \in About(q, v) : ns2[q[n].service] = ns[q[n].service],
           NEW d \in About(q, v), NEW x, Removes(q, v, ns, d, x)
    PROVE  h[d] \in About(r, v) /\ Removes(r, v, ns2, h[d], x)
BY DEF Same, Removes, Deletes

LEMMA SameBounded ==
    ASSUME NEW q, NEW r, NEW v, NEW h, Same(q, r, v, h), NEW ns, NEW ns2,
           \A n \in About(q, v) : ns2[q[n].service] = ns[q[n].service],
           NEW g, Bounded(q, v, ns, g)
    PROVE  Bounded(r, v, ns2, g)
<1> SUFFICES ASSUME NEW n \in About(r, v), NEW x \in ns2[r[n].service], ~Deletes(r, n), x \notin g
             PROVE  \E d \in About(r, v) : n < d /\ Removes(r, v, ns2, d, x)
  BY DEF Bounded
<1>1. PICK i \in About(q, v) : h[i] = n  BY DEF Same
<1>2. x \in ns[q[i].service] /\ ~Deletes(q, i)  BY <1>1 DEF Same, Deletes
<1>3. PICK d \in About(q, v) : i < d /\ Removes(q, v, ns, d, x)  BY <1>2 DEF Bounded
<1>4. h[d] \in About(r, v) /\ Removes(r, v, ns2, h[d], x)  BY <1>3, SameRemoves
<1>5. n < h[d]  BY <1>1, <1>3 DEF Same
<1> QED  BY <1>4, <1>5

LEMMA SameEntry ==
    ASSUME NEW q, NEW r, NEW v, NEW h, Same(q, r, v, h), NEW ns, NEW ns2,
           \A n \in About(q, v) : ns2[q[n].service] = ns[q[n].service],
           NEW g, NEW c, NodesAt(ns2, c) = NodesAt(ns, c), EntryBounded(q, v, ns, c, g)
    PROVE  EntryBounded(r, v, ns2, c, g)
<1> SUFFICES ASSUME NEW x \in NodesAt(ns2, c), x \notin g
             PROVE  \E d \in About(r, v) : Removes(r, v, ns2, d, x)
  BY DEF EntryBounded
<1>1. PICK d \in About(q, v) : Removes(q, v, ns, d, x)  BY DEF EntryBounded
<1> QED  BY <1>1, SameRemoves

\* What moves from out to next stays in the results that wait.
LEMMA SendSame ==
    ASSUME NEW R, NEW a \in Seq(R), NEW b \in Seq(R), b # <<>>
    PROVE  Append(a, Head(b)) \o Tail(b) = a \o b
<1>1. Append(a, Head(b)) \o Tail(b) \in Seq(R) /\ a \o b \in Seq(R)
  OBVIOUS
<1>2. Len(Append(a, Head(b)) \o Tail(b)) = Len(a \o b)
  OBVIOUS
<1>3. ASSUME NEW n \in 1..Len(a \o b)
      PROVE  (Append(a, Head(b)) \o Tail(b))[n] = (a \o b)[n]
  <2>1. CASE n <= Len(a)  BY <2>1
  <2>2. CASE n = Len(a) + 1  BY <2>2
  <2>3. CASE n > Len(a) + 1  BY <2>3
  <2> QED  BY <2>1, <2>2, <2>3
<1> QED  BY <1>1, <1>2, <1>3, SeqEqual

\* Taking, inserting or appending a result about another version leaves those about v.
LEMMA TailSame ==
    ASSUME NEW R, NEW q \in Seq(R), q # <<>>, NEW v, Head(q).version # v
    PROVE  Same(q, Tail(q), v, [n \in Nat |-> n - 1])
<1> DEFINE t == Tail(q)   h == [n \in Nat |-> n - 1]
<1>1. \A n \in Nat : h[n] = n - 1
  OBVIOUS
<1>2. /\ Len(q) \in Nat \ {0} /\ Len(t) = Len(q) - 1 /\ \A n \in 1..Len(t) : t[n] = q[n + 1]
      /\ q[1].version # v
  OBVIOUS
<1> HIDE DEF t, h
<1>3. ASSUME NEW n \in About(q, v)
      PROVE  n \in Nat /\ h[n] = n - 1 /\ h[n] \in About(t, v) /\ t[h[n]] = q[n]
  <2>1. n \in 1..Len(q) /\ n # 1 /\ n \in Nat /\ q[n].version = v  BY <1>2 DEF About
  <2>2. n - 1 \in 1..Len(t) /\ n - 1 + 1 = n  BY <2>1, <1>2
  <2>3. t[n - 1] = q[n]  BY <2>2, <1>2
  <2> QED  BY <2>1, <2>2, <2>3, <1>1 DEF About
<1>4. ASSUME NEW m \in About(t, v) PROVE \E n \in About(q, v) : h[n] = m
  <2>1. m \in 1..Len(t) /\ m + 1 \in 1..Len(q) /\ m + 1 \in Nat /\ (m + 1) - 1 = m
    BY <1>2 DEF About
  <2>2. h[m + 1] = m /\ m + 1 \in About(q, v)  BY <2>1, <1>1, <1>2 DEF About
  <2> QED  BY <2>2
<1>5. ASSUME NEW n \in About(q, v), NEW k \in About(q, v)
      PROVE  (n < k <=> h[n] < h[k]) /\ (n = k <=> h[n] = h[k])
  <2>1. n \in Nat /\ k \in Nat /\ h[n] = n - 1 /\ h[k] = k - 1  BY <1>3
  <2> QED  BY <2>1
<1>6. Same(q, t, v, h)
  BY <1>3, <1>4, <1>5 DEF Same
<1> QED  BY <1>6 DEF t, h

LEMMA InsertSame ==
    ASSUME NEW R, NEW a \in Seq(R), NEW b \in Seq(R), NEW e \in R, NEW v, e.version # v
    PROVE  Same(a \o b, Append(a, e) \o b, v, [n \in Nat |-> IF n <= Len(a) THEN n ELSE n + 1])
<1> DEFINE q == a \o b   r == Append(a, e) \o b
           h == [n \in Nat |-> IF n <= Len(a) THEN n ELSE n + 1]
<1>0. /\ Len(q) = Len(a) + Len(b) /\ Len(r) = Len(a) + 1 + Len(b)
      /\ Len(a) \in Nat /\ Len(b) \in Nat
  OBVIOUS
<1>1. /\ \A n \in 1..Len(a) : q[n] = a[n] /\ r[n] = a[n]
      /\ r[Len(a) + 1] = e
      /\ \A n \in 1..Len(b) : q[Len(a) + n] = b[n] /\ r[Len(a) + 1 + n] = b[n]
  OBVIOUS
<1>2. \A n \in Nat : (n <= Len(a) => h[n] = n) /\ (n > Len(a) => h[n] = n + 1)
  OBVIOUS
<1> HIDE DEF q, r, h
<1>3. ASSUME NEW n \in 1..Len(q)
      PROVE  n \in Nat /\ h[n] \in 1..Len(r) /\ r[h[n]] = q[n]
  <2>0. n \in Nat  BY <1>0
  <2>1. CASE n <= Len(a)  BY <2>0, <2>1, <1>0, <1>1, <1>2
  <2>2. CASE n > Len(a)
    <3>1. PICK i \in 1..Len(b) : n = Len(a) + i /\ n + 1 = Len(a) + 1 + i
      <4>1. n - Len(a) \in 1..Len(b)  BY <2>0, <2>2, <1>0
      <4>2. n = Len(a) + (n - Len(a)) /\ n + 1 = Len(a) + 1 + (n - Len(a))  BY <2>0, <1>0
      <4> QED  BY <4>1, <4>2
    <3> QED  BY <2>0, <2>2, <3>1, <1>0, <1>1, <1>2
  <2> QED  BY <2>0, <2>1, <2>2, <1>0
<1>4. ASSUME NEW m \in 1..Len(r), r[m].version = v PROVE \E n \in 1..Len(q) : h[n] = m
  <2>1. m # Len(a) + 1  BY <1>1, <1>4
  <2>2. CASE m <= Len(a)  BY <2>2, <1>0, <1>2
  <2>3. CASE m > Len(a) + 1
    <3>1. m - 1 \in 1..Len(q) /\ m - 1 \in Nat /\ h[m - 1] = m  BY <2>3, <1>0, <1>2
    <3> QED  BY <3>1
  <2> QED  BY <2>1, <2>2, <2>3, <1>0
<1>5. ASSUME NEW n \in Nat, NEW k \in Nat
      PROVE  (n < k <=> h[n] < h[k]) /\ (n = k <=> h[n] = h[k])
  <2>1. CASE n <= Len(a) /\ k <= Len(a)
    <3>1. h[n] = n /\ h[k] = k  BY <2>1, <1>2
    <3> QED  BY <3>1
  <2>2. CASE n <= Len(a) /\ k > Len(a)
    <3>1. h[n] = n /\ h[k] = k + 1  BY <2>2, <1>2
    <3> QED  BY <3>1, <2>2, <1>0
  <2>3. CASE n > Len(a) /\ k <= Len(a)
    <3>1. h[n] = n + 1 /\ h[k] = k  BY <2>3, <1>2
    <3> QED  BY <3>1, <2>3, <1>0
  <2>4. CASE n > Len(a) /\ k > Len(a)
    <3>1. h[n] = n + 1 /\ h[k] = k + 1  BY <2>4, <1>2
    <3> QED  BY <3>1
  <2> QED  BY <2>1, <2>2, <2>3, <2>4, <1>0
<1>6. Same(q, r, v, h)
  <2>1. ASSUME NEW n \in About(q, v) PROVE h[n] \in About(r, v) /\ r[h[n]] = q[n] /\ n \in Nat
    BY <1>3 DEF About
  <2>2. ASSUME NEW m \in About(r, v) PROVE \E n \in About(q, v) : h[n] = m
    <3>1. PICK n \in 1..Len(q) : h[n] = m  BY <1>4, <2>2 DEF About
    <3> QED  BY <1>3, <2>2, <3>1 DEF About
  <2> QED  BY <1>5, <2>1, <2>2 DEF Same
<1> QED  BY <1>6 DEF q, r, h

LEMMA AppendSame ==
    ASSUME NEW R, NEW q \in Seq(R), NEW s \in Seq(R), NEW v,
           \A n \in 1..Len(s) : s[n].version # v
    PROVE  Same(q, q \o s, v, [n \in Nat |-> n])
<1> DEFINE r == q \o s   h == [n \in Nat |-> n]
<1>0. r \in Seq(R) /\ Len(r) = Len(q) + Len(s) /\ Len(q) \in Nat /\ Len(s) \in Nat
  OBVIOUS
<1>1. ASSUME NEW n \in 1..Len(q) PROVE n \in Nat /\ h[n] = n /\ n \in 1..Len(r) /\ r[n] = q[n]
  BY <1>0
<1>2. ASSUME NEW m \in 1..Len(r), r[m].version = v PROVE m \in 1..Len(q)
  <2>1. CASE m > Len(q)
    <3>1. m - Len(q) \in 1..Len(s) /\ r[m] = s[m - Len(q)]  BY <1>0, <2>1
    <3> QED  BY <3>1, <1>2
  <2> QED  BY <2>1, <1>0
<1> HIDE DEF r, h
<1>3. Same(q, r, v, h)
  BY <1>1, <1>2 DEF Same, About
<1> QED  BY <1>3 DEF r, h

\* t is what is left of q once the first result, about v, is taken.
Rest(q, t, v, h) ==
    /\ 1 \in About(q, v)
    /\ \A n \in About(t, v) : h[n] \in About(q, v) /\ 1 < h[n] /\ q[h[n]] = t[n]
    /\ \A m \in About(q, v) : m = 1 \/ \E n \in About(t, v) : h[n] = m
    /\ \A n, k \in About(t, v) : (n < k <=> h[n] < h[k]) /\ (n = k <=> h[n] = h[k])

\* The first result about v is taken.
LEMMA TailRest ==
    ASSUME NEW R, NEW q \in Seq(R), q # <<>>, NEW v, Head(q).version = v
    PROVE  Rest(q, Tail(q), v, [n \in Nat |-> n + 1])
<1> DEFINE t == Tail(q)   h == [n \in Nat |-> n + 1]
<1>1. \A n \in Nat : h[n] = n + 1
  OBVIOUS
<1>2. Len(q) \in Nat \ {0} /\ Len(t) = Len(q) - 1 /\ \A n \in 1..Len(t) : t[n] = q[n + 1]
  OBVIOUS
<1>3. 1 \in About(q, v)
  BY <1>2 DEF About
<1> HIDE DEF t, h
<1>4. ASSUME NEW n \in About(t, v)
      PROVE  n \in Nat /\ h[n] \in About(q, v) /\ 1 < h[n] /\ q[h[n]] = t[n]
  <2>1. n \in 1..Len(t) /\ t[n].version = v /\ n \in Nat  BY <1>2 DEF About
  <2>2. h[n] = n + 1 /\ t[n] = q[n + 1]  BY <2>1, <1>1, <1>2
  <2>3. n + 1 \in 1..Len(q) /\ 1 < n + 1  BY <2>1, <1>2
  <2>4. n + 1 \in About(q, v)  BY <2>1, <2>2, <2>3 DEF About
  <2> QED  BY <2>1, <2>2, <2>3, <2>4
<1>5. ASSUME NEW m \in About(q, v), m # 1 PROVE \E n \in About(t, v) : h[n] = m
  <2>1. m - 1 \in 1..Len(t) /\ m - 1 \in Nat /\ m - 1 + 1 = m  BY <1>2, <1>5 DEF About
  <2>2. h[m - 1] = m /\ t[m - 1] = q[m]  BY <1>1, <1>2, <2>1
  <2>3. m - 1 \in About(t, v)  BY <1>5, <2>1, <2>2 DEF About
  <2> QED  BY <2>2, <2>3
<1>6. ASSUME NEW n \in About(t, v), NEW k \in About(t, v)
      PROVE  (n < k <=> h[n] < h[k]) /\ (n = k <=> h[n] = h[k])
  <2>1. n \in Nat /\ k \in Nat /\ h[n] = n + 1 /\ h[k] = k + 1  BY <1>1, <1>4
  <2> QED  BY <2>1
<1>7. Rest(q, t, v, h)
  BY <1>3, <1>4, <1>5, <1>6 DEF Rest
<1> QED  BY <1>7 DEF t, h

\* The order of the rest: the entry is what it was, nothing, or what was announced.
LEMMA RestChain ==
    ASSUME NEW q, NEW t, NEW v, NEW h, Rest(q, t, v, h), NEW c, NEW l, Chain(q, v, c, l),
           NEW d, d \in {None, c} \/ (d = q[1].service /\ ~Deletes(q, 1))
    PROVE  Chain(t, v, d, l)
<1>1. Once(t, v)
  BY DEF Rest, Chain, Once, Deletes
<1>2. Followed(t, v)
  BY DEF Rest, Chain, Followed, Deletes
<1>3. Passed(t, v, d)
  <2> SUFFICES ASSUME d # None, NEW n \in About(t, v), t[n].service = d
               PROVE  /\ Deletes(t, n)
                      /\ \A k \in About(t, v) : k < n => Deletes(t, k) /\ t[k].service = d
    BY DEF Passed
  <2>1. CASE d = c
    BY <2>1 DEF Rest, Chain, Passed, Deletes
  <2>2. CASE d = q[1].service /\ ~Deletes(q, 1)
    <3>1. h[n] \in About(q, v) /\ 1 < h[n] /\ q[h[n]] = t[n] /\ 1 \in About(q, v)  BY DEF Rest
    <3>2. h[n] # 1  BY <3>1, AboutNat
    <3>3. Deletes(q, h[n])  BY <2>2, <3>1, <3>2 DEF Chain, Once
    <3>4. \A k \in About(q, v) : 1 < k /\ k < h[n] => Deletes(q, k) /\ q[k].service = d
      BY <2>2, <3>1, <3>3 DEF Chain, Followed
    <3> QED  BY <3>1, <3>3, <3>4 DEF Rest, Deletes
  <2> QED  BY <2>1, <2>2
<1>4. Final(t, v, l)
  <2> SUFFICES ASSUME l # None PROVE Final(t, v, l)!2
    BY DEF Final
  <2>1. ASSUME NEW n \in About(t, v), t[n].service = l, NEW k \in About(t, v)
        PROVE  ~Deletes(t, n) /\ k <= n
    <3>1. h[n] \in About(q, v) /\ h[k] \in About(q, v) /\ q[h[n]] = t[n]  BY <2>1 DEF Rest
    <3>2. ~Deletes(q, h[n]) /\ h[k] <= h[n]  BY <2>1, <3>1 DEF Chain, Final
    <3>3. h[k] = h[n] \/ h[k] < h[n]  BY <3>1, <3>2, AboutNat
    <3>4. k = n \/ k < n  BY <2>1, <3>3 DEF Rest
    <3> QED  BY <3>1, <3>2, <3>4, AboutNat DEF Deletes
  <2>2. ASSUME NEW n \in About(t, v) PROVE \E m \in About(t, v) : t[m].service = l
    <3>1. h[n] \in About(q, v) /\ 1 < h[n]  BY <2>2 DEF Rest
    <3>2. PICK m \in About(q, v) : q[m].service = l  BY <3>1 DEF Chain, Final
    <3>3. h[n] <= m  BY <3>1, <3>2 DEF Chain, Final
    <3>4. m # 1  BY <3>1, <3>2, <3>3, AboutNat
    <3> QED  BY <3>2, <3>4 DEF Rest
  <2> QED  BY <2>1, <2>2
<1> QED  BY <1>1, <1>2, <1>3, <1>4 DEF Chain

\* What is taken out later is still taken out.
LEMMA RestRemoves ==
    ASSUME NEW q, NEW t, NEW v, NEW h, Rest(q, t, v, h), NEW ns, NEW ns2, NEW x,
           NEW e \in About(t, v), Removes(q, v, ns, h[e], x),
           x \in ns[t[e].service] => x \in ns2[t[e].service],
           ns[t[e].service] = {} => ns2[t[e].service] = {},
           Deletes(q, 1) \/ q[1].service # t[e].service \/ x \in ns2[t[e].service]
    PROVE  Removes(t, v, ns2, e, x)
<1>1. Deletes(t, e) /\ q[h[e]] = t[e]
  BY DEF Rest, Removes, Deletes
<1>2. ASSUME NEW m \in About(q, v), m < h[e], ~Deletes(q, m), q[m].service = q[h[e]].service,
             x \notin ns2[t[e].service]
      PROVE  \E j \in About(t, v) : j < e /\ ~Deletes(t, j) /\ t[j].service = t[e].service
  <2>1. m # 1  BY <1>1, <1>2
  <2>2. PICK j \in About(t, v) : h[j] = m  BY <1>2, <2>1 DEF Rest
  <2> QED  BY <1>1, <1>2, <2>2 DEF Rest, Deletes
<1> QED  BY <1>1, <1>2 DEF Removes

\* The entry becomes the announced object, which takes the nodes the entry had.
Joined(q, v, ns, ns2, c, u) ==
    /\ u = q[1].service /\ u # None /\ ns[u] # {} /\ ns2[u] = ns[u] \cup NodesAt(ns, c)
    /\ \A n \in About(q, v) : q[n].service # u => ns2[q[n].service] = ns[q[n].service]

LEMMA RestApplied ==
    ASSUME NEW q, NEW t, NEW v, NEW h, Rest(q, t, v, h), NEW c, NEW l, Chain(q, v, c, l),
           ~Deletes(q, 1), NEW ns, NEW ns2, NEW u, Joined(q, v, ns, ns2, c, u),
           NEW g, Bounded(q, v, ns, g)
    PROVE  /\ Bounded(t, v, ns2, g)
           /\ EntryBounded(q, v, ns, c, g) => EntryBounded(t, v, ns2, u, g)
<1> USE DEF Joined
<1>0. 1 \in About(q, v)  BY DEF Rest
<1>1. ASSUME NEW e \in About(t, v), NEW x, Removes(q, v, ns, h[e], x),
             t[e].service # u \/ x \in ns2[u]
      PROVE  Removes(t, v, ns2, e, x)
  <2>1. h[e] \in About(q, v) /\ q[h[e]] = t[e]  BY DEF Rest
  <2>2. x \in ns[t[e].service] => x \in ns2[t[e].service]  BY <2>1
  <2>3. ns[t[e].service] = {} => ns2[t[e].service] = {}  BY <2>1
  <2>4. q[1].service # t[e].service \/ x \in ns2[t[e].service]  BY <1>1
  <2> QED  BY <1>1, <2>2, <2>3, <2>4, RestRemoves
<1>2. Bounded(t, v, ns2, g)
  <2> SUFFICES ASSUME NEW n \in About(t, v), NEW x \in ns2[t[n].service], ~Deletes(t, n), x \notin g
               PROVE  \E e \in About(t, v) : n < e /\ Removes(t, v, ns2, e, x)
    BY DEF Bounded
  <2>1. h[n] \in About(q, v) /\ 1 < h[n] /\ h[n] # 1 /\ q[h[n]] = t[n] /\ ~Deletes(q, h[n])
    BY AboutNat DEF Rest, Deletes
  <2>2. t[n].service # u
    BY <1>0, <2>1 DEF Chain, Once
  <2>3. PICK d \in About(q, v) : h[n] < d /\ Removes(q, v, ns, d, x)
    BY <2>1, <2>2 DEF Bounded
  <2>4. d # 1  BY <2>1, <2>3, AboutNat
  <2>5. PICK e \in About(t, v) : h[e] = d  BY <2>4 DEF Rest
  <2>6. n < e /\ q[d] = t[e]  BY <2>3, <2>5 DEF Rest
  <2>7. t[e].service # u
    <3>1. Deletes(q, d)  BY <2>3 DEF Removes
    <3> QED  BY <1>0, <2>1, <2>3, <2>6, <3>1 DEF Chain, Followed
  <2> QED  BY <1>1, <2>3, <2>5, <2>6, <2>7
<1>3. ASSUME EntryBounded(q, v, ns, c, g) PROVE EntryBounded(t, v, ns2, u, g)
  <2> SUFFICES ASSUME NEW x \in ns2[u], x \notin g
               PROVE  \E e \in About(t, v) : Removes(t, v, ns2, e, x)
    BY DEF EntryBounded, NodesAt
  <2>1. PICK d \in About(q, v) : d # 1 /\ Removes(q, v, ns, d, x)
    <3>1. CASE x \in ns[u]
      <4>1. PICK d \in About(q, v) : 1 < d /\ Removes(q, v, ns, d, x)  BY <1>0, <3>1 DEF Bounded
      <4>2. d # 1  BY <4>1, AboutNat
      <4> QED  BY <4>1, <4>2
    <3>2. CASE x \in NodesAt(ns, c)
      <4>1. PICK d \in About(q, v) : Removes(q, v, ns, d, x)  BY <1>3, <3>2 DEF EntryBounded
      <4>2. d # 1  BY <4>1 DEF Removes
      <4> QED  BY <4>1, <4>2
    <3> QED  BY <3>1, <3>2
  <2>2. PICK e \in About(t, v) : h[e] = d  BY <2>1 DEF Rest
  <2> QED  BY <1>1, <2>1, <2>2
<1> QED  BY <1>2, <1>3

\* An announced object without nodes is ignored.
LEMMA RestIgnored ==
    ASSUME NEW q, NEW t, NEW v, NEW h, Rest(q, t, v, h), NEW c, NEW l, Chain(q, v, c, l),
           ~Deletes(q, 1), NEW ns, ns[q[1].service] = {}, NEW g, Bounded(q, v, ns, g)
    PROVE  /\ Bounded(t, v, ns, g)
           /\ EntryBounded(q, v, ns, c, g) => EntryBounded(t, v, ns, c, g)
<1>1. ASSUME NEW e \in About(t, v), NEW x, Removes(q, v, ns, h[e], x) PROVE Removes(t, v, ns, e, x)
  <2>1. CASE ns[t[e].service] = {}
    BY <1>1, <2>1 DEF Rest, Removes, Deletes
  <2>2. CASE ns[t[e].service] # {}
    BY <1>1, <2>2, RestRemoves
  <2> QED  BY <2>1, <2>2
<1>2. ASSUME NEW d \in About(q, v), NEW x, Removes(q, v, ns, d, x)
      PROVE  \E e \in About(t, v) : h[e] = d /\ Removes(t, v, ns, e, x)
  <2>1. d # 1  BY <1>2 DEF Removes
  <2>2. PICK e \in About(t, v) : h[e] = d  BY <2>1 DEF Rest
  <2> QED  BY <1>1, <1>2, <2>2
<1>3. Bounded(t, v, ns, g)
  <2> SUFFICES ASSUME NEW n \in About(t, v), NEW x \in ns[t[n].service], ~Deletes(t, n), x \notin g
               PROVE  \E e \in About(t, v) : n < e /\ Removes(t, v, ns, e, x)
    BY DEF Bounded
  <2>1. h[n] \in About(q, v) /\ q[h[n]] = t[n] /\ ~Deletes(q, h[n])  BY DEF Rest, Deletes
  <2>2. PICK d \in About(q, v) : h[n] < d /\ Removes(q, v, ns, d, x)  BY <2>1 DEF Bounded
  <2>3. PICK e \in About(t, v) : h[e] = d /\ Removes(t, v, ns, e, x)  BY <1>2, <2>2
  <2> QED  BY <2>2, <2>3 DEF Rest
<1>4. ASSUME EntryBounded(q, v, ns, c, g) PROVE EntryBounded(t, v, ns, c, g)
  BY <1>2, <1>4 DEF EntryBounded
<1> QED  BY <1>3, <1>4

\* A deletion takes its nodes out of the entry, or the entry itself away.
LEMMA RestDeleted ==
    ASSUME NEW q, NEW t, NEW v, NEW h, Rest(q, t, v, h), NEW c, NEW l, Chain(q, v, c, l),
           Deletes(q, 1), NEW ns, NEW ns2, NEW g, Bounded(q, v, ns, g),
           c # None => ns2[c] = ns[c] \/ ns2[c] = ns[c] \ ns[q[1].service],
           \A n \in About(q, v) : q[n].service # c => ns2[q[n].service] = ns[q[n].service],
           c = None => \A n \in About(q, v) : ns2[q[n].service] = ns[q[n].service]
    PROVE  /\ Bounded(t, v, ns2, g)
           /\ c # None /\ ns[q[1].service] # {} /\ ns2[c] = ns[c] \ ns[q[1].service] =>
                 (EntryBounded(q, v, ns, c, g) => EntryBounded(t, v, ns2, c, g))
<1>0. 1 \in About(q, v)  BY DEF Rest
<1>1. ASSUME NEW e \in About(t, v), NEW x, Removes(q, v, ns, h[e], x),
             c = None \/ t[e].service # c \/ x \in ns2[c]
      PROVE  Removes(t, v, ns2, e, x)
  <2>1. h[e] \in About(q, v) /\ q[h[e]] = t[e]  BY DEF Rest
  <2>2. CASE c # None /\ t[e].service = c
    <3>1. Deletes(t, e)  BY <1>1, <2>1 DEF Removes, Deletes
    <3> QED  BY <1>1, <2>2, <3>1 DEF Removes
  <2>3. CASE c = None \/ t[e].service # c
    <3>1. ns2[t[e].service] = ns[t[e].service]  BY <2>1, <2>3
    <3> QED  BY <1>1, <3>1, RestRemoves
  <2> QED  BY <2>2, <2>3
<1>2. Bounded(t, v, ns2, g)
  <2> SUFFICES ASSUME NEW n \in About(t, v), NEW x \in ns2[t[n].service], ~Deletes(t, n), x \notin g
               PROVE  \E e \in About(t, v) : n < e /\ Removes(t, v, ns2, e, x)
    BY DEF Bounded
  <2>1. h[n] \in About(q, v) /\ 1 < h[n] /\ q[h[n]] = t[n] /\ ~Deletes(q, h[n])
    BY DEF Rest, Deletes
  <2>2. c = None \/ t[n].service # c
    BY <2>1 DEF Chain, Passed
  <2>3. PICK d \in About(q, v) : h[n] < d /\ Removes(q, v, ns, d, x)
    BY <2>1, <2>2 DEF Bounded
  <2>4. d # 1  BY <2>1, <2>3, AboutNat
  <2>5. PICK e \in About(t, v) : h[e] = d  BY <2>4 DEF Rest
  <2>6. n < e /\ q[d] = t[e]  BY <2>3, <2>5 DEF Rest
  <2>7. c = None \/ t[e].service # c
    BY <2>1, <2>3, <2>6 DEF Chain, Passed
  <2> QED  BY <1>1, <2>3, <2>5, <2>6, <2>7
<1>3. ASSUME c # None, ns[q[1].service] # {}, ns2[c] = ns[c] \ ns[q[1].service],
             EntryBounded(q, v, ns, c, g)
      PROVE  EntryBounded(t, v, ns2, c, g)
  <2> SUFFICES ASSUME NEW x \in ns2[c], x \notin g
               PROVE  \E e \in About(t, v) : Removes(t, v, ns2, e, x)
    BY <1>3 DEF EntryBounded, NodesAt
  <2>1. x \in NodesAt(ns, c) /\ x \notin ns[q[1].service]  BY <1>3 DEF NodesAt
  <2>2. PICK d \in About(q, v) : Removes(q, v, ns, d, x)  BY <1>3, <2>1 DEF EntryBounded
  <2>3. d # 1
    <3>1. ASSUME NEW m \in About(q, v), m < 1 PROVE FALSE  BY <3>1 DEF About
    <3> QED  BY <1>3, <2>1, <2>2, <3>1 DEF Removes
  <2>4. PICK e \in About(t, v) : h[e] = d  BY <2>3 DEF Rest
  <2> QED  BY <1>1, <2>2, <2>4
<1> QED  BY <1>2, <1>3

\* r is q with results about v at the positions K after those of q.
Extended(q, r, v, K) ==
    /\ \A n \in About(q, v) : n \in About(r, v) /\ r[n] = q[n]
    /\ \A n \in About(r, v) : n \in About(q, v) \/ n \in K
    /\ K \subseteq About(r, v)
    /\ \A n \in About(q, v), k \in K : n < k

Appended(q, s, r, v) ==
    \E K : /\ Extended(q, r, v, K)
           /\ \A k \in K : \E m \in About(s, v) : r[k] = s[m]
           /\ About(s, v) # {} => K # {}
           /\ About(s, v) = {1} => K = {Len(q) + 1}

\* Appending results about v
LEMMA AppendExtended ==
    ASSUME NEW R, NEW q \in Seq(R), NEW s \in Seq(R), NEW v, NEW r, r = q \o s
    PROVE  Appended(q, s, r, v)
<1>1. Len(r) = Len(q) + Len(s) /\ Len(q) \in Nat /\ Len(s) \in Nat
  OBVIOUS
<1>2. /\ \A n \in 1..Len(q) : r[n] = q[n]
      /\ \A m \in 1..Len(s) : r[Len(q) + m] = s[m]
  OBVIOUS
<1>3. ASSUME NEW n \in About(q, v) PROVE n \in About(r, v) /\ r[n] = q[n] /\ n <= Len(q) /\ n \in Nat
  BY <1>1, <1>2 DEF About
<1>4. ASSUME NEW m \in About(s, v)
      PROVE  Len(q) + m \in About(r, v) /\ r[Len(q) + m] = s[m] /\ m \in Nat /\ m > 0
  <2>1. m \in 1..Len(s) /\ Len(q) + m \in 1..Len(r)  BY <1>1 DEF About
  <2> QED  BY <1>2, <2>1 DEF About
<1>5. ASSUME NEW n \in About(r, v), n \notin About(q, v) PROVE \E m \in About(s, v) : n = Len(q) + m
  <2>1. n \in 1..Len(r) /\ n \notin 1..Len(q)  BY <1>2, <1>5 DEF About
  <2>2. n - Len(q) \in 1..Len(s) /\ n = Len(q) + (n - Len(q))  BY <1>1, <2>1
  <2>3. n - Len(q) \in About(s, v)  BY <1>2, <1>5, <2>2 DEF About
  <2> QED  BY <2>2, <2>3
<1>6. ASSUME NEW n \in About(q, v), NEW m \in About(s, v) PROVE n < Len(q) + m
  BY <1>1, <1>3, <1>4
<1>7. PICK K : K = {Len(q) + m : m \in About(s, v)}
  OBVIOUS
<1>8. Extended(q, r, v, K)
  BY <1>3, <1>4, <1>5, <1>6, <1>7 DEF Extended
<1>9. \A k \in K : \E m \in About(s, v) : r[k] = s[m]
  BY <1>4, <1>7
<1>10. (About(s, v) # {} => K # {}) /\ (About(s, v) = {1} => K = {Len(q) + 1})
  BY <1>7
<1> QED  BY <1>8, <1>9, <1>10 DEF Appended

\* Of the objects of v only l changes: what is in g leaves it, and f is g with what l had.
Shrunk(q, v, c, l, ns, ns2, g, f) ==
    /\ ns2[l] = ns[l] \ g /\ f = g \cup ns[l]
    /\ \A n \in About(q, v) : q[n].service # l => ns2[q[n].service] = ns[q[n].service]
    /\ c # l => NodesAt(ns2, c) = NodesAt(ns, c)

\* The watcher's object l is deleted.
LEMMA ExtendDelete ==
    ASSUME NEW q, NEW r, NEW v, NEW K, K # {}, Extended(q, r, v, K), NEW c, NEW l, l # None,
           Chain(q, v, c, l), \A k \in K : Deletes(r, k) /\ r[k].service = l,
           NEW ns, NEW ns2, NEW g, NEW f, Shrunk(q, v, c, l, ns, ns2, g, f), Bounded(q, v, ns, f)
    PROVE  /\ Chain(r, v, c, None)
           /\ Bounded(r, v, ns2, g)
           /\ EntryBounded(q, v, ns, c, f) => EntryBounded(r, v, ns2, c, g)
<1> USE DEF Shrunk
<1>1. Once(r, v)
  BY DEF Chain, Once, Extended, Deletes
<1>2. Followed(r, v)
  <2> SUFFICES ASSUME NEW m \in About(r, v), NEW n \in About(r, v), ~Deletes(r, m), Deletes(r, n),
                      r[n].service = r[m].service
               PROVE  /\ m < n
                      /\ \A k \in About(r, v) : m < k /\ k < n =>
                            Deletes(r, k) /\ r[k].service = r[n].service
    BY DEF Followed
  <2>1. m \in About(q, v) /\ r[m] = q[m] /\ ~Deletes(q, m)  BY DEF Extended, Deletes
  <2>2. CASE n \in K
    <3>1. m < n  BY <2>1, <2>2 DEF Extended
    <3>2. ASSUME NEW k \in About(q, v), m < k PROVE FALSE
      <4>1. k <= m  BY <2>1, <2>2 DEF Chain, Final
      <4> QED  BY <4>1, <3>2, <2>1, AboutNat
    <3> QED  BY <2>2, <3>1, <3>2 DEF Extended
  <2>3. CASE n \in About(q, v)
    <3>1. /\ m < n
          /\ \A k \in About(q, v) : m < k /\ k < n => Deletes(q, k) /\ q[k].service = q[n].service
      BY <2>1, <2>3 DEF Chain, Followed, Extended, Deletes
    <3>2. ASSUME NEW k \in K, k < n PROVE FALSE
      <4>1. n < k /\ k \in Nat /\ n \in Nat  BY <2>3, AboutNat DEF Extended
      <4> QED  BY <3>2, <4>1
    <3> QED  BY <2>3, <3>1, <3>2 DEF Extended, Deletes
  <2> QED  BY <2>2, <2>3 DEF Extended
<1>3. Passed(r, v, c)
  <2> SUFFICES ASSUME c # None, NEW n \in About(r, v), r[n].service = c
               PROVE  /\ Deletes(r, n)
                      /\ \A k \in About(r, v) : k < n => Deletes(r, k) /\ r[k].service = c
    BY DEF Passed
  <2>1. CASE n \in K
    <3>1. About(q, v) = {}
      <4>1. ASSUME NEW m \in About(q, v), q[m].service = l PROVE FALSE
        <5>1. Deletes(q, m)  BY <2>1, <4>1 DEF Chain, Passed
        <5> QED  BY <4>1, <5>1 DEF Chain, Final
      <4> QED  BY <4>1 DEF Chain, Final
    <3> QED  BY <2>1, <3>1 DEF Extended
  <2>2. CASE n \in About(q, v)
    <3>1. /\ Deletes(q, n)
          /\ \A k \in About(q, v) : k < n => Deletes(q, k) /\ q[k].service = c
      BY <2>2 DEF Chain, Passed, Extended
    <3>2. ASSUME NEW k \in K, k < n PROVE FALSE
      <4>1. n < k /\ k \in Nat /\ n \in Nat  BY <2>2, AboutNat DEF Extended
      <4> QED  BY <3>2, <4>1
    <3> QED  BY <2>2, <3>1, <3>2 DEF Extended, Deletes
  <2> QED  BY <2>1, <2>2 DEF Extended
<1>4. ASSUME NEW d \in About(q, v), NEW x, Removes(q, v, ns, d, x)
      PROVE  d \in About(r, v) /\ Removes(r, v, ns2, d, x)
  <2>1. d \in About(r, v) /\ r[d] = q[d] /\ Deletes(q, d)  BY <1>4 DEF Extended, Removes
  <2>2. q[d].service # l  BY <2>1 DEF Chain, Final
  <2>3. ns2[r[d].service] = ns[q[d].service]  BY <2>1, <2>2
  <2> QED  BY <1>4, <2>1, <2>3 DEF Extended, Removes, Deletes
<1>5. ASSUME NEW k \in K, NEW x \in ns[l], x \notin g PROVE k \in About(r, v) /\ Removes(r, v, ns2, k, x)
  BY <1>5 DEF Extended, Removes
<1>6. Bounded(r, v, ns2, g)
  <2> SUFFICES ASSUME NEW n \in About(r, v), NEW x \in ns2[r[n].service], ~Deletes(r, n), x \notin g
               PROVE  \E d \in About(r, v) : n < d /\ Removes(r, v, ns2, d, x)
    BY DEF Bounded
  <2>1. n \in About(q, v) /\ r[n] = q[n] /\ ~Deletes(q, n)  BY DEF Extended, Deletes
  <2>2. CASE x \in ns[l]
    <3>1. PICK k \in K : n < k  BY <2>1 DEF Extended
    <3> QED  BY <1>5, <2>2, <3>1
  <2>3. CASE x \notin ns[l]
    <3>1. x \in ns[q[n].service]  BY <2>1, <2>3
    <3> QED  BY <1>4, <2>1, <2>3, <3>1 DEF Bounded
  <2> QED  BY <2>2, <2>3
<1>7. ASSUME EntryBounded(q, v, ns, c, f) PROVE EntryBounded(r, v, ns2, c, g)
  <2> SUFFICES ASSUME NEW x \in NodesAt(ns2, c), x \notin g
               PROVE  \E d \in About(r, v) : Removes(r, v, ns2, d, x)
    BY DEF EntryBounded
  <2>1. CASE x \in ns[l]
    BY <1>5, <2>1
  <2>2. CASE x \notin ns[l]
    <3>1. x \in NodesAt(ns, c)  BY <2>2 DEF NodesAt
    <3> QED  BY <1>4, <1>7, <2>2, <3>1 DEF EntryBounded
  <2> QED  BY <2>1, <2>2
<1> QED  BY <1>1, <1>2, <1>3, <1>6, <1>7 DEF Chain, Final

\* A new object w is announced.
LEMMA ExtendUpdate ==
    ASSUME NEW q, NEW r, NEW v, NEW K, NEW i, K = {i}, Extended(q, r, v, K), NEW c, NEW l,
           Chain(q, v, c, l), NEW w, ~Deletes(r, i), r[i].service = w, w # c,
           \A n \in About(q, v) : q[n].service # w,
           NEW ns, NEW g, ns[w] \subseteq g, Bounded(q, v, ns, g)
    PROVE  /\ Chain(r, v, c, w)
           /\ Bounded(r, v, ns, g)
           /\ EntryBounded(q, v, ns, c, g) => EntryBounded(r, v, ns, c, g)
           /\ About(r, v) # {}
<1>0. /\ i \in About(r, v) /\ i \in Nat
      /\ \A n \in About(q, v) : n < i /\ n \in Nat /\ ~(i < n) /\ n # i
      /\ \A n \in About(r, v) : n = i \/ n \in About(q, v)
      /\ \A n \in About(q, v) : n \in About(r, v) /\ r[n] = q[n]
  <2>1. i \in About(r, v) /\ i \in Nat  BY AboutNat DEF Extended
  <2>2. ASSUME NEW n \in About(q, v) PROVE n < i /\ n \in Nat /\ ~(i < n) /\ n # i
    <3>1. n < i /\ n \in Nat  BY AboutNat DEF Extended
    <3> QED  BY <2>1, <3>1
  <2>3. \A n \in About(r, v) : n = i \/ n \in About(q, v)  BY DEF Extended
  <2>4. \A n \in About(q, v) : n \in About(r, v) /\ r[n] = q[n]  BY DEF Extended
  <2> QED  BY <2>1, <2>2, <2>3, <2>4
<1>1. Once(r, v)
  BY <1>0 DEF Chain, Once, Deletes
<1>2. Followed(r, v)
  BY <1>0 DEF Chain, Followed, Deletes
<1>3. Passed(r, v, c)
  BY <1>0 DEF Chain, Passed, Deletes
<1>4. Final(r, v, w)
  BY <1>0 DEF Final
<1>5. ASSUME NEW d \in About(q, v), NEW x, Removes(q, v, ns, d, x)
      PROVE  d \in About(r, v) /\ Removes(r, v, ns, d, x)
  BY <1>0, <1>5 DEF Removes, Deletes
<1>6. Bounded(r, v, ns, g)
  BY <1>0, <1>5 DEF Bounded, Deletes
<1>7. ASSUME EntryBounded(q, v, ns, c, g) PROVE EntryBounded(r, v, ns, c, g)
  BY <1>5, <1>7 DEF EntryBounded
<1> QED  BY <1>0, <1>1, <1>2, <1>3, <1>4, <1>6, <1>7 DEF Chain

\* e is the one result that r has and q has not.
LastIs(q, r, v, e) == \E i : Extended(q, r, v, {i}) /\ r[i] = e

\* One result, or a deletion and an announcement, are appended.
LEMMA AppendedOne ==
    ASSUME NEW R, NEW q \in Seq(R), NEW s \in Seq(R), NEW e, s = <<e>>, NEW v, e.version = v,
           NEW r, r = q \o s
    PROVE  LastIs(q, r, v, e)
<1>1. Len(s) = 1 /\ s[1] = e  OBVIOUS
<1>2. About(s, v) = {1}  BY <1>1 DEF About
<1>3. Appended(q, s, r, v)  BY AppendExtended
<1>4. PICK K : /\ Extended(q, r, v, K)
               /\ \A k \in K : \E m \in About(s, v) : r[k] = s[m]
               /\ About(s, v) # {} => K # {}
               /\ About(s, v) = {1} => K = {Len(q) + 1}
  BY <1>3 DEF Appended
<1>5. K = {Len(q) + 1}  BY <1>2, <1>4
<1>6. r[Len(q) + 1] = e  BY <1>1, <1>2, <1>4, <1>5, Zenon
<1> QED  BY <1>4, <1>5, <1>6, Zenon DEF LastIs

LEMMA ShortSeqs == ASSUME NEW r, NEW s PROVE <<>> \o <<s>> = <<s>> /\ <<r>> \o <<s>> = <<r, s>>
<1>1. <<r>> \in Seq({r, s}) /\ <<s>> \in Seq({r, s}) /\ <<r, s>> \in Seq({r, s})
  OBVIOUS
<1>2. <<>> \o <<s>> = <<s>>  BY <1>1, ConcatEmptySeq
<1>3. <<r>> \o <<s>> \in Seq({r, s}) /\ Len(<<r>> \o <<s>>) = 2  BY <1>1
<1>4. (<<r>> \o <<s>>)[1] = r /\ (<<r>> \o <<s>>)[2] = s  BY <1>1
<1>5. \A i \in 1..2 : i = 1 \/ i = 2  OBVIOUS
<1>6. \A i \in 1..2 : (<<r>> \o <<s>>)[i] = <<r, s>>[i]  BY <1>4, <1>5
<1>7. Len(<<r, s>>) = 2  OBVIOUS
<1>8. <<r>> \o <<s>> = <<r, s>>  BY <1>1, <1>3, <1>6, <1>7, SeqEqual
<1> QED  BY <1>2, <1>8

LEMMA InTwo ==
    ASSUME NEW R, NEW q \in Seq(R), NEW d \in R, NEW e \in R, NEW t, t = Append(q, d)
    PROVE  Append(t, e) = q \o <<d, e>>
<1>1. t \in Seq(R) /\ <<d, e>> \in Seq(R)  OBVIOUS
<1>2. Append(t, e) \in Seq(R) /\ q \o <<d, e>> \in Seq(R)  BY <1>1
<1>3. Len(Append(t, e)) = Len(q) + 2 /\ Len(q \o <<d, e>>) = Len(q) + 2  BY <1>1
<1>4. ASSUME NEW n \in 1..Len(q) + 2 PROVE Append(t, e)[n] = (q \o <<d, e>>)[n]
  <2>1. CASE n <= Len(q)  BY <1>1, <2>1
  <2>2. CASE n = Len(q) + 1
    <3>1. Append(t, e)[n] = d  BY <1>1, <2>2
    <3>2. (q \o <<d, e>>)[n] = <<d, e>>[1]  BY <1>1, <2>2
    <3> QED  BY <3>1, <3>2
  <2>3. CASE n = Len(q) + 2
    <3>1. Append(t, e)[n] = e  BY <1>1, <2>3
    <3>2. (q \o <<d, e>>)[n] = <<d, e>>[2]  BY <1>1, <2>3
    <3> QED  BY <3>1, <3>2
  <2> QED  BY <2>1, <2>2, <2>3
<1> QED  BY <1>2, <1>3, <1>4, SeqEqual

LEMMA AppendedLast ==
    ASSUME NEW R, NEW q \in Seq(R), NEW e \in R, NEW v, e.version = v, NEW r, r = Append(q, e)
    PROVE  LastIs(q, r, v, e)
<1>1. PICK s : s = <<e>>  OBVIOUS
<1>2. s \in Seq(R)  BY <1>1
<1>3. r = q \o s  BY <1>1
<1> QED  BY <1>1, <1>2, <1>3, AppendedOne

\* The results r are q and deletions of l, or q and an announcement of w.
Removed(q, r, v, l) ==
    \E K : Extended(q, r, v, K) /\ K # {} /\ \A k \in K : Deletes(r, k) /\ r[k].service = l
Added(q, r, v, w) == \E i : Extended(q, r, v, {i}) /\ ~Deletes(r, i) /\ r[i].service = w
Unnamed(q, v, w) == \A n \in About(q, v) : q[n].service # w

LEMMA AppendedDeletes ==
    ASSUME NEW R, NEW q \in Seq(R), NEW s \in Seq(R), NEW v, NEW r, r = q \o s, About(s, v) # {},
           NEW l, \A m \in About(s, v) : s[m].action = "delete" /\ s[m].service = l
    PROVE  Removed(q, r, v, l)
<1>1. Appended(q, s, r, v)  BY AppendExtended
<1>2. PICK K : /\ Extended(q, r, v, K)
               /\ \A k \in K : \E m \in About(s, v) : r[k] = s[m]
               /\ About(s, v) # {} => K # {}
               /\ About(s, v) = {1} => K = {Len(q) + 1}
  BY <1>1 DEF Appended
<1>3. \A k \in K : Deletes(r, k) /\ r[k].service = l
  BY <1>2, Zenon DEF Deletes
<1> QED  BY <1>2, <1>3, Zenon DEF Removed

LEMMA AppendedUpdate ==
    ASSUME NEW R, NEW q \in Seq(R), NEW e \in R, NEW v, e.version = v, NEW r, r = Append(q, e),
           e.action # "delete"
    PROVE  Added(q, r, v, e.service)
<1>1. LastIs(q, r, v, e)  BY AppendedLast
<1> QED  BY <1>1, Zenon DEF LastIs, Added, Deletes

LEMMA AppendedTwo ==
    ASSUME NEW R, NEW q \in Seq(R), NEW d \in R, NEW e \in R, NEW v, d.version = v, e.version = v,
           d.action = "delete", e.action # "delete", NEW r, r = q \o <<d, e>>
    PROVE  \E t : Removed(q, t, v, d.service) /\ Added(t, r, v, e.service)
<1>1. PICK t : t = Append(q, d)  OBVIOUS
<1>2. t \in Seq(R)  BY <1>1
<1>3. r = Append(t, e)  BY <1>1, InTwo
<1>4. LastIs(q, t, v, d)  BY <1>1, AppendedLast
<1>5. PICK k : Extended(q, t, v, {k}) /\ t[k] = d  BY <1>4 DEF LastIs
<1>6. {k} # {} /\ \A j \in {k} : Deletes(t, j) /\ t[j].service = d.service  BY <1>5 DEF Deletes
<1>7. Removed(q, t, v, d.service)  BY <1>5, <1>6, Zenon DEF Removed
<1>8. Added(t, r, v, e.service)  BY <1>2, <1>3, AppendedUpdate
<1> QED  BY <1>7, <1>8, Zenon

\* The chain and the bounds after a deletion, and after an announcement
LEMMA RemovedKeeps ==
    ASSUME NEW q, NEW r, NEW v, NEW c, NEW l, l # None, Chain(q, v, c, l), Removed(q, r, v, l),
           NEW ns, NEW ns2, NEW g, NEW f, Shrunk(q, v, c, l, ns, ns2, g, f), Bounded(q, v, ns, f)
    PROVE  /\ Chain(r, v, c, None) /\ Bounded(r, v, ns2, g)
           /\ EntryBounded(q, v, ns, c, f) => EntryBounded(r, v, ns2, c, g)
           /\ \A w : Unnamed(q, v, w) /\ w # l => Unnamed(r, v, w)
<1>1. PICK K : Extended(q, r, v, K) /\ K # {} /\ \A k \in K : Deletes(r, k) /\ r[k].service = l
  BY DEF Removed
<1>2. \A w : Unnamed(q, v, w) /\ w # l => Unnamed(r, v, w)
  BY <1>1 DEF Unnamed, Extended
<1> QED  BY <1>1, <1>2, ExtendDelete

LEMMA AddedKeeps ==
    ASSUME NEW q, NEW r, NEW v, NEW c, NEW l, Chain(q, v, c, l), NEW w, Added(q, r, v, w), w # c,
           Unnamed(q, v, w), NEW ns, NEW g, ns[w] \subseteq g, Bounded(q, v, ns, g)
    PROVE  /\ Chain(r, v, c, w) /\ Bounded(r, v, ns, g) /\ About(r, v) # {}
           /\ EntryBounded(q, v, ns, c, g) => EntryBounded(r, v, ns, c, g)
<1>1. PICK i : Extended(q, r, v, {i}) /\ ~Deletes(r, i) /\ r[i].service = w  BY DEF Added
<1>2. PICK K : K = {i}  OBVIOUS
<1>3. Extended(q, r, v, K)  BY <1>1, <1>2
<1>4. \A n \in About(q, v) : q[n].service # w  BY DEF Unnamed
<1> QED  BY <1>1, <1>2, <1>3, <1>4, ExtendUpdate

\* A comparison finds nodes that are gone from the watcher's object l: what is left of it is
\* deleted, and the new object w announced.
LEMMA Replaced ==
    ASSUME NEW q, NEW t, NEW r, NEW v, NEW c, NEW l, l # None, Chain(q, v, c, l),
           NEW w, w # c, w # l, Unnamed(q, v, w), Removed(q, t, v, l), Added(t, r, v, w),
           NEW ns, NEW ns2, NEW g, NEW f, Shrunk(q, v, c, l, ns, ns2, g, f), ns2[w] \subseteq g,
           Bounded(q, v, ns, f)
    PROVE  /\ Chain(r, v, c, w) /\ Bounded(r, v, ns2, g) /\ About(r, v) # {}
           /\ EntryBounded(q, v, ns, c, f) => EntryBounded(r, v, ns2, c, g)
<1>1. /\ Chain(t, v, c, None) /\ Bounded(t, v, ns2, g) /\ Unnamed(t, v, w)
      /\ EntryBounded(q, v, ns, c, f) => EntryBounded(t, v, ns2, c, g)
  BY RemovedKeeps
<1>2. /\ Chain(r, v, c, w) /\ Bounded(r, v, ns2, g) /\ About(r, v) # {}
      /\ EntryBounded(t, v, ns2, c, g) => EntryBounded(r, v, ns2, c, g)
  BY <1>1, AddedKeeps
<1> QED  BY <1>1, <1>2

-----------------------------------------------------------------------------
(* The Consul registry, and the types of the watcher *)

USE RegistryAssumption, WatcherAssumption DEF registryVars, handlers, plans, watcherVars, allVars

\* The clients' hashes are of what the agent holds.
RegistryInv == RegistryTypeOK /\ HashIsHeld

LEMMA RegistryInitInv == RegistryInit => RegistryInv
BY DEF RegistryInit, RegistryInv, RegistryTypeOK, HashIsHeld

\* What the agent holds of an instance is changed as a whole.
LEMMA HoldsOf ==
    ASSUME RegistryTypeOK, NEW i \in Instances, NEW e \in Entries \cup {None}, Holds(i, e)
    PROVE  /\ catalogue' \in [Instances -> Entries \cup {None}]
           /\ changes' \in 0..MaxChanges
           /\ catalogue'[i] = e
           /\ \A j \in Instances : j # i => catalogue'[j] = catalogue[j]
BY DEF RegistryTypeOK, Holds

\* Each call of the agent keeps the hashes, whether it fails or not.
LEMMA RegistryStepInv ==
    ASSUME RegistryInv, NEW i \in Instances,
           \/ RegisterPasses(i) \/ RegisterFails(i) \/ ServiceRegister(i)
           \/ PassCheck(i) \/ Deregister(i) \/ CheckTurns(i) \/ Forget(i)
    PROVE  RegistryInv'
<1> USE DEF Entries, Entry
<1>0. RegistryTypeOK  BY DEF RegistryInv
<1>1. ASSUME PassTTL(i)
      PROVE  /\ catalogue' \in [Instances -> Entries \cup {None}]
             /\ changes' \in 0..MaxChanges
             /\ catalogue[i] # None /\ catalogue'[i].version = catalogue[i].version
             /\ \A j \in Instances : j # i => catalogue'[j] = catalogue[j]
  <2>1. catalogue[i] \in Entries /\ catalogue[i] # None
    BY <1>0, <1>1 DEF PassTTL, RegistryTypeOK
  <2>2. [catalogue[i] EXCEPT !.health = "passing"] \in Entries
    BY <2>1
  <2> QED  BY <1>0, <1>1, <2>1, <2>2, HoldsOf DEF PassTTL
<1>2. \A b \in BOOLEAN : [passing EXCEPT ![i] = b] \in [Instances -> BOOLEAN]
  BY <1>0 DEF RegistryTypeOK
<1>3. passing' \in [Instances -> BOOLEAN]
  BY <1>0, <1>2 DEF RegistryTypeOK, RegisterPasses, RegisterFails, ServiceRegister, PassCheck,
                    Deregister, CheckTurns, Forget
<1>4. CASE UNCHANGED <<catalogue, register, unsure, changes>>
  BY <1>3, <1>4 DEF RegistryInv, RegistryTypeOK, HashIsHeld
<1>5. CASE PassTTL(i) /\ UNCHANGED <<register, unsure>>
  BY <1>1, <1>3, <1>5 DEF RegistryInv, RegistryTypeOK, HashIsHeld
<1>6. CASE ServiceRegister(i)
  <2>1. PICK v \in Versions, ttl \in BOOLEAN, h \in {"passing", "critical"} :
           /\ Holds(i, Entry(v, h))
           /\ register' = [register EXCEPT ![i] = v] /\ unsure' = unsure \ {i}
    BY <1>6 DEF ServiceRegister, Registered, RegistryInv, RegistryTypeOK
  <2>2. Entry(v, h) \in Entries /\ Entry(v, h).version = v
    OBVIOUS
  <2> QED  BY <1>0, <1>3, <2>1, <2>2, HoldsOf DEF RegistryInv, RegistryTypeOK, HashIsHeld
<1>7. CASE Deregister(i)
  <2>1. register' = [register EXCEPT ![i] = None] /\ unsure' = unsure \ {i}
    BY <1>7 DEF Deregister
  <2>2. CASE Holds(i, None)
    BY <1>0, <1>3, <2>1, <2>2, HoldsOf DEF RegistryInv, RegistryTypeOK, HashIsHeld
  <2>3. CASE UNCHANGED <<catalogue, changes>>
    BY <1>3, <2>1, <2>3 DEF RegistryInv, RegistryTypeOK, HashIsHeld
  <2> QED  BY <1>7, <2>2, <2>3 DEF Deregister
<1>8. CASE CheckTurns(i)
  <2>1. PICK h \in {"passing", "critical"} : Holds(i, Entry(catalogue[i].version, h))
    BY <1>8 DEF CheckTurns
  <2>2. catalogue[i] \in Entries /\ catalogue[i] # None /\ UNCHANGED <<register, unsure>>
    BY <1>8 DEF CheckTurns, RegistryInv, RegistryTypeOK
  <2>3. /\ Entry(catalogue[i].version, h) \in Entries
        /\ Entry(catalogue[i].version, h).version = catalogue[i].version
    BY <2>2
  <2> QED  BY <1>0, <1>3, <2>1, <2>2, <2>3, HoldsOf DEF RegistryInv, RegistryTypeOK, HashIsHeld
<1>9. CASE Forget(i)
  BY <1>0, <1>3, <1>9, HoldsOf DEF Forget, RegistryInv, RegistryTypeOK, HashIsHeld
<1>10. CASE RegisterFails(i)
  <2>1. ASSUME NEW v \in Versions, NEW ttl \in BOOLEAN, Registered(i, v, ttl), UNCHANGED register,
               unsure' = IF register[i] \in {None, v} THEN unsure ELSE unsure \cup {i}
        PROVE  RegistryInv'
    <3>1. PICK h \in {"passing", "critical"} : Holds(i, Entry(v, h))
      BY <1>0, <2>1 DEF Registered, RegistryTypeOK
    <3>2. Entry(v, h) \in Entries /\ Entry(v, h).version = v
      OBVIOUS
    <3> QED  BY <1>0, <1>3, <2>1, <3>1, <3>2, HoldsOf DEF RegistryInv, RegistryTypeOK, HashIsHeld
  <2> QED  BY <1>4, <1>10, <2>1 DEF RegisterFails
<1> QED  BY <1>4, <1>5, <1>6, <1>7, <1>8, <1>9, <1>10 DEF RegisterPasses, PassCheck

LEMMA RegistryKept == RegistryInv /\ [WatcherNext]_allVars => RegistryInv'
<1> SUFFICES ASSUME RegistryInv, [WatcherNext]_allVars PROVE RegistryInv'
  OBVIOUS
<1>1. CASE RegistryNext
  BY <1>1, RegistryStepInv DEF RegistryNext
<1>2. CASE UNCHANGED registryVars
  BY <1>2 DEF RegistryInv, RegistryTypeOK, HashIsHeld
<1>3. ASSUME NEW p \in Plans, ServiceHandler(p) PROVE UNCHANGED registryVars
  BY <1>3 DEF ServiceHandler, SnapshotArrives, Compare, CompareVersions, Send, Store
<1>4. ASSUME Handle \/ StopPlan \/ HandleSends \/ Lookup \/ NextResult
      PROVE  UNCHANGED registryVars
  BY <1>4 DEF Handle, StopPlan, HandleSends, Lookup, NextResult
<1> QED  BY <1>1, <1>2, <1>3, <1>4 DEF WatcherNext

\* A hash a client keeps is that of what the agent holds, if it holds the instance, for any
\* number of instances, versions, plans and changes, whichever calls fail, unless a failed
\* registration changed what the agent holds (Register's shortcut in consul_registry.go).
THEOREM HashHeld == WatcherSpec => []HashIsHeld
<1>1. WatcherInit => RegistryInv
  BY RegistryInitInv DEF WatcherInit
<1>2. RegistryInv => HashIsHeld
  BY DEF RegistryInv
<1> QED  BY <1>1, <1>2, RegistryKept, PTL DEF WatcherSpec

-----------------------------------------------------------------------------
Paired(q) == \A n \in 1..Len(q) : q[n].version = None <=> q[n].service = None

\* Types, and what a handler's loop works on
Flags == listed \in BOOLEAN /\ emptied \in BOOLEAN /\ ahead \in BOOLEAN
ObjectsTyped == /\ nodes \in [Objects -> SUBSET Instances]
                /\ services \in Maps \cup {None} /\ cached \in Maps \cup {None}
PlansTyped == /\ watcher \in Plans \cup {NoPlan}
              /\ mainPc \in {"idle", "sendCreate", "stop", "sendDelete"}
              /\ plan \in [Plans -> {"off", "running", "stopped"}]
HandlersTyped ==
    /\ pc \in [Plans -> {"idle", "loop", "store"}]
    /\ new \in [Plans -> Maps] /\ old \in [Plans -> Maps \cup {None}]
    /\ todo \in [Plans -> SUBSET Versions]
    /\ DOMAIN seen = Plans
    /\ \A p \in Plans : /\ pc[p] # "loop" => todo[p] = {}
                        /\ \A v \in todo[p] : new[p][v] # None
QueuesTyped ==
    /\ next \in Seq(Results) /\ Paired(next) /\ Len(next) <= Cap
    /\ out \in [Plans -> Seq(Results)] /\ \A p \in Plans : Paired(out[p])
ConsulTyped == RegistryInv /\ Flags /\ ObjectsTyped /\ PlansTyped /\ HandlersTyped /\ QueuesTyped

LEMMA KnownVersions == Known \subseteq Versions
BY DEF Known

LEMMA NoNullObject == \A o \in Unused : o \in Objects /\ o # None
BY DEF Unused

\* New objects are referred to by nothing, and each version gets its own.
LEMMA AllocateIs ==
    ASSUME NEW V \in SUBSET Versions, Free(V) # {}
    PROVE  /\ Allocate(V) \in Maps
           /\ \A v \in V : Allocate(V)[v] \in Unused
           /\ \A v \in Versions \ V : Allocate(V)[v] = None
           /\ \A v, w \in V : Allocate(V)[v] = Allocate(V)[w] => v = w
<1> DEFINE f == CHOOSE f \in Free(V) : TRUE
<1>1. f \in Free(V)
  OBVIOUS
<1>2. f \in [V -> Unused] /\ \A v, w \in V : f[v] = f[w] => v = w
  BY <1>1 DEF Free
<1>3. Allocate(V) = [v \in Versions |-> IF v \in V THEN f[v] ELSE None]
  BY DEF Allocate
<1> HIDE DEF f
<1> QED  BY <1>2, <1>3, NoNullObject DEF Maps

\* They hold the healthy instances, and no other object changes.
LEMMA FilledIs ==
    ASSUME nodes \in [Objects -> SUBSET Instances], NEW V \in SUBSET Versions, Free(V) # {},
           NEW m, m = Allocate(V)
    PROVE  /\ Filled(m) \in [Objects -> SUBSET Instances]
           /\ \A o \in Objects : o \notin Unused => Filled(m)[o] = nodes[o]
           /\ \A v \in V : Filled(m)[m[v]] = Healthy(v)
<1>1. \A v : Healthy(v) \subseteq Instances
  BY DEF Healthy
<1>2. \A o \in Objects : UNION {Healthy(v) : v \in {w \in Versions : m[w] = o}} \subseteq Instances
  BY <1>1
<1>3. \A o \in Objects : Filled(m)[o] =
         IF o \notin Unused THEN nodes[o]
         ELSE UNION {Healthy(v) : v \in {w \in Versions : m[w] = o}}
  BY DEF Filled
<1>4. Filled(m) \in [Objects -> SUBSET Instances]
  BY <1>2 DEF Filled
<1>5. ASSUME NEW v \in V PROVE Filled(m)[m[v]] = Healthy(v)
  <2>1. m[v] \in Unused /\ m[v] \in Objects /\ m[v] # None  BY AllocateIs, NoNullObject
  <2>2. ASSUME NEW w \in Versions PROVE m[w] = m[v] <=> w = v
    BY <2>1, AllocateIs
  <2>3. {w \in Versions : m[w] = m[v]} = {v}  BY <2>2
  <2> QED  BY <1>3, <2>1, <2>3
<1> QED  BY <1>3, <1>4, <1>5

\* What the cache does with a result, case by case
Took(r) ==
    \/ cached = None /\ UNCHANGED <<cached, nodes>>
    \/ /\ cached # None /\ (r.service = None \/ nodes[r.service] = {}) /\ r.action = "delete"
       /\ cached' = None /\ nodes' = nodes
    \/ /\ cached # None /\ (r.service = None \/ nodes[r.service] = {}) /\ r.action # "delete"
       /\ UNCHANGED <<cached, nodes>>
    \/ /\ cached # None /\ r.service # None /\ nodes[r.service] # {}
       /\ \/ r.action = "delete" /\ cached[r.version] = None /\ UNCHANGED <<cached, nodes>>
          \/ /\ r.action = "delete" /\ cached[r.version] # None /\ UNCHANGED cached
             /\ nodes' = [nodes EXCEPT ![cached[r.version]] = @ \ nodes[r.service]]
          \/ /\ r.action = "delete" /\ cached[r.version] # None /\ UNCHANGED nodes
             /\ cached' = None \/ cached' = [cached EXCEPT ![r.version] = None]
          \/ /\ r.action # "delete" /\ cached' = [cached EXCEPT ![r.version] = r.service]
             /\ \/ cached[r.version] = None /\ UNCHANGED nodes
                \/ /\ cached[r.version] # None
                   /\ nodes' = [nodes EXCEPT ![r.service] = @ \cup nodes[cached[r.version]]]

LEMMA AppliedIs ==
    ASSUME NEW r
    PROVE  LET cur == cached[r.version]
               rest == nodes[cur] \ nodes[r.service]
               some == cached # None /\ r.service # None /\ nodes[r.service] # {}
           IN  /\ cached = None => Applied(r) = <<cached, nodes>>
               /\ cached # None /\ (r.service = None \/ nodes[r.service] = {}) =>
                     Applied(r) = <<IF r.action = "delete" THEN None ELSE cached, nodes>>
               /\ some /\ r.action = "delete" /\ cur = None => Applied(r) = <<cached, nodes>>
               /\ some /\ r.action = "delete" /\ cur # None /\ rest # {} =>
                     Applied(r) = <<cached, [nodes EXCEPT ![cur] = rest]>>
               /\ some /\ r.action = "delete" /\ cur # None /\ rest = {} =>
                     \/ Applied(r) = <<None, nodes>>
                     \/ Applied(r) = <<[cached EXCEPT ![r.version] = None], nodes>>
               /\ some /\ r.action # "delete" => Applied(r) =
                     <<[cached EXCEPT ![r.version] = r.service],
                       IF cur = None THEN nodes ELSE [nodes EXCEPT ![r.service] = @ \cup nodes[cur]]>>
<1>1. ASSUME cached = None PROVE Applied(r) = <<cached, nodes>>
  BY <1>1 DEF Applied
<1>2. ASSUME cached # None, r.service = None \/ nodes[r.service] = {}
      PROVE  Applied(r) = <<IF r.action = "delete" THEN None ELSE cached, nodes>>
  BY <1>2 DEF Applied
<1> DEFINE cur == cached[r.version]
           rest == nodes[cur] \ nodes[r.service]
           others == [cached EXCEPT ![r.version] = None]
<1>3. ASSUME cached # None, r.service # None, nodes[r.service] # {}
      PROVE  Applied(r) =
                CASE r.action = "delete" /\ cur = None -> <<cached, nodes>>
                  [] r.action = "delete" /\ cur # None /\ rest # {} ->
                        <<cached, [nodes EXCEPT ![cur] = rest]>>
                  [] r.action = "delete" /\ cur # None /\ rest = {} ->
                        <<IF others = NoMap THEN None ELSE others, nodes>>
                  [] r.action # "delete" ->
                        <<[cached EXCEPT ![r.version] = r.service],
                          IF cur = None THEN nodes
                          ELSE [nodes EXCEPT ![r.service] = @ \cup nodes[cur]]>>
  BY <1>3 DEF Applied
<1> QED  BY <1>1, <1>2, <1>3

\* NextResult is one of these cases.
LEMMA TookHead == ASSUME NextResult PROVE Took(Head(next))
<1>0. PICK r : r = Head(next)
  OBVIOUS
<1>1. cached' = Applied(r)[1] /\ nodes' = Applied(r)[2]
  BY <1>0 DEF NextResult
<1>2. CASE cached = None
  BY <1>0, <1>1, <1>2, AppliedIs DEF Took
<1>3. CASE cached # None /\ (r.service = None \/ nodes[r.service] = {})
  <2>1. Applied(r) = <<IF r.action = "delete" THEN None ELSE cached, nodes>>  BY <1>3, AppliedIs
  <2> QED  BY <1>0, <1>1, <1>3, <2>1 DEF Took
<1>4. CASE cached # None /\ r.service # None /\ nodes[r.service] # {}
  <2>1. CASE r.action = "delete" /\ cached[r.version] = None
    <3>1. Applied(r) = <<cached, nodes>>  BY <1>4, <2>1, AppliedIs
    <3> QED  BY <1>0, <1>1, <1>4, <2>1, <3>1 DEF Took
  <2>2. CASE /\ r.action = "delete" /\ cached[r.version] # None
             /\ nodes[cached[r.version]] \ nodes[r.service] # {}
    <3>1. Applied(r) = <<cached, [nodes EXCEPT ![cached[r.version]] = @ \ nodes[r.service]]>>
      BY <1>4, <2>2, AppliedIs
    <3> QED  BY <1>0, <1>1, <1>4, <2>2, <3>1 DEF Took
  <2>3. CASE /\ r.action = "delete" /\ cached[r.version] # None
             /\ nodes[cached[r.version]] \ nodes[r.service] = {}
    <3>1. \/ Applied(r) = <<None, nodes>>
          \/ Applied(r) = <<[cached EXCEPT ![r.version] = None], nodes>>
      BY <1>4, <2>3, AppliedIs
    <3> QED  BY <1>0, <1>1, <1>4, <2>3, <3>1 DEF Took
  <2>4. CASE r.action # "delete"
    <3>1. Applied(r) =
            <<[cached EXCEPT ![r.version] = r.service],
              IF cached[r.version] = None THEN nodes
              ELSE [nodes EXCEPT ![r.service] = @ \cup nodes[cached[r.version]]]>>
      BY <1>4, <2>4, AppliedIs
    <3> QED  BY <1>0, <1>1, <1>4, <2>4, <3>1 DEF Took
  <2> QED  BY <2>1, <2>2, <2>3, <2>4
<1> QED  BY <1>2, <1>3, <1>4

\* The fields of a result, and results in sequences
LEMMA ResultOf ==
    ASSUME NEW a \in {"create", "update", "delete"}, NEW v \in Versions \cup {None},
           NEW o \in Objects \cup {None}
    PROVE  /\ Result(a, v, o) \in Results /\ Result(a, v, o).action = a
           /\ Result(a, v, o).version = v /\ Result(a, v, o).service = o
BY DEF Result, Results

LEMMA PairedOf ==
    ASSUME NEW q \in Seq(Results), Paired(q), NEW r \in Results, r.version = None <=> r.service = None
    PROVE  /\ Append(q, r) \in Seq(Results) /\ Paired(Append(q, r))
           /\ q # <<>> => /\ Tail(q) \in Seq(Results) /\ Paired(Tail(q)) /\ Head(q) \in Results
                          /\ Head(q).version = None <=> Head(q).service = None
<1>1. Append(q, r) \in Seq(Results) /\ Paired(Append(q, r))
  <2>1. Len(Append(q, r)) = Len(q) + 1 /\ Len(q) \in Nat
    OBVIOUS
  <2>2. ASSUME NEW n \in 1..Len(q) + 1 PROVE Append(q, r)[n] = IF n = Len(q) + 1 THEN r ELSE q[n]
    OBVIOUS
  <2> QED  BY <2>1, <2>2 DEF Paired
<1>2. ASSUME q # <<>> PROVE Tail(q) \in Seq(Results) /\ Paired(Tail(q))
  <2>1. Len(Tail(q)) = Len(q) - 1 /\ Len(q) \in Nat
    BY <1>2
  <2>2. ASSUME NEW n \in 1..Len(Tail(q)) PROVE Tail(q)[n] = q[n + 1] /\ n + 1 \in 1..Len(q)
    BY <1>2
  <2> QED  BY <1>2, <2>1, <2>2 DEF Paired
<1>3. ASSUME q # <<>> PROVE Head(q) = q[1] /\ 1 \in 1..Len(q)
  BY <1>3
<1> QED  BY <1>1, <1>2, <1>3 DEF Paired

LEMMA ResultSeqs ==
    ASSUME NEW r \in Results, r.version # None, r.service # None,
           NEW s \in Results, s.version # None, s.service # None
    PROVE  /\ <<r>> \in Seq(Results) /\ Paired(<<r>>)
           /\ <<r, s>> \in Seq(Results) /\ Paired(<<r, s>>)
BY DEF Paired

\* The types, part by part
LEMMA TypedIs == ConsulTyped => WatcherTypeOK
<1> SUFFICES ASSUME ConsulTyped PROVE WatcherTypeOK
  OBVIOUS
<1> QED  BY Zenon DEF ConsulTyped, RegistryInv, Flags, ObjectsTyped, PlansTyped, HandlersTyped,
                      QueuesTyped, WatcherTypeOK

LEMMA TypedInit == WatcherInit => ConsulTyped
<1> SUFFICES ASSUME WatcherInit PROVE ConsulTyped
  OBVIOUS
<1>1. RegistryInv  BY RegistryInitInv DEF WatcherInit
<1>2. NoMap \in Maps  BY DEF NoMap, Maps
<1>3. Paired(<<>>) /\ <<>> \in Seq(Results) /\ Len(<<>>) <= Cap  BY DEF Paired
<1>4. Flags  BY Zenon DEF WatcherInit, Flags
<1>5. ObjectsTyped /\ PlansTyped /\ HandlersTyped
  BY <1>2 DEF WatcherInit, ObjectsTyped, PlansTyped, HandlersTyped
<1>6. QueuesTyped  BY <1>3 DEF WatcherInit, QueuesTyped
<1> QED  BY <1>1, <1>4, <1>5, <1>6 DEF ConsulTyped

LEMMA FlagsKept == Flags /\ [WatcherNext]_allVars => Flags'
<1> SUFFICES ASSUME Flags, [WatcherNext]_allVars PROVE Flags'
  OBVIOUS
<1>1. listed' \in BOOLEAN
  BY Zenon DEF Flags, WatcherNext, Handle, StopPlan, HandleSends, Lookup, NextResult, ServiceHandler,
               SnapshotArrives, Compare, CompareVersions, Send, Store
<1>2. emptied' \in BOOLEAN
  BY Zenon DEF Flags, WatcherNext, Handle, StopPlan, HandleSends, Lookup, NextResult, ServiceHandler,
               SnapshotArrives, Compare, CompareVersions, Send, Store
<1>3. ahead' \in BOOLEAN
  BY Zenon DEF Flags, WatcherNext, Handle, StopPlan, HandleSends, Lookup, NextResult, ServiceHandler,
               SnapshotArrives, Compare, CompareVersions, Send, Store
<1> QED  BY <1>1, <1>2, <1>3, Zenon DEF Flags

LEMMA PlansKept == PlansTyped /\ [WatcherNext]_allVars => PlansTyped'
<1> SUFFICES ASSUME PlansTyped, [WatcherNext]_allVars PROVE PlansTyped'
  OBVIOUS
<1>1. CASE Handle
  <2>1. CASE listed'
    <3>1. /\ \E p \in Plans : plan[p] = "off"
          /\ watcher' = CHOOSE p \in Plans : plan[p] = "off"
          /\ plan' = [plan EXCEPT ![watcher'] = "running"] /\ mainPc' = "sendCreate"
      BY <1>1, <2>1, Zenon DEF Handle
    <3>2. watcher' \in Plans  BY <3>1
    <3> QED  BY <3>1, <3>2 DEF PlansTyped
  <2>2. CASE ~listed'
    <3>1. mainPc' = "stop" /\ UNCHANGED <<plan, watcher>>
      BY <1>1, <2>2, Zenon DEF Handle
    <3> QED  BY <3>1 DEF PlansTyped
  <2> QED  BY <2>1, <2>2
<1>2. CASE StopPlan
  BY <1>2 DEF StopPlan, PlansTyped
<1>3. CASE HandleSends
  BY <1>3 DEF HandleSends, PlansTyped
<1>4. CASE UNCHANGED <<plan, watcher, mainPc>>
  BY <1>4 DEF PlansTyped
<1>5. ASSUME NEW p \in Plans, ServiceHandler(p) PROVE UNCHANGED <<plan, watcher, mainPc>>
  BY <1>5 DEF ServiceHandler, SnapshotArrives, Compare, CompareVersions, Send, Store
<1>6. ASSUME Lookup \/ NextResult PROVE UNCHANGED <<plan, watcher, mainPc>>
  BY <1>6 DEF Lookup, NextResult
<1> QED  BY <1>1, <1>2, <1>3, <1>4, <1>5, <1>6 DEF WatcherNext

\* What Compare does with version v
Compares(p, v) ==
    LET o == IF old[p] = None THEN None ELSE old[p][v]
        gone == IF o = None THEN {} ELSE nodes[o] \ nodes[new[p][v]]
        a == IF o = None THEN "create" ELSE "update"
    IN  /\ pc[p] = "loop" /\ out[p] = <<>> /\ v \in todo[p]
        /\ todo' = [todo EXCEPT ![p] = @ \ {v}]
        /\ \/ /\ gone = {} /\ UNCHANGED nodes
              /\ out' = [out EXCEPT ![p] = <<Result(a, v, new[p][v])>>]
           \/ /\ gone # {} /\ o # None /\ nodes' = [nodes EXCEPT ![o] = gone]
              /\ out' = [out EXCEPT ![p] = <<Result("delete", v, o), Result(a, v, new[p][v])>>]
        /\ UNCHANGED <<registryVars, services, plans, pc, new, old, seen, next, cached, emptied, ahead>>

\* Compare is the comparison of one version.
LEMMA CompareIs == ASSUME NEW p, Compare(p) PROVE \E v \in todo[p] : Compares(p, v)
<1>1. PICK v \in todo[p] :
          LET o == IF old[p] = None THEN None ELSE old[p][v]
              gone == IF o = None THEN {} ELSE nodes[o] \ nodes[new[p][v]]
          IN  /\ todo' = [todo EXCEPT ![p] = @ \ {v}]
              /\ nodes' = IF gone = {} THEN nodes ELSE [nodes EXCEPT ![o] = gone]
              /\ out' = [out EXCEPT ![p] =
                    (IF gone = {} THEN <<>> ELSE <<Result("delete", v, o)>>)
                    \o <<Result(IF o = None THEN "create" ELSE "update", v, new[p][v])>>]
  BY DEF Compare
<1> DEFINE o == IF old[p] = None THEN None ELSE old[p][v]
           gone == IF o = None THEN {} ELSE nodes[o] \ nodes[new[p][v]]
           a == IF o = None THEN "create" ELSE "update"
<1>2. /\ todo' = [todo EXCEPT ![p] = @ \ {v}]
      /\ nodes' = IF gone = {} THEN nodes ELSE [nodes EXCEPT ![o] = gone]
      /\ out' = [out EXCEPT ![p] = (IF gone = {} THEN <<>> ELSE <<Result("delete", v, o)>>)
                                   \o <<Result(a, v, new[p][v])>>]
  BY <1>1
<1>3. CASE gone = {}
  <2>1. out' = [out EXCEPT ![p] = <<Result(a, v, new[p][v])>>] /\ UNCHANGED nodes
    BY <1>2, <1>3, ShortSeqs
  <2> QED  BY <1>2, <1>3, <2>1 DEF Compare, Compares
<1>4. CASE gone # {}
  <2>1. /\ out' = [out EXCEPT ![p] = <<Result("delete", v, o), Result(a, v, new[p][v])>>]
        /\ nodes' = [nodes EXCEPT ![o] = gone] /\ o # None
    BY <1>2, <1>4, ShortSeqs
  <2> QED  BY <1>2, <1>4, <2>1 DEF Compare, Compares
<1> QED  BY <1>3, <1>4

LEMMA CompareTypes ==
    ASSUME ConsulTyped, NEW p \in Plans, NEW v \in todo[p]
    PROVE  /\ v \in Versions /\ new[p][v] \in Objects /\ new[p][v] # None
           /\ (IF old[p] = None THEN None ELSE old[p][v]) \in Objects \cup {None}
BY DEF ConsulTyped, HandlersTyped, Maps

LEMMA ObjectsKept == ConsulTyped /\ [WatcherNext]_allVars => ObjectsTyped'
<1> SUFFICES ASSUME ConsulTyped, [WatcherNext]_allVars PROVE ObjectsTyped'
  OBVIOUS
<1>0. ObjectsTyped  BY DEF ConsulTyped
<1>1. CASE UNCHANGED <<nodes, services, cached>>
  BY <1>0, <1>1 DEF ObjectsTyped
<1>2. CASE Handle
  BY <1>0, <1>2 DEF Handle, ObjectsTyped
<1>3. CASE Lookup
  <2>1. PICK m : /\ m = Allocate(Known) /\ cached' = m /\ nodes' = Filled(m) /\ Free(Known) # {}
                 /\ UNCHANGED services
    BY <1>3 DEF Lookup
  <2> QED  BY <1>0, <2>1, AllocateIs, FilledIs, KnownVersions DEF ObjectsTyped
<1>4. CASE NextResult
  <2>0. PICK r : r = Head(next)
    OBVIOUS
  <2>1. Took(r) /\ next # <<>> /\ UNCHANGED services
    BY <1>4, <2>0, TookHead DEF NextResult
  <2>2. r \in Results /\ (r.version = None <=> r.service = None)
    <3>1. Head(next) = next[1] /\ 1 \in 1..Len(next)  BY <2>1 DEF ConsulTyped, QueuesTyped
    <3>2. next[1] \in Results  BY <3>1 DEF ConsulTyped, QueuesTyped
    <3> QED  BY <2>0, <3>1, <3>2 DEF ConsulTyped, QueuesTyped, Paired
  <2>3. CASE r.service = None \/ cached = None
    BY <1>0, <2>1, <2>3 DEF Took, ObjectsTyped
  <2>4. CASE r.service # None /\ cached # None
    <3>1. r.version \in Versions /\ r.service \in Objects /\ r.action \in {"create", "update", "delete"}
      BY <2>2, <2>4 DEF Results
    <3>2. cached \in Maps /\ nodes \in [Objects -> SUBSET Instances]  BY <1>0, <2>4 DEF ObjectsTyped
    <3>3. cached' \in Maps \cup {None}
      BY <2>1, <3>1, <3>2 DEF Took, Maps
    <3>4. cached[r.version] # None => cached[r.version] \in Objects  BY <3>1, <3>2 DEF Maps
    <3>5. nodes' \in [Objects -> SUBSET Instances]
      <4>1. CASE nodes' = nodes  BY <3>2, <4>1
      <4>2. CASE /\ cached[r.version] # None
                 /\ nodes' = [nodes EXCEPT ![cached[r.version]] = @ \ nodes[r.service]]
        BY <3>2, <3>4, <4>2
      <4>3. CASE /\ cached[r.version] # None
                 /\ nodes' = [nodes EXCEPT ![r.service] = @ \cup nodes[cached[r.version]]]
        BY <3>1, <3>2, <3>4, <4>3
      <4> QED  BY <2>1, <2>4, <4>1, <4>2, <4>3 DEF Took
    <3> QED  BY <1>0, <2>1, <3>3, <3>5 DEF ObjectsTyped
  <2> QED  BY <2>3, <2>4
<1>5. ASSUME NEW p \in Plans, SnapshotArrives(p) PROVE ObjectsTyped'
  <2>1. CASE Known = {}
    BY <1>0, <1>5, <2>1 DEF SnapshotArrives, ObjectsTyped
  <2>2. CASE Known # {}
    <3>1. PICK m : /\ m = Allocate(Known) /\ nodes' = Filled(m) /\ Free(Known) # {}
                   /\ UNCHANGED <<services, cached>>
      BY <1>5, <2>2 DEF SnapshotArrives
    <3> QED  BY <1>0, <3>1, FilledIs, KnownVersions DEF ObjectsTyped
  <2> QED  BY <2>1, <2>2
<1>6. ASSUME NEW p \in Plans, Compare(p) PROVE ObjectsTyped'
  <2>1. PICK v \in todo[p] : Compares(p, v)
    BY <1>6, CompareIs
  <2> QED  BY <1>0, <2>1, CompareTypes DEF Compares, ObjectsTyped
<1>7. ASSUME NEW p \in Plans, Store(p) PROVE ObjectsTyped'
  BY <1>0, <1>7 DEF Store, ObjectsTyped, ConsulTyped, HandlersTyped
<1>8. ASSUME NEW p \in Plans, CompareVersions(p) \/ Send(p) PROVE UNCHANGED <<nodes, services, cached>>
  BY <1>8 DEF CompareVersions, Send
<1>9. ASSUME StopPlan \/ HandleSends PROVE UNCHANGED <<nodes, services, cached>>
  BY <1>9 DEF StopPlan, HandleSends
<1> QED  BY <1>1, <1>2, <1>3, <1>4, <1>5, <1>6, <1>7, <1>8, <1>9 DEF WatcherNext, ServiceHandler

LEMMA HandlersKept == ConsulTyped /\ [WatcherNext]_allVars => HandlersTyped'
<1> SUFFICES ASSUME ConsulTyped, [WatcherNext]_allVars PROVE HandlersTyped'
  OBVIOUS
<1>0. HandlersTyped /\ ObjectsTyped  BY DEF ConsulTyped
<1>1. CASE UNCHANGED <<pc, new, old, todo, seen>>
  BY <1>0, <1>1 DEF HandlersTyped
<1>2. ASSUME NEW p \in Plans, SnapshotArrives(p) PROVE HandlersTyped'
  <2>1. CASE Known = {}
    BY <1>0, <1>2, <2>1 DEF SnapshotArrives, HandlersTyped
  <2>2. CASE Known # {}
    <3>1. PICK m : /\ m = Allocate(Known) /\ new' = [new EXCEPT ![p] = m] /\ Free(Known) # {}
                   /\ old' = [old EXCEPT ![p] = services] /\ todo' = [todo EXCEPT ![p] = Known]
                   /\ pc' = [pc EXCEPT ![p] = "loop"] /\ seen' = [seen EXCEPT ![p] = Snapshot]
      BY <1>2, <2>2 DEF SnapshotArrives
    <3>2. m \in Maps /\ \A v \in Known : m[v] # None
      BY <3>1, AllocateIs, KnownVersions, NoNullObject
    <3> QED  BY <1>0, <3>1, <3>2, KnownVersions DEF HandlersTyped, ObjectsTyped
  <2> QED  BY <2>1, <2>2
<1>3. ASSUME NEW p \in Plans, Compare(p) PROVE HandlersTyped'
  <2>1. PICK v \in todo[p] : Compares(p, v)
    BY <1>3, CompareIs
  <2>2. /\ pc[p] = "loop" /\ todo' = [todo EXCEPT ![p] = @ \ {v}]
        /\ UNCHANGED <<pc, new, old, seen>>
    BY <2>1 DEF Compares
  <2> QED  BY <1>0, <2>2 DEF HandlersTyped
<1>4. ASSUME NEW p \in Plans, CompareVersions(p) PROVE HandlersTyped'
  <2>1. /\ todo[p] = {} /\ pc' = [pc EXCEPT ![p] = "store"] /\ UNCHANGED <<new, old, todo, seen>>
    BY <1>4 DEF CompareVersions
  <2> QED  BY <1>0, <2>1 DEF HandlersTyped
<1>5. ASSUME NEW p \in Plans, Store(p) PROVE HandlersTyped'
  <2>1. NoMap \in Maps  BY DEF NoMap, Maps
  <2>2. /\ pc[p] = "store" /\ pc' = [pc EXCEPT ![p] = "idle"] /\ new' = [new EXCEPT ![p] = NoMap]
        /\ old' = [old EXCEPT ![p] = None] /\ UNCHANGED <<todo, seen>>
    BY <1>5 DEF Store
  <2> QED  BY <1>0, <2>1, <2>2 DEF HandlersTyped
<1>6. ASSUME NEW p \in Plans, Send(p) PROVE UNCHANGED <<pc, new, old, todo, seen>>
  BY <1>6 DEF Send
<1>7. ASSUME Handle \/ StopPlan \/ HandleSends \/ Lookup \/ NextResult
      PROVE  UNCHANGED <<pc, new, old, todo, seen>>
  BY <1>7 DEF Handle, StopPlan, HandleSends, Lookup, NextResult
<1> QED  BY <1>1, <1>2, <1>3, <1>4, <1>5, <1>6, <1>7 DEF WatcherNext, ServiceHandler

\* The deletions of the versions that are gone
Gone(p) == {v \in Versions : old[p] # None /\ old[p][v] # None /\ new[p][v] = None}

LEMMA GoneSent ==
    ASSUME ConsulTyped, NEW p \in Plans, CompareVersions(p)
    PROVE  \E s \in Seq(Results) :
               /\ Paired(s) /\ out' = [out EXCEPT ![p] = s]
               /\ \A n \in 1..Len(s) : /\ s[n].version \in Gone(p) /\ s[n].action = "delete"
                                       /\ s[n].service = old[p][s[n].version]
               /\ \A v \in Gone(p) : \E n \in 1..Len(s) : s[n].version = v
<1>1. PICK f \in [1..Cardinality(Gone(p)) -> Gone(p)] :
          /\ \A v \in Gone(p) : \E n \in DOMAIN f : f[n] = v
          /\ out' = [out EXCEPT ![p] = [n \in DOMAIN f |-> Result("delete", f[n], old[p][f[n]])]]
  BY DEF CompareVersions, Gone
<1>2. Cardinality(Gone(p)) \in Nat
  BY FS_Subset, FS_CardinalityType DEF Gone
<1>3. PICK k \in Nat : k = Cardinality(Gone(p))  BY <1>2
<1>4. \A v \in Gone(p) : v \in Versions /\ v # None /\ old[p][v] \in Objects /\ old[p][v] # None
  BY DEF ConsulTyped, HandlersTyped, Maps, Gone
<1>5. PICK s : s = [n \in 1..k |-> Result("delete", f[n], old[p][f[n]])]
  OBVIOUS
<1>6. out' = [out EXCEPT ![p] = s]
  BY <1>1, <1>3, <1>5
<1>7. ASSUME NEW n \in 1..k
      PROVE  /\ s[n] \in Results /\ s[n].version = f[n] /\ f[n] \in Gone(p)
             /\ s[n].action = "delete" /\ s[n].service = old[p][f[n]]
             /\ s[n].version # None /\ s[n].service # None
  <2>1. f[n] \in Gone(p)  BY <1>1, <1>3
  <2>2. s[n] = Result("delete", f[n], old[p][f[n]])  BY <1>5
  <2> QED  BY <1>4, <2>1, <2>2, ResultOf
<1>8. s \in Seq(Results) /\ Len(s) = k
  BY <1>5, <1>7
<1>9. \A v \in Gone(p) : \E n \in 1..k : s[n].version = v
  BY <1>1, <1>3, <1>7
<1>10. Paired(s)
  BY <1>7, <1>8 DEF Paired
<1>11. \A n \in 1..Len(s) : /\ s[n].version \in Gone(p) /\ s[n].action = "delete"
                           /\ s[n].service = old[p][s[n].version]
  BY <1>7, <1>8
<1>12. \A v \in Gone(p) : \E n \in 1..Len(s) : s[n].version = v
  BY <1>8, <1>9
<1>13. s \in Seq(Results)
  BY <1>8
<1> QED  BY <1>6, <1>10, <1>11, <1>12, <1>13, Zenon

LEMMA QueuesKept == ConsulTyped /\ [WatcherNext]_allVars => QueuesTyped'
<1> SUFFICES ASSUME ConsulTyped, [WatcherNext]_allVars PROVE QueuesTyped'
  OBVIOUS
<1>0. QueuesTyped  BY DEF ConsulTyped
<1>1. CASE UNCHANGED <<next, out>>
  BY <1>0, <1>1 DEF QueuesTyped, Paired
<1>2. ASSUME NEW r \in Results, r.version = None <=> r.service = None, Len(next) < Cap,
             next' = Append(next, r)
      PROVE  next' \in Seq(Results) /\ Paired(next') /\ Len(next') <= Cap
  <2>1. next' \in Seq(Results) /\ Paired(next')
    BY <1>0, <1>2, PairedOf DEF QueuesTyped
  <2> QED  BY <1>0, <1>2, <2>1 DEF QueuesTyped
<1>3. ASSUME NEW p \in Plans, NEW s \in Seq(Results), Paired(s), out' = [out EXCEPT ![p] = s]
      PROVE  out' \in [Plans -> Seq(Results)] /\ \A w \in Plans : Paired(out'[w])
  BY <1>0, <1>3 DEF QueuesTyped
<1>4. CASE HandleSends
  <2>1. PICK a \in {"create", "delete"} : next' = Append(next, Result(a, None, None))
    BY <1>4 DEF HandleSends
  <2>2. Len(next) < Cap /\ UNCHANGED out
    BY <1>4 DEF HandleSends
  <2> QED  BY <1>0, <1>2, <2>1, <2>2, ResultOf DEF QueuesTyped
<1>5. CASE NextResult
  <2>1. next # <<>> /\ next' = Tail(next) /\ UNCHANGED out
    BY <1>5 DEF NextResult
  <2>2. next' \in Seq(Results) /\ Paired(next')
    <3>1. PICK r \in Results : r.version = None <=> r.service = None
      BY ResultOf
    <3> QED  BY <1>0, <2>1, <3>1, PairedOf DEF QueuesTyped
  <2> QED  BY <1>0, <2>1, <2>2 DEF QueuesTyped
<1>6. ASSUME NEW p \in Plans, Compare(p) PROVE QueuesTyped'
  <2>1. PICK v \in todo[p] : Compares(p, v)
    BY <1>6, CompareIs
  <2>2. PICK s \in Seq(Results) : Paired(s) /\ out' = [out EXCEPT ![p] = s]
    <3>1. PICK o, a : /\ o = (IF old[p] = None THEN None ELSE old[p][v])
                      /\ a = (IF o = None THEN "create" ELSE "update")
      OBVIOUS
    <3>2. /\ Result(a, v, new[p][v]) \in Results /\ Result(a, v, new[p][v]).version # None
          /\ Result(a, v, new[p][v]).service # None
      BY <3>1, CompareTypes, ResultOf
    <3>3. o # None => /\ Result("delete", v, o) \in Results /\ Result("delete", v, o).version # None
                      /\ Result("delete", v, o).service # None
      BY <3>1, CompareTypes, ResultOf
    <3>4. CASE out' = [out EXCEPT ![p] = <<Result(a, v, new[p][v])>>]
      BY <3>2, <3>4, ResultSeqs
    <3>5. CASE o # None /\ out' = [out EXCEPT ![p] = <<Result("delete", v, o), Result(a, v, new[p][v])>>]
      BY <3>2, <3>3, <3>5, ResultSeqs
    <3> QED  BY <2>1, <3>1, <3>4, <3>5 DEF Compares
  <2>3. UNCHANGED next
    BY <2>1 DEF Compares
  <2> QED  BY <1>0, <1>3, <2>2, <2>3 DEF QueuesTyped
<1>7. ASSUME NEW p \in Plans, CompareVersions(p) PROVE QueuesTyped'
  <2>1. UNCHANGED next
    BY <1>7 DEF CompareVersions
  <2>2. PICK s \in Seq(Results) : Paired(s) /\ out' = [out EXCEPT ![p] = s]
    BY <1>7, GoneSent
  <2> QED  BY <1>0, <1>3, <2>1, <2>2 DEF QueuesTyped
<1>8. ASSUME NEW p \in Plans, Send(p) PROVE QueuesTyped'
  <2>1. /\ out[p] # <<>> /\ Len(next) < Cap /\ next' = Append(next, Head(out[p]))
        /\ out' = [out EXCEPT ![p] = Tail(out[p])]
    BY <1>8 DEF Send
  <2>2. PICK r \in Results : r.version = None <=> r.service = None
    BY ResultOf
  <2>3. out[p] \in Seq(Results) /\ Paired(out[p])
    BY <1>0 DEF QueuesTyped
  <2>4. /\ Tail(out[p]) \in Seq(Results) /\ Paired(Tail(out[p])) /\ Head(out[p]) \in Results
        /\ Head(out[p]).version = None <=> Head(out[p]).service = None
    BY <2>1, <2>2, <2>3, PairedOf
  <2> QED  BY <1>2, <1>3, <2>1, <2>4 DEF QueuesTyped
<1>9. ASSUME NEW p \in Plans, SnapshotArrives(p) \/ Store(p) PROVE UNCHANGED <<next, out>>
  BY <1>9 DEF SnapshotArrives, Store
<1>10. ASSUME Handle \/ StopPlan \/ Lookup PROVE UNCHANGED <<next, out>>
  BY <1>10 DEF Handle, StopPlan, Lookup
<1> QED  BY <1>1, <1>4, <1>5, <1>6, <1>7, <1>8, <1>9, <1>10 DEF WatcherNext, ServiceHandler

LEMMA TypedKept == ConsulTyped /\ [WatcherNext]_allVars => ConsulTyped'
BY RegistryKept, FlagsKept, PlansKept, ObjectsKept, HandlersKept, QueuesKept DEF ConsulTyped

\* In every behaviour the variables of the watcher have their types, and next never holds
\* more than its capacity.
THEOREM WatcherTyped == WatcherSpec => []WatcherTypeOK
BY TypedInit, TypedKept, TypedIs, PTL DEF WatcherSpec

-----------------------------------------------------------------------------
(* One plan at a time *)

\* A snapshot was empty, or the plan is or will be stopped: for good
Lost == \/ emptied
        \/ mainPc = "stop" /\ watcher \in Plans
        \/ \E p \in Plans : plan[p] = "stopped"

At(m, v) == IF m = None THEN None ELSE m[v]

\* Whether the handler of the plan runs, and has not reached version v
Busy == watcher # NoPlan /\ pc[watcher] # "idle"
Waiting(v) == Busy /\ pc[watcher] = "loop" /\ (v \in todo[watcher] \/ new[watcher][v] = None)

\* The object the watcher has announced last for v, what the snapshot says of v, and what
\* the cache may hold once it has taken the results that wait for it
Latest(v) == IF Busy /\ ~Waiting(v) THEN new[watcher][v] ELSE At(services, v)
Told(v) == IF watcher # NoPlan /\ v \in DOMAIN seen[watcher] THEN seen[watcher][v] ELSE {}
Goal(v) == IF Waiting(v) THEN Told(v) \cup NodesAt(nodes, At(services, v)) ELSE Told(v)
Pending == IF watcher # NoPlan THEN next \o out[watcher] ELSE next

\* There is one plan, and its handler knows what cw.services holds.
Lone == \A p \in Plans : p # watcher =>
            plan[p] = "off" /\ pc[p] = "idle" /\ out[p] = <<>> /\ DOMAIN seen[p] = {}
Named(q) == \A n \in 1..Len(q) : q[n].version # None
Started == /\ mainPc = "idle" \/ (mainPc = "sendCreate" /\ watcher # NoPlan)
           /\ watcher = NoPlan => services = None /\ next = <<>>
           /\ watcher # NoPlan => plan[watcher] = "running" /\ Named(out[watcher])
           /\ \A n \in 1..Len(next) : next[n].version = None => next[n].action = "create"
Listed == listed <=> watcher # NoPlan
Knows == watcher # NoPlan =>
    /\ pc[watcher] = "idle" =>
          out[watcher] = <<>> /\ \A v \in Versions : At(services, v) # None <=> v \in DOMAIN seen[watcher]
    /\ pc[watcher] # "idle" =>
          old[watcher] = services /\ \A v \in Versions : new[watcher][v] # None <=> v \in DOMAIN seen[watcher]
Ruled == Lone /\ Started /\ Listed /\ Knows

\* What is lost stays lost.
LEMMA LostKept == ConsulTyped /\ Lost /\ [WatcherNext]_allVars => Lost'
<1> SUFFICES ASSUME ConsulTyped, Lost, [WatcherNext]_allVars PROVE Lost'
  OBVIOUS
<1>1. CASE emptied
  <2>1. emptied'
    BY <1>1, Zenon DEF WatcherNext, Handle, StopPlan, HandleSends, Lookup, NextResult, ServiceHandler,
               SnapshotArrives, Compare, CompareVersions, Send, Store
  <2> QED  BY <2>1, Zenon DEF Lost
<1>2. CASE \E p \in Plans : plan[p] = "stopped"
  <2>1. PICK p \in Plans : plan[p] = "stopped"  BY <1>2
  <2>2. plan \in [Plans -> {"off", "running", "stopped"}]  BY DEF ConsulTyped, PlansTyped
  <2>3. CASE Handle
    <3>1. CASE listed'
      <4>1. /\ \E w \in Plans : plan[w] = "off"
            /\ watcher' = CHOOSE w \in Plans : plan[w] = "off"
            /\ plan' = [plan EXCEPT ![watcher'] = "running"]
        BY <2>3, <3>1, Zenon DEF Handle
      <4>2. plan[watcher'] = "off"  BY <4>1
      <4>3. plan'[p] = "stopped"  BY <2>1, <2>2, <4>1, <4>2
      <4> QED  BY <4>3, Zenon DEF Lost
    <3>2. CASE ~listed'
      <4>1. UNCHANGED plan  BY <2>3, <3>2, Zenon DEF Handle
      <4> QED  BY <2>1, <4>1, Zenon DEF Lost
    <3> QED  BY <3>1, <3>2
  <2>4. CASE StopPlan
    <3>1. plan'[p] = "stopped"  BY <2>1, <2>2, <2>4 DEF StopPlan
    <3> QED  BY <3>1, Zenon DEF Lost
  <2>5. CASE UNCHANGED plan
    BY <2>1, <2>5, Zenon DEF Lost
  <2>6. ASSUME NEW w \in Plans, ServiceHandler(w) PROVE UNCHANGED plan
    BY <2>6 DEF ServiceHandler, SnapshotArrives, Compare, CompareVersions, Send, Store
  <2>7. ASSUME HandleSends \/ Lookup \/ NextResult PROVE UNCHANGED plan
    BY <2>7 DEF HandleSends, Lookup, NextResult
  <2> QED  BY <2>3, <2>4, <2>5, <2>6, <2>7 DEF WatcherNext
<1>3. CASE mainPc = "stop" /\ watcher \in Plans
  <2>1. CASE UNCHANGED <<mainPc, watcher>>
    BY <1>3, <2>1, Zenon DEF Lost
  <2>2. CASE StopPlan
    <3>1. plan'[watcher] = "stopped"  BY <1>3, <2>2 DEF StopPlan, ConsulTyped, PlansTyped
    <3>2. \E w \in Plans : plan'[w] = "stopped"  BY <1>3, <3>1
    <3> QED  BY <3>2, Zenon DEF Lost
  <2>3. ASSUME NEW w \in Plans, ServiceHandler(w) PROVE UNCHANGED <<mainPc, watcher>>
    BY <2>3 DEF ServiceHandler, SnapshotArrives, Compare, CompareVersions, Send, Store
  <2>4. ASSUME Lookup \/ NextResult PROVE UNCHANGED <<mainPc, watcher>>
    BY <2>4 DEF Lookup, NextResult
  <2>5. ~Handle /\ ~HandleSends
    BY <1>3 DEF Handle, HandleSends
  <2> QED  BY <2>1, <2>2, <2>3, <2>4, <2>5 DEF WatcherNext
<1> QED  BY <1>1, <1>2, <1>3 DEF Lost

\* The services plan has found the service: its plan starts.
LEMMA HandleStarts ==
    ASSUME ConsulTyped, Ruled, Handle, ~Lost'
    PROVE  /\ watcher = NoPlan /\ watcher' \in Plans /\ watcher' # NoPlan
           /\ plan' = [plan EXCEPT ![watcher'] = "running"] /\ mainPc' = "sendCreate"
           /\ listed' /\ UNCHANGED services
<1>1. CASE listed'
  <2>1. /\ \E w \in Plans : plan[w] = "off"
        /\ watcher' = CHOOSE w \in Plans : plan[w] = "off"
        /\ plan' = [plan EXCEPT ![watcher'] = "running"] /\ mainPc' = "sendCreate" /\ UNCHANGED services
    BY <1>1, Zenon DEF Handle
  <2>2. watcher' \in Plans  BY <2>1
  <2>3. ~listed
    <3>1. listed \in BOOLEAN  BY DEF ConsulTyped, Flags
    <3>2. listed # (Known # {}) /\ listed' = (Known # {})  BY Zenon DEF Handle
    <3> QED  BY <1>1, <3>1, <3>2, Zenon
  <2>4. watcher = NoPlan  BY <2>3, Zenon DEF Ruled, Listed
  <2> QED  BY <1>1, <2>1, <2>2, <2>4, Zenon
<1>2. CASE ~listed'
  <2>1. mainPc' = "stop" /\ UNCHANGED watcher  BY <1>2, Zenon DEF Handle
  <2>2. listed
    <3>1. listed \in BOOLEAN  BY DEF ConsulTyped, Flags
    <3>2. listed # (Known # {}) /\ listed' = (Known # {})  BY Zenon DEF Handle
    <3> QED  BY <1>2, <3>1, <3>2, Zenon
  <2>3. watcher # NoPlan  BY <2>2, Zenon DEF Ruled, Listed
  <2>4. watcher \in Plans  BY <2>3 DEF ConsulTyped, PlansTyped
  <2> QED  BY <2>1, <2>4, Zenon DEF Lost
<1> QED  BY <1>1, <1>2

\* Only the handler of the watcher's plan takes a step.
LEMMA OnlyWatcher ==
    ASSUME ConsulTyped, Ruled, NEW p \in Plans, ServiceHandler(p)
    PROVE  p = watcher /\ watcher # NoPlan /\ UNCHANGED <<watcher, listed, mainPc, plan>>
<1>1. ASSUME p # watcher PROVE FALSE
  <2>1. plan[p] = "off" /\ pc[p] = "idle" /\ out[p] = <<>>
    BY <1>1 DEF Ruled, Lone
  <2> QED  BY <2>1 DEF ServiceHandler, SnapshotArrives, Compare, CompareVersions, Send, Store
<1>2. UNCHANGED <<watcher, listed, mainPc, plan>>
  BY DEF ServiceHandler, SnapshotArrives, Compare, CompareVersions, Send, Store
<1> QED  BY <1>1, <1>2

LEMMA NoneNoMap == \A m \in Maps : m # None
BY NoMapAssumption DEF Maps

\* One plan and its handler, step by step
LEMMA RuledKept == ConsulTyped /\ Ruled /\ [WatcherNext]_allVars /\ ~Lost' => Ruled'
<1> SUFFICES ASSUME ConsulTyped, Ruled, [WatcherNext]_allVars, ~Lost' PROVE Ruled'
  OBVIOUS
<1> USE DEF Lone, Started, Knows, At
<1>e. Named(<<>>)  BY DEF Named
<1>0. /\ watcher \in Plans \cup {NoPlan} /\ plan \in [Plans -> {"off", "running", "stopped"}]
      /\ DOMAIN seen = Plans /\ pc \in [Plans -> {"idle", "loop", "store"}]
      /\ out \in [Plans -> Seq(Results)] /\ next \in Seq(Results) /\ new \in [Plans -> Maps]
      /\ old \in [Plans -> Maps \cup {None}]
  BY DEF ConsulTyped, PlansTyped, HandlersTyped, QueuesTyped
<1>1. CASE UNCHANGED watcherVars
  <2>1. Listed'  BY <1>1, Zenon DEF Ruled, Listed
  <2>2. Lone' /\ Started' /\ Knows'  BY <1>1 DEF Ruled
  <2> QED  BY <2>1, <2>2, Zenon DEF Ruled
<1>2. CASE Handle
  <2>1. /\ watcher = NoPlan /\ watcher' \in Plans /\ watcher' # NoPlan
        /\ plan' = [plan EXCEPT ![watcher'] = "running"] /\ mainPc' = "sendCreate"
        /\ listed' /\ UNCHANGED services
    BY <1>2, HandleStarts
  <2>2. UNCHANGED <<handlers, next>>  BY <1>2 DEF Handle
  <2>3. Listed'  BY <2>1, Zenon DEF Listed
  <2>4. Lone' /\ Started' /\ Knows'  BY <1>0, <1>e, <2>1, <2>2 DEF Ruled
  <2> QED  BY <2>3, <2>4, Zenon DEF Ruled
<1>3. CASE StopPlan
  BY <1>3 DEF StopPlan, Ruled
<1>4. CASE HandleSends
  <2>1. mainPc = "sendCreate"  BY <1>4 DEF HandleSends, Ruled
  <2>2. /\ next' = Append(next, Result("create", None, None)) /\ mainPc' = "idle"
        /\ UNCHANGED <<services, watcher, listed, plan, handlers>>
    BY <1>4, <2>1 DEF HandleSends
  <2>3. Listed'  BY <2>2, Zenon DEF Ruled, Listed
  <2>4. Lone' /\ Knows'  BY <2>2 DEF Ruled
  <2>5. ASSUME NEW n \in 1..Len(next'), next'[n].version = None PROVE next'[n].action = "create"
    <3>1. CASE n = Len(next) + 1
      BY <1>0, <2>2, <3>1, ResultOf
    <3>2. CASE n # Len(next) + 1
      <4>1. n \in 1..Len(next) /\ next'[n] = next[n]  BY <1>0, <2>2, <3>2
      <4> QED  BY <2>5, <4>1 DEF Ruled
    <3> QED  BY <3>1, <3>2
  <2>6. Started'  BY <2>1, <2>2, <2>5 DEF Ruled
  <2> QED  BY <2>3, <2>4, <2>6, Zenon DEF Ruled
<1>5. CASE Lookup
  <2>1. UNCHANGED <<services, plans, handlers, next>>  BY <1>5 DEF Lookup
  <2>2. Listed'  BY <2>1, Zenon DEF Ruled, Listed
  <2>3. Lone' /\ Started' /\ Knows'  BY <2>1 DEF Ruled
  <2> QED  BY <2>2, <2>3, Zenon DEF Ruled
<1>6. CASE NextResult
  <2>1. next # <<>> /\ next' = Tail(next) /\ UNCHANGED <<services, plans, handlers>>
    BY <1>6 DEF NextResult
  <2>2. Listed'  BY <2>1, Zenon DEF Ruled, Listed
  <2>3. Lone' /\ Knows'  BY <2>1 DEF Ruled
  <2>4. ASSUME NEW n \in 1..Len(next'), next'[n].version = None PROVE next'[n].action = "create"
    <3>1. n + 1 \in 1..Len(next) /\ next'[n] = next[n + 1]  BY <1>0, <2>1
    <3> QED  BY <2>4, <3>1 DEF Ruled
  <2>5. Started'  BY <2>1, <2>4 DEF Ruled
  <2> QED  BY <2>2, <2>3, <2>5, Zenon DEF Ruled
<1>7. ASSUME NEW p \in Plans, ServiceHandler(p) PROVE Ruled'
  <2>1. p = watcher /\ watcher # NoPlan /\ UNCHANGED <<watcher, listed, mainPc, plan>>
    BY <1>7, OnlyWatcher
  <2>2. Listed'  BY <2>1, Zenon DEF Ruled, Listed
  <2>3. CASE SnapshotArrives(p)
    <3>1. /\ pc[p] = "idle" /\ seen' = [seen EXCEPT ![p] = Snapshot] /\ UNCHANGED <<services, out, next>>
          /\ DOMAIN Snapshot = Known
      BY <2>3 DEF SnapshotArrives, Snapshot
    <3>2. CASE Known = {}
      <4>1. emptied' = (emptied \/ services # None)
        BY <2>3, <3>2, Zenon DEF SnapshotArrives
      <4>2. services = None
        BY <4>1, Zenon DEF Lost
      <4>3. UNCHANGED <<pc, new, old, todo>>
        BY <2>3, <3>2, Zenon DEF SnapshotArrives
      <4>4. Lone' /\ Started' /\ Knows'
        BY <1>0, <2>1, <3>1, <3>2, <4>2, <4>3 DEF Ruled
      <4> QED  BY <2>2, <4>4, Zenon DEF Ruled
    <3>3. CASE Known # {}
      <4>1. PICK m : /\ m = Allocate(Known) /\ new' = [new EXCEPT ![p] = m] /\ Free(Known) # {}
                     /\ old' = [old EXCEPT ![p] = services] /\ todo' = [todo EXCEPT ![p] = Known]
                     /\ pc' = [pc EXCEPT ![p] = "loop"]
        BY <2>3, <3>3 DEF SnapshotArrives
      <4>2. \A v \in Versions : m[v] # None <=> v \in Known
        BY <4>1, AllocateIs, KnownVersions, NoNullObject
      <4>3. Lone' /\ Started'
        BY <1>0, <2>1, <3>1, <4>1 DEF Ruled
      <4>4. Knows'
        BY <1>0, <2>1, <3>1, <4>1, <4>2 DEF Ruled
      <4> QED  BY <2>2, <4>3, <4>4, Zenon DEF Ruled
    <3> QED  BY <3>2, <3>3
  <2>4. CASE Compare(p)
    <3>1. PICK v \in todo[p] : Compares(p, v)  BY <2>4, CompareIs
    <3>2. PICK s : out' = [out EXCEPT ![p] = s] /\ Named(s)
      <4>1. PICK o, a : /\ o = (IF old[p] = None THEN None ELSE old[p][v])
                        /\ a = (IF o = None THEN "create" ELSE "update")
        OBVIOUS
      <4>2. Result(a, v, new[p][v]).version # None /\ Result("delete", v, o).version # None
        BY CompareTypes DEF Result
      <4>3. /\ Named(<<Result(a, v, new[p][v])>>)
            /\ Named(<<Result("delete", v, o), Result(a, v, new[p][v])>>)
        BY <4>2 DEF Named
      <4> QED  BY <3>1, <4>1, <4>3 DEF Compares
    <3>3. pc[p] = "loop" /\ UNCHANGED <<services, pc, new, old, seen, next>>  BY <3>1 DEF Compares
    <3>4. Lone' /\ Started' /\ Knows'
      BY <1>0, <2>1, <3>2, <3>3 DEF Ruled
    <3> QED  BY <2>2, <3>4, Zenon DEF Ruled
  <2>5. CASE CompareVersions(p)
    <3>1. PICK s : out' = [out EXCEPT ![p] = s] /\ Named(s)
      <4>1. PICK s \in Seq(Results) : /\ out' = [out EXCEPT ![p] = s]
                                      /\ \A n \in 1..Len(s) : s[n].version \in Gone(p)
        BY <2>5, GoneSent
      <4>2. Named(s)  BY <4>1 DEF Named, Gone
      <4> QED  BY <4>1, <4>2
    <3>2. pc[p] = "loop" /\ pc' = [pc EXCEPT ![p] = "store"] /\ UNCHANGED <<services, new, old, seen, next>>
      BY <2>5 DEF CompareVersions
    <3>3. Lone' /\ Started' /\ Knows'
      BY <1>0, <2>1, <3>1, <3>2 DEF Ruled
    <3> QED  BY <2>2, <3>3, Zenon DEF Ruled
  <2>6. CASE Send(p)
    <3>1. /\ out[p] # <<>> /\ next' = Append(next, Head(out[p])) /\ out' = [out EXCEPT ![p] = Tail(out[p])]
          /\ UNCHANGED <<services, pc, new, old, seen>>
      BY <2>6 DEF Send
    <3>2. Lone' /\ Knows'
      BY <1>0, <2>1, <3>1 DEF Ruled
    <3>3. ASSUME NEW n \in 1..Len(next'), next'[n].version = None PROVE next'[n].action = "create"
      <4>1. CASE n = Len(next) + 1
        <5>1. out[p] \in Seq(Results) /\ Named(out[p])  BY <1>0, <2>1 DEF Ruled
        <5>2. Head(out[p]).version # None  BY <3>1, <5>1 DEF Named
        <5> QED  BY <1>0, <3>1, <3>3, <4>1, <5>2
      <4>2. CASE n # Len(next) + 1
        <5>1. Head(out[p]) \in Results  BY <1>0, <3>1
        <5>2. n \in 1..Len(next) /\ next'[n] = next[n]  BY <1>0, <3>1, <4>2, <5>1
        <5> QED  BY <3>3, <5>2 DEF Ruled
      <4> QED  BY <4>1, <4>2
    <3>4. Named(Tail(out[p]))
      <4>1. out[p] \in Seq(Results) /\ Named(out[p])  BY <1>0, <2>1 DEF Ruled
      <4> QED  BY <3>1, <4>1 DEF Named
    <3>5. Started'  BY <1>0, <2>1, <3>1, <3>3, <3>4 DEF Ruled
    <3> QED  BY <2>2, <3>2, <3>5, Zenon DEF Ruled
  <2>7. CASE Store(p)
    <3>1. /\ out[p] = <<>> /\ services' = new[p] /\ pc[p] = "store" /\ pc' = [pc EXCEPT ![p] = "idle"]
          /\ new' = [new EXCEPT ![p] = NoMap] /\ old' = [old EXCEPT ![p] = None]
          /\ UNCHANGED <<out, seen, next>>
      BY <2>7 DEF Store
    <3>2. new[p] # None  BY <1>0, NoneNoMap
    <3>3. Lone' /\ Started' /\ Knows'
      BY <1>0, <2>1, <3>1, <3>2 DEF Ruled
    <3> QED  BY <2>2, <3>3, Zenon DEF Ruled
  <2> QED  BY <1>7, <2>3, <2>4, <2>5, <2>6, <2>7 DEF ServiceHandler
<1> QED  BY <1>1, <1>2, <1>3, <1>4, <1>5, <1>6, <1>7 DEF WatcherNext

-----------------------------------------------------------------------------
(* What the watcher and the cache know of each version *)

\* What refers to object o on behalf of version v: no two versions share an object.
Refers(v, o) == \/ o = At(services, v) \/ o = At(cached, v)
                \/ Busy /\ o = new[watcher][v]
                \/ \E n \in About(Pending, v) : Pending[n].service = o
Owned == \A v, w \in Versions, o \in Objects : Refers(v, o) /\ Refers(w, o) => v = w

\* The cache has an entry, filled with what the plan has delivered.
Live == cached # None /\ ~ahead

VChain(v) == Chain(Pending, v, At(cached, v), Latest(v))
VBound(v) == Bounded(Pending, v, nodes, Goal(v))
VEntry(v) == Live => EntryBounded(Pending, v, nodes, At(cached, v), Goal(v))
VLower(v) == ~Waiting(v) /\ Latest(v) # None => Told(v) \subseteq nodes[Latest(v)]
VCaught(v) == Live /\ ~Waiting(v) /\ Latest(v) # None /\ About(Pending, v) = {} =>
                 Told(v) \subseteq NodesAt(nodes, At(cached, v))
Unreached(v) == Busy /\ v \in todo[watcher]
VFresh(v) == Unreached(v) =>
    /\ nodes[new[watcher][v]] = Told(v)
    /\ new[watcher][v] # At(cached, v) /\ new[watcher][v] # At(services, v)
    /\ \A n \in About(Pending, v) : Pending[n].service # new[watcher][v]
VersionInv(v) == VChain(v) /\ VBound(v) /\ VEntry(v) /\ VLower(v) /\ VCaught(v) /\ VFresh(v)

\* A result about a version names an object.
LEMMA ServiceOf ==
    ASSUME NEW q \in Seq(Results), Paired(q), NEW v \in Versions, NEW n \in About(q, v)
    PROVE  q[n].service \in Objects /\ q[n].service # None
<1>1. n \in 1..Len(q) /\ q[n].version = v  BY DEF About
<1>2. q[n] \in Results /\ q[n].service # None  BY <1>1 DEF Paired
<1> QED  BY <1>2 DEF Results

\* What waits for the cache, in next and in the handler
LEMMA PendingIs ==
    ASSUME ConsulTyped
    PROVE  /\ Pending \in Seq(Results) /\ Paired(Pending)
           /\ \A v \in Versions : \A n \in About(Pending, v) : Pending[n].service \in Objects
           /\ \A n \in 1..Len(Pending) : \/ Pending[n].service \in Sent(next)
                                         \/ watcher \in Plans /\ Pending[n].service \in Sent(out[watcher])
<1>1. next \in Seq(Results) /\ Paired(next) /\ watcher \in Plans \cup {NoPlan}
  BY DEF ConsulTyped, QueuesTyped, PlansTyped
<1>2. CASE watcher = NoPlan
  <2>1. Pending = next  BY <1>2 DEF Pending
  <2>2. Pending \in Seq(Results) /\ Paired(Pending)  BY <1>1, <2>1
  <2>3. \A n \in 1..Len(Pending) : Pending[n].service \in Sent(next)  BY <2>1 DEF Sent
  <2> QED  BY <2>2, <2>3, ServiceOf
<1>3. CASE watcher # NoPlan
  <2>1. PICK b : b = out[watcher]  OBVIOUS
  <2>2. Pending = next \o b /\ b \in Seq(Results) /\ Paired(b) /\ watcher \in Plans
    BY <1>1, <1>3, <2>1 DEF Pending, ConsulTyped, QueuesTyped
  <2>3. Pending \in Seq(Results) /\ Len(Pending) = Len(next) + Len(b)
    BY <1>1, <2>2
  <2>4. ASSUME NEW n \in 1..Len(Pending)
        PROVE  /\ Pending[n] \in Results /\ (Pending[n].version = None <=> Pending[n].service = None)
               /\ Pending[n].service \in Sent(next) \/ Pending[n].service \in Sent(b)
    <3>1. CASE n <= Len(next)
      BY <1>1, <2>2, <2>3, <3>1 DEF Paired, Sent
    <3>2. CASE n > Len(next)
      <4>1. n - Len(next) \in 1..Len(b) /\ Pending[n] = b[n - Len(next)]  BY <1>1, <2>2, <2>3, <3>2
      <4> QED  BY <2>2, <2>3, <4>1 DEF Paired, Sent
    <3> QED  BY <1>1, <2>3, <3>1, <3>2
  <2>5. Paired(Pending)  BY <2>4 DEF Paired
  <2> QED  BY <2>1, <2>2, <2>3, <2>4, <2>5, ServiceOf
<1> QED  BY <1>2, <1>3

\* No version refers to an unused object.
LEMMA Unreferenced ==
    ASSUME ConsulTyped, NEW o \in Unused, NEW v \in Versions
    PROVE  o \in Objects /\ o # None /\ ~Refers(v, o)
<1>1. o \in Objects /\ o # None  BY NoNullObject
<1>2. /\ o \notin Of(services) /\ o \notin Of(cached) /\ o \notin Sent(next)
      /\ \A p \in Plans : o \notin Of(new[p]) /\ o \notin Sent(out[p])
  BY DEF Unused
<1>3. o # At(services, v) /\ o # At(cached, v)
  BY <1>1, <1>2 DEF At, Of
<1>4. ASSUME Busy PROVE o # new[watcher][v]
  <2>1. watcher \in Plans  BY <1>4 DEF Busy, ConsulTyped, PlansTyped
  <2>2. new[watcher] # None  BY <2>1, NoneNoMap DEF ConsulTyped, HandlersTyped
  <2> QED  BY <1>2, <2>1, <2>2 DEF Of
<1>5. ASSUME NEW n \in About(Pending, v) PROVE Pending[n].service # o
  BY <1>2, PendingIs, AboutNat
<1> QED  BY <1>1, <1>3, <1>4, <1>5 DEF Refers

\* Versions go on to refer to their own objects, and to new ones.
LEMMA OwnedKept ==
    ASSUME ConsulTyped, Owned, NEW m,
           \A v, w \in Versions : m[v] \in Unused /\ m[v] = m[w] => v = w,
           \A v \in Versions, o \in Objects :
              Refers(v, o)' => Refers(v, o) \/ (o = m[v] /\ o \in Unused)
    PROVE  Owned'
<1> SUFFICES ASSUME NEW v \in Versions, NEW w \in Versions, NEW o \in Objects,
                    Refers(v, o)', Refers(w, o)'
             PROVE  v = w
  BY DEF Owned
<1>1. o \in Unused => ~Refers(v, o) /\ ~Refers(w, o)
  BY Unreferenced
<1>2. CASE Refers(v, o) /\ Refers(w, o)
  BY <1>2 DEF Owned
<1>3. CASE o = m[v] /\ o = m[w] /\ o \in Unused
  BY <1>3
<1> QED  BY <1>1, <1>2, <1>3

LEMMA OwnedStays ==
    ASSUME Owned, \A v \in Versions, o \in Objects : Refers(v, o)' => Refers(v, o)
    PROVE  Owned'
BY DEF Owned

LEMMA SameSelf ==
    ASSUME NEW q, NEW v PROVE \E h : Same(q, q, v, h)
<1>1. PICK h : h = [n \in About(q, v) |-> n]  OBVIOUS
<1>2. Same(q, q, v, h)  BY <1>1 DEF Same
<1> QED  BY <1>2

LEMMA SameEmpty ==
    ASSUME NEW q, NEW r, NEW v, NEW h, Same(q, r, v, h) PROVE About(q, v) = {} <=> About(r, v) = {}
BY DEF Same

LEMMA BoundedMore ==
    ASSUME NEW q, NEW v, NEW ns, NEW c, NEW g, NEW f, g \subseteq f
    PROVE  /\ Bounded(q, v, ns, g) => Bounded(q, v, ns, f)
           /\ EntryBounded(q, v, ns, c, g) => EntryBounded(q, v, ns, c, f)
BY DEF Bounded, EntryBounded

\* The objects the parts hold for a version are objects or None.
LEMMA LatestIs ==
    ASSUME ConsulTyped, NEW v \in Versions
    PROVE  /\ At(services, v) \in Objects \cup {None} /\ At(cached, v) \in Objects \cup {None}
           /\ Busy => new[watcher][v] \in Objects \cup {None}
           /\ Latest(v) \in Objects \cup {None}
           /\ Latest(v) # None => Refers(v, Latest(v))
           /\ At(services, v) # None => Refers(v, At(services, v))
           /\ At(cached, v) # None => Refers(v, At(cached, v))
           /\ Waiting(v) => Latest(v) = At(services, v)
<1>1. At(services, v) \in Objects \cup {None} /\ At(cached, v) \in Objects \cup {None}
  BY DEF ConsulTyped, ObjectsTyped, At, Maps
<1>2. Busy => new[watcher][v] \in Objects \cup {None}
  BY DEF ConsulTyped, PlansTyped, HandlersTyped, Busy, Maps
<1> QED  BY <1>1, <1>2 DEF Latest, Refers

\* A step that leaves the results and the objects of version v alone
LEMMA Framed ==
    ASSUME ConsulTyped, NEW v \in Versions, VersionInv(v), NEW h, Same(Pending, Pending', v, h),
           \A o \in Objects : Refers(v, o) => nodes'[o] = nodes[o],
           Latest(v)' = Latest(v), Goal(v) \subseteq Goal(v)',
           ~Waiting(v)' /\ Latest(v) # None => ~Waiting(v) /\ Told(v)' = Told(v),
           \/ cached' = None
           \/ At(cached', v) = At(cached, v) /\ (Live' => Live),
           VFresh(v)'
    PROVE  VersionInv(v)'
<1>0. PICK q, r, c, d, l, g : /\ q = Pending /\ r = Pending' /\ c = At(cached, v) /\ d = At(cached', v)
                              /\ l = Latest(v) /\ g = Goal(v)'
  OBVIOUS
<1>1. \A n \in About(q, v) : nodes'[q[n].service] = nodes[q[n].service]
  BY <1>0, PendingIs DEF Refers
<1>2. Same(q, r, v, h) /\ Chain(q, v, c, l) /\ Bounded(q, v, nodes, g)
  BY <1>0, BoundedMore DEF VersionInv, VChain, VBound
<1>3. d = None \/ d = c
  BY <1>0 DEF At
<1>4. VChain(v)'
  <2>1. Chain(q, v, d, l)  BY <1>2, <1>3 DEF Chain, Passed
  <2> QED  BY <1>0, <1>2, <2>1, SameChain DEF VChain
<1>5. VBound(v)'
  BY <1>0, <1>1, <1>2, SameBounded DEF VBound
<1>6. Live' => Live /\ d = c
  BY <1>0 DEF Live
<1>7. NodesAt(nodes', c) = NodesAt(nodes, c)
  BY <1>0, LatestIs DEF NodesAt
<1>8. VEntry(v)'
  <2> SUFFICES ASSUME Live' PROVE EntryBounded(r, v, nodes', d, g)
    BY <1>0 DEF VEntry
  <2>1. EntryBounded(q, v, nodes, c, g)
    BY <1>0, <1>6, BoundedMore DEF VersionInv, VEntry
  <2> QED  BY <1>1, <1>2, <1>6, <1>7, <2>1, SameEntry
<1>9. VLower(v)'
  BY LatestIs DEF VLower, VersionInv
<1>10. VCaught(v)'
  BY <1>0, <1>2, <1>6, <1>7, SameEmpty DEF VCaught, VersionInv
<1> QED  BY <1>4, <1>5, <1>8, <1>9, <1>10 DEF VersionInv

\* What a version's handler has yet to reach stays new.
LEMMA FreshKept ==
    ASSUME ConsulTyped, NEW v \in Versions, VFresh(v), Unreached(v),
           new'[watcher'][v] = new[watcher][v], Told(v)' = Told(v),
           nodes'[new[watcher][v]] = nodes[new[watcher][v]], At(services', v) = At(services, v),
           \/ At(cached', v) \in {None, At(cached, v)}
           \/ \E n \in About(Pending, v) : Pending[n].service = At(cached', v),
           \A n \in About(Pending', v) : \E m \in About(Pending, v) :
              Pending[m].service = Pending'[n].service
    PROVE  VFresh(v)'
<1>1. new[watcher][v] # None
  BY DEF Unreached, ConsulTyped, PlansTyped, HandlersTyped, Busy
<1> QED  BY <1>1 DEF VFresh

-----------------------------------------------------------------------------
(* The steps that leave the results alone *)

Tracked == Owned /\ \A v \in Versions : VersionInv(v)

\* A step that leaves the results and the objects of version v and the plan alone
LEMMA Quiet ==
    ASSUME ConsulTyped, NEW v \in Versions, VersionInv(v), NEW h, Same(Pending, Pending', v, h),
           UNCHANGED <<services, watcher, pc, new, seen>>,
           v \in todo'[watcher] <=> v \in todo[watcher],
           \A o \in Objects : Refers(v, o) => nodes'[o] = nodes[o],
           cached' = None \/ (At(cached', v) = At(cached, v) /\ (Live' => Live))
    PROVE  VersionInv(v)' /\ \A o \in Objects : Refers(v, o)' => Refers(v, o)
<1>1. /\ Busy' <=> Busy
      /\ Waiting(v)' <=> Waiting(v)
      /\ At(services', v) = At(services, v)
  BY DEF Busy, Waiting, At
<1>2. Told(v)' = Told(v)  BY DEF Told
<1>3. Latest(v)' = Latest(v)  BY <1>1 DEF Latest
<1>4. Goal(v)' = Goal(v)
  <2>1. NodesAt(nodes', At(services, v)) = NodesAt(nodes, At(services, v))
    BY LatestIs DEF NodesAt
  <2> QED  BY <1>1, <1>2, <2>1 DEF Goal
<1>5. At(cached', v) \in {None, At(cached, v)}  BY DEF At
<1>6. \A n \in About(Pending', v) : \E m \in About(Pending, v) : Pending[m].service = Pending'[n].service
  BY DEF Same
<1>7. VFresh(v)'
  <2>1. CASE Unreached(v)
    <3>1. new[watcher][v] \in Objects /\ Refers(v, new[watcher][v])
      BY <2>1 DEF Unreached, ConsulTyped, PlansTyped, HandlersTyped, Busy, Maps, Refers
    <3> QED  BY <1>1, <1>2, <1>5, <1>6, <2>1, <3>1, FreshKept DEF VersionInv
  <2>2. CASE ~Unreached(v)
    BY <1>1, <2>2 DEF VFresh, Unreached
  <2> QED  BY <2>1, <2>2
<1>8. VersionInv(v)'
  BY <1>1, <1>2, <1>3, <1>4, <1>7, Framed
<1>9. \A o \in Objects : Refers(v, o)' => Refers(v, o)
  BY <1>1, <1>5, <1>6 DEF Refers
<1> QED  BY <1>8, <1>9

LEMMA QuietAll ==
    ASSUME ConsulTyped, Tracked, \A v \in Versions : \E h : Same(Pending, Pending', v, h),
           UNCHANGED <<nodes, services, watcher, cached, ahead, pc, new, todo, seen>>
    PROVE  Tracked'
<1>1. ASSUME NEW v \in Versions
      PROVE  VersionInv(v)' /\ \A o \in Objects : Refers(v, o)' => Refers(v, o)
  <2>1. PICK h : Same(Pending, Pending', v, h)  OBVIOUS
  <2>2. At(cached', v) = At(cached, v)  BY DEF At
  <2>3. Live' => Live  BY Zenon DEF Live
  <2> QED  BY <2>1, <2>2, <2>3, Quiet DEF Tracked
<1> QED  BY <1>1, OwnedStays DEF Tracked

\* Steps of the registry, and the sends, which only move results
LEMMA StutterTracked == ASSUME ConsulTyped, Tracked, UNCHANGED watcherVars PROVE Tracked'
<1>1. Pending' = Pending  BY DEF Pending
<1>2. \A v \in Versions : \E h : Same(Pending, Pending', v, h)  BY <1>1, SameSelf
<1> QED  BY <1>2, QuietAll

LEMMA HandleSendsTracked == ASSUME ConsulTyped, Ruled, Tracked, HandleSends PROVE Tracked'
<1>0. watcher # NoPlan /\ watcher \in Plans
  BY DEF HandleSends, Ruled, Started, ConsulTyped, PlansTyped
<1>1. PICK a, b : a = next /\ b = out[watcher]  OBVIOUS
<1>2. PICK e \in Results : e.version = None /\ next' = Append(a, e)
  BY <1>1, ResultOf DEF HandleSends
<1>3. Pending = a \o b /\ Pending' = Append(a, e) \o b
  BY <1>0, <1>1, <1>2 DEF Pending, HandleSends
<1>4. a \in Seq(Results) /\ b \in Seq(Results)
  BY <1>0, <1>1 DEF ConsulTyped, QueuesTyped
<1>5. ASSUME NEW v \in Versions PROVE \E h : Same(Pending, Pending', v, h)
  <2>1. e.version # v  BY <1>2
  <2> QED  BY <1>3, <1>4, <2>1, InsertSame
<1>6. UNCHANGED <<nodes, services, watcher, cached, ahead, pc, new, todo, seen>>
  BY DEF HandleSends
<1> QED  BY <1>5, <1>6, QuietAll

LEMMA SendTracked ==
    ASSUME ConsulTyped, Tracked, watcher \in Plans, Send(watcher), UNCHANGED watcher PROVE Tracked'
<1>1. PICK a, b : a = next /\ b = out[watcher]  OBVIOUS
<1>2. b # <<>> /\ next' = Append(a, Head(b)) /\ out' = [out EXCEPT ![watcher] = Tail(b)]
  BY <1>1 DEF Send
<1>3. a \in Seq(Results) /\ b \in Seq(Results) /\ out \in [Plans -> Seq(Results)]
  BY <1>1 DEF ConsulTyped, QueuesTyped
<1>4. out'[watcher] = Tail(b)  BY <1>2, <1>3
<1>5. Pending = a \o b /\ Pending' = Append(a, Head(b)) \o Tail(b)
  BY <1>1, <1>2, <1>4 DEF Pending
<1>6. Pending' = Pending  BY <1>2, <1>3, <1>5, SendSame
<1>7. UNCHANGED <<nodes, services, watcher, cached, ahead, pc, new, todo, seen>>
  BY DEF Send
<1>8. \A v \in Versions : \E h : Same(Pending, Pending', v, h)  BY <1>6, SameSelf
<1> QED  BY <1>7, <1>8, QuietAll

\* Without a plan nothing is known and nothing waits for the cache.
LEMMA HandleTracked == ASSUME ConsulTyped, Ruled, Tracked, Handle, ~Lost' PROVE Tracked'
<1>1. /\ watcher = NoPlan /\ watcher' \in Plans /\ watcher' # NoPlan /\ UNCHANGED services
  BY HandleStarts
<1>2. UNCHANGED <<nodes, handlers, next, cached, ahead>>  BY DEF Handle
<1>3. services = None /\ next = <<>>  BY <1>1 DEF Ruled, Started
<1>4. pc[watcher'] = "idle" /\ out[watcher'] = <<>> /\ DOMAIN seen[watcher'] = {}
  BY <1>1 DEF Ruled, Lone
<1>5. Pending' = Pending /\ Pending = <<>>
  <2>1. <<>> \o <<>> = <<>>  OBVIOUS
  <2> QED  BY <1>1, <1>2, <1>3, <1>4, <2>1 DEF Pending
<1>6. ~Busy /\ ~Busy'  BY <1>1, <1>2, <1>4 DEF Busy
<1>7. ASSUME NEW v \in Versions
      PROVE  VersionInv(v)' /\ \A o \in Objects : Refers(v, o)' => Refers(v, o)
  <2>1. At(services', v) = At(services, v) /\ At(cached', v) = At(cached, v) /\ At(services, v) = None
    BY <1>1, <1>2, <1>3 DEF At
  <2>2. ~Waiting(v) /\ ~Waiting(v)'  BY <1>6 DEF Waiting
  <2>3. Latest(v)' = Latest(v)  BY <1>6, <2>1 DEF Latest
  <2>4. Told(v) = {} /\ Told(v)' = {}  BY <1>1, <1>2, <1>4 DEF Told
  <2>5. Goal(v)' = Goal(v)  BY <2>2, <2>4 DEF Goal
  <2>6. VFresh(v)'  BY <1>6 DEF VFresh, Unreached
  <2>7. Live' => Live  BY <1>2, Zenon DEF Live
  <2>8. PICK h : Same(Pending, Pending', v, h)  BY <1>5, SameSelf
  <2>9. VersionInv(v)'
    BY <1>2, <2>1, <2>2, <2>3, <2>4, <2>5, <2>6, <2>7, <2>8, Framed DEF Tracked
  <2>10. \A o \in Objects : Refers(v, o)' => Refers(v, o)
    BY <1>5, <1>6, <2>1 DEF Refers
  <2> QED  BY <2>9, <2>10
<1> QED  BY <1>7, OwnedStays DEF Tracked

\* The snapshot's objects replace those the watcher kept.
LEMMA StoreTracked ==
    ASSUME ConsulTyped, Ruled, Tracked, watcher \in Plans, watcher # NoPlan, Store(watcher), UNCHANGED watcher
    PROVE  Tracked'
<1>1. /\ pc[watcher] = "store" /\ pc' = [pc EXCEPT ![watcher] = "idle"] /\ services' = new[watcher]
      /\ UNCHANGED <<nodes, out, next, cached, ahead, seen, todo>>
  BY DEF Store
<1>2. Pending' = Pending  BY <1>1 DEF Pending
<1>3. Busy /\ ~Busy'  BY <1>1 DEF Busy, ConsulTyped, HandlersTyped
<1>4. services' # None  BY <1>1, NoneNoMap DEF ConsulTyped, HandlersTyped
<1>5. ASSUME NEW v \in Versions
      PROVE  VersionInv(v)' /\ \A o \in Objects : Refers(v, o)' => Refers(v, o)
  <2>1. At(services', v) = new[watcher][v] /\ At(cached', v) = At(cached, v)
    BY <1>1, <1>4 DEF At
  <2>2. ~Waiting(v) /\ ~Waiting(v)'  BY <1>1, <1>3 DEF Waiting
  <2>3. Latest(v)' = Latest(v)  BY <1>3, <2>1, <2>2 DEF Latest
  <2>4. Told(v)' = Told(v)  BY <1>1 DEF Told
  <2>5. Goal(v)' = Goal(v)  BY <2>2, <2>4 DEF Goal
  <2>6. VFresh(v)'  BY <1>3 DEF VFresh, Unreached
  <2>7. Live' => Live  BY <1>1, Zenon DEF Live
  <2>8. PICK h : Same(Pending, Pending', v, h)  BY <1>2, SameSelf
  <2>9. VersionInv(v)'
    BY <1>1, <2>1, <2>2, <2>3, <2>4, <2>5, <2>6, <2>7, <2>8, Framed DEF Tracked
  <2>10. \A o \in Objects : Refers(v, o)' => Refers(v, o)
    BY <1>2, <1>3, <2>1 DEF Refers
  <2> QED  BY <2>9, <2>10
<1> QED  BY <1>5, OwnedStays DEF Tracked

-----------------------------------------------------------------------------
(* New objects *)

\* The new objects of a snapshot or a lookup
LEMMA NewObjects ==
    ASSUME ConsulTyped, Free(Known) # {}, NEW m, m = Allocate(Known), nodes' = Filled(m)
    PROVE  /\ \A v \in Versions : v \notin Known => m[v] = None
           /\ \A v \in Known : /\ m[v] \in Unused /\ m[v] \in Objects /\ m[v] # None
                               /\ nodes'[m[v]] = Healthy(v) /\ ~Refers(v, m[v])
           /\ \A v, w \in Versions : m[v] \in Unused /\ m[v] = m[w] => v = w
           /\ \A v \in Versions, o \in Objects : Refers(v, o) => nodes'[o] = nodes[o]
           /\ m \in Maps /\ m # None
<1>1. nodes \in [Objects -> SUBSET Instances]  BY DEF ConsulTyped, ObjectsTyped
<1>2. /\ m \in Maps /\ \A v \in Known : m[v] \in Unused
      /\ \A v \in Versions \ Known : m[v] = None
      /\ \A v, w \in Known : m[v] = m[w] => v = w
  BY AllocateIs, KnownVersions
<1>3. /\ \A o \in Objects : o \notin Unused => nodes'[o] = nodes[o]
      /\ \A v \in Known : nodes'[m[v]] = Healthy(v)
  BY <1>1, FilledIs, KnownVersions
<1>4. ASSUME NEW v \in Versions, NEW w \in Versions, m[v] \in Unused, m[v] = m[w] PROVE v = w
  <2>1. m[v] # None  BY <1>4, NoNullObject
  <2> QED  BY <1>2, <1>4, <2>1
<1>5. ASSUME NEW v \in Versions, NEW o \in Objects, Refers(v, o) PROVE nodes'[o] = nodes[o]
  <2>1. o \notin Unused  BY <1>5, Unreferenced
  <2> QED  BY <1>3, <2>1
<1>6. ASSUME NEW v \in Known PROVE m[v] \in Objects /\ m[v] # None /\ ~Refers(v, m[v])
  <2>1. v \in Versions /\ m[v] \in Unused  BY <1>2, KnownVersions
  <2> QED  BY <2>1, Unreferenced
<1>7. m # None  BY <1>2, NoneNoMap
<1> QED  BY <1>2, <1>3, <1>4, <1>5, <1>6, <1>7

\* A snapshot: new objects for its versions, to be compared with the watcher's
LEMMA SnapshotTracked ==
    ASSUME ConsulTyped, Ruled, Tracked, watcher \in Plans, watcher # NoPlan, SnapshotArrives(watcher),
           UNCHANGED watcher, ~Lost'
    PROVE  Tracked'
<1>1. /\ pc[watcher] = "idle" /\ seen' = [seen EXCEPT ![watcher] = Snapshot]
      /\ UNCHANGED <<services, out, next, cached, ahead>>
  BY DEF SnapshotArrives
<1>2. seen'[watcher] = Snapshot /\ DOMAIN seen'[watcher] = Known
  BY <1>1 DEF ConsulTyped, HandlersTyped, Snapshot
<1>3. Pending' = Pending  BY <1>1 DEF Pending
<1>4. Live' => Live  BY <1>1, Zenon DEF Live
<1>5. ~Busy /\ \A v : ~Waiting(v) /\ Latest(v) = At(services, v) /\ Goal(v) = Told(v)
  BY <1>1 DEF Busy, Waiting, Latest, Goal
<1>6. \A v \in Versions : At(services, v) = None => Told(v) = {}
  BY <1>1 DEF Ruled, Knows, Told
<1>7. \A v : At(services', v) = At(services, v) /\ At(cached', v) = At(cached, v)
  BY <1>1 DEF At
<1>8. CASE Known = {}
  <2>1. emptied' = (emptied \/ services # None)
    BY <1>8, Zenon DEF SnapshotArrives
  <2>2. services = None
    BY <2>1, Zenon DEF Lost
  <2>3. UNCHANGED <<nodes, pc, new, old, todo>>
    BY <1>8, Zenon DEF SnapshotArrives
  <2>4. ~Busy'  BY <1>1, <2>3 DEF Busy
  <2>5. ASSUME NEW v \in Versions
        PROVE  VersionInv(v)' /\ \A o \in Objects : Refers(v, o)' => Refers(v, o)
    <3>1. Told(v)' = {}  BY <1>2, <1>8 DEF Told
    <3>2. Told(v) = {}  BY <1>6, <2>2 DEF At
    <3>3. ~Waiting(v)' /\ Latest(v)' = Latest(v) /\ Goal(v)' = Goal(v)
      BY <1>5, <1>7, <2>4, <3>1, <3>2 DEF Waiting, Latest, Goal
    <3>4. VFresh(v)'  BY <2>4 DEF VFresh, Unreached
    <3>5. PICK h : Same(Pending, Pending', v, h)  BY <1>3, SameSelf
    <3>6. VersionInv(v)'
      BY <1>4, <1>5, <1>7, <2>3, <3>1, <3>2, <3>3, <3>4, <3>5, Framed DEF Tracked
    <3>7. \A o \in Objects : Refers(v, o)' => Refers(v, o)
      BY <1>3, <1>7, <2>4 DEF Refers
    <3> QED  BY <3>6, <3>7
  <2> QED  BY <2>5, OwnedStays DEF Tracked
<1>9. CASE Known # {}
  <2>1. PICK m : /\ m = Allocate(Known) /\ new' = [new EXCEPT ![watcher] = m] /\ Free(Known) # {}
                 /\ todo' = [todo EXCEPT ![watcher] = Known] /\ nodes' = Filled(m)
                 /\ pc' = [pc EXCEPT ![watcher] = "loop"]
    BY <1>9 DEF SnapshotArrives
  <2>2. new'[watcher] = m /\ todo'[watcher] = Known /\ pc'[watcher] = "loop"
    BY <2>1 DEF ConsulTyped, HandlersTyped
  <2>3. Busy'  BY <2>2 DEF Busy
  <2>4. ASSUME NEW v \in Versions
        PROVE  /\ VersionInv(v)'
               /\ \A o \in Objects : Refers(v, o)' => Refers(v, o) \/ (o = m[v] /\ o \in Unused)
    <3>1. Waiting(v)'
      BY <2>1, <2>2, <2>3, NewObjects DEF Waiting
    <3>2. Latest(v)' = Latest(v)
      BY <1>5, <1>7, <3>1 DEF Latest
    <3>3. \A o \in Objects : Refers(v, o) => nodes'[o] = nodes[o]
      BY <2>1, NewObjects
    <3>4. Goal(v) \subseteq Goal(v)'
      <4>1. CASE At(services, v) = None
        BY <1>5, <1>6, <4>1
      <4>2. CASE At(services, v) # None
        <5>1. Told(v) \subseteq nodes[At(services, v)]
          BY <1>5, <4>2 DEF Tracked, VersionInv, VLower
        <5>2. nodes'[At(services, v)] = nodes[At(services, v)]
          BY <3>3, <4>2, LatestIs
        <5> QED  BY <1>5, <1>7, <3>1, <4>2, <5>1, <5>2 DEF Goal, NodesAt
      <4> QED  BY <4>1, <4>2
    <3>5. VFresh(v)'
      <4> SUFFICES ASSUME v \in Known PROVE VFresh(v)'
        BY <2>2 DEF VFresh, Unreached
      <4>1. Told(v)' = Healthy(v)  BY <1>2 DEF Told, Snapshot
      <4>2. nodes'[m[v]] = Healthy(v) /\ ~Refers(v, m[v]) /\ m[v] # None  BY <2>1, NewObjects
      <4> QED  BY <1>3, <1>7, <2>2, <4>1, <4>2 DEF VFresh, Refers
    <3>6. PICK h : Same(Pending, Pending', v, h)  BY <1>3, SameSelf
    <3>7. VersionInv(v)'
      BY <1>4, <1>7, <3>1, <3>2, <3>3, <3>4, <3>5, <3>6, Framed DEF Tracked
    <3>8. ASSUME NEW o \in Objects, Refers(v, o)'
          PROVE  Refers(v, o) \/ (o = m[v] /\ o \in Unused)
      <4>1. CASE o = m[v]
        <5>1. v \in Known  BY <2>1, <4>1, NewObjects
        <5> QED  BY <2>1, <4>1, <5>1, NewObjects
      <4>2. CASE o # m[v]
        BY <1>3, <1>7, <2>2, <3>8, <4>2 DEF Refers
      <4> QED  BY <4>1, <4>2
    <3> QED  BY <3>7, <3>8
  <2>5. \A v, w \in Versions : m[v] \in Unused /\ m[v] = m[w] => v = w
    BY <2>1, NewObjects
  <2>6. Owned'  BY <2>4, <2>5, OwnedKept DEF Tracked
  <2> QED  BY <2>4, <2>6 DEF Tracked
<1> QED  BY <1>8, <1>9

\* A lookup: the entry is new, and holds the catalogue as the snapshot or is ahead of it.
LEMMA LookupTracked == ASSUME ConsulTyped, Ruled, Tracked, Lookup PROVE Tracked'
<1>1. PICK m : m = Allocate(Known) /\ cached' = m /\ nodes' = Filled(m) /\ Free(Known) # {}
  BY DEF Lookup
<1>2. cached = None /\ UNCHANGED <<services, plans, handlers, next>>  BY DEF Lookup
<1>3. Pending' = Pending  BY <1>2 DEF Pending
<1>4. Live' => watcher # NoPlan /\ seen[watcher] = Snapshot
  <2>1. ahead' = (watcher = NoPlan \/ seen[watcher] # Snapshot)  BY Zenon DEF Lookup
  <2> QED  BY <2>1, Zenon DEF Live
<1>5. Busy' <=> Busy  BY <1>2 DEF Busy
<1>6. ASSUME NEW v \in Versions
      PROVE  /\ VersionInv(v)'
             /\ \A o \in Objects : Refers(v, o)' => Refers(v, o) \/ (o = m[v] /\ o \in Unused)
  <2>1. PICK q, l, g : q = Pending /\ l = Latest(v) /\ g = Goal(v)  OBVIOUS
  <2>2. At(services', v) = At(services, v) /\ At(cached', v) = m[v]
    BY <1>1, <1>2, NewObjects DEF At
  <2>3. \A o \in Objects : Refers(v, o) => nodes'[o] = nodes[o]
    BY <1>1, NewObjects
  <2>4. (Waiting(v)' <=> Waiting(v)) /\ Told(v)' = Told(v)
    BY <1>2, <1>5 DEF Waiting, Told
  <2>5. Latest(v)' = l  BY <1>2, <1>5, <2>1, <2>2, <2>4 DEF Latest
  <2>6. Goal(v)' = g
    <3>1. NodesAt(nodes', At(services, v)) = NodesAt(nodes, At(services, v))
      BY <2>3, LatestIs DEF NodesAt
    <3> QED  BY <2>1, <2>2, <2>4, <3>1 DEF Goal
  <2>7. ASSUME v \in Known
        PROVE  /\ m[v] # None /\ nodes'[m[v]] = Healthy(v) /\ ~Refers(v, m[v]) /\ m[v] \in Unused
               /\ Live' => Told(v) = Healthy(v)
    BY <1>1, <1>4, <2>7, NewObjects DEF Told, Snapshot
  <2>8. ASSUME v \notin Known PROVE m[v] = None /\ (Live' => Told(v) = {})
    BY <1>1, <1>4, <2>8, NewObjects DEF Told, Snapshot
  <2>9. Live' => NodesAt(nodes', m[v]) = Told(v)
    BY <2>7, <2>8 DEF NodesAt
  <2>10. Chain(q, v, None, l) /\ Bounded(q, v, nodes, g)
    BY <1>2, <2>1 DEF Tracked, VersionInv, VChain, VBound, At
  <2>11. m[v] # None => v \in Known /\ \A n \in About(q, v) : q[n].service # m[v]
    BY <2>1, <2>7, <2>8 DEF Refers
  <2>12. VChain(v)'
    <3>1. Chain(q, v, m[v], l)  BY <2>10, <2>11 DEF Chain, Passed
    <3> QED  BY <1>3, <2>1, <2>2, <2>5, <3>1 DEF VChain
  <2>13. VBound(v)'
    <3>1. PICK h : Same(q, q, v, h)  BY SameSelf
    <3>2. \A n \in About(q, v) : nodes'[q[n].service] = nodes[q[n].service]
      BY <2>1, <2>3, PendingIs DEF Refers
    <3>3. Bounded(q, v, nodes', g)  BY <2>10, <3>1, <3>2, SameBounded
    <3> QED  BY <1>3, <2>1, <2>6, <3>3 DEF VBound
  <2>14. VEntry(v)'
    <3> SUFFICES ASSUME Live' PROVE EntryBounded(q, v, nodes', m[v], g)
      BY <1>3, <2>1, <2>2, <2>6 DEF VEntry
    <3>1. Told(v) \subseteq g  BY <2>1 DEF Goal
    <3> QED  BY <2>9, <3>1 DEF EntryBounded
  <2>15. VLower(v)'
    BY <2>1, <2>3, <2>4, <2>5, LatestIs DEF Tracked, VersionInv, VLower
  <2>16. VCaught(v)'
    BY <2>2, <2>4, <2>9 DEF VCaught
  <2>17. VFresh(v)'
    <3> SUFFICES ASSUME Unreached(v) PROVE VFresh(v)'
      BY <1>2, <1>5 DEF VFresh, Unreached
    <3>1. new[watcher][v] \in Objects /\ Refers(v, new[watcher][v])
      BY DEF Unreached, ConsulTyped, PlansTyped, HandlersTyped, Busy, Maps, Refers
    <3>2. new[watcher][v] # m[v]  BY <2>7, <2>8, <3>1
    <3> QED  BY <1>2, <1>3, <2>2, <2>3, <2>4, <3>1, <3>2 DEF VFresh, Tracked, VersionInv
  <2>18. ASSUME NEW o \in Objects, Refers(v, o)'
         PROVE  Refers(v, o) \/ (o = m[v] /\ o \in Unused)
    <3>1. CASE o = m[v]
      BY <2>7, <2>8, <3>1
    <3>2. CASE o # m[v]
      BY <1>2, <1>3, <1>5, <2>2, <2>18, <3>2 DEF Refers
    <3> QED  BY <3>1, <3>2
  <2> QED  BY <2>12, <2>13, <2>14, <2>15, <2>16, <2>17, <2>18 DEF VersionInv
<1>7. \A v, w \in Versions : m[v] \in Unused /\ m[v] = m[w] => v = w
  BY <1>1, NewObjects
<1>8. Owned'  BY <1>6, <1>7, OwnedKept DEF Tracked
<1> QED  BY <1>6, <1>8 DEF Tracked

-----------------------------------------------------------------------------
(* Comparisons *)

\* The results of a comparison come after those that wait.
LEMMA PendingAppends ==
    ASSUME ConsulTyped, watcher \in Plans, watcher # NoPlan, out[watcher] = <<>>, UNCHANGED <<watcher, next>>,
           NEW s, out' = [out EXCEPT ![watcher] = s]
    PROVE  Pending = next /\ Pending' = next \o s /\ next \in Seq(Results)
<1>1. next \in Seq(Results) /\ out'[watcher] = s  BY DEF ConsulTyped, QueuesTyped
<1>2. next \o <<>> = next  BY <1>1, ConcatEmptySeq
<1> QED  BY <1>1, <1>2 DEF Pending

\* What Compare finds: o is the watcher's object of v, and w the new one.
Finds(v, o, w, gone, a) ==
    /\ o = At(services, v) /\ w = new[watcher][v] /\ a \in {"create", "update"}
    /\ gone = NodesAt(nodes, o) \ nodes[w]
    /\ pc[watcher] = "loop" /\ out[watcher] = <<>> /\ v \in todo[watcher]
    /\ todo' = [todo EXCEPT ![watcher] = @ \ {v}]
    /\ \/ /\ gone = {} /\ UNCHANGED nodes
          /\ out' = [out EXCEPT ![watcher] = <<Result(a, v, w)>>]
       \/ /\ gone # {} /\ o # None /\ nodes' = [nodes EXCEPT ![o] = gone]
          /\ out' = [out EXCEPT ![watcher] = <<Result("delete", v, o), Result(a, v, w)>>]
    /\ UNCHANGED <<services, watcher, pc, new, seen, next, cached, ahead>>

LEMMA CompareFinds ==
    ASSUME ConsulTyped, Ruled, watcher \in Plans, watcher # NoPlan, Compare(watcher)
    PROVE  \E v \in Versions : \E o, w, gone, a : Finds(v, o, w, gone, a)
<1>1. PICK v \in todo[watcher] : Compares(watcher, v)  BY CompareIs
<1>2. v \in Versions  BY CompareTypes
<1>3. pc[watcher] = "loop"  BY <1>1 DEF Compares
<1>4. old[watcher] = services  BY <1>3 DEF Ruled, Knows
<1>5. PICK o, w, gone, a : /\ o = At(services, v) /\ w = new[watcher][v]
                           /\ gone = NodesAt(nodes, o) \ nodes[w]
                           /\ a = (IF o = None THEN "create" ELSE "update")
  OBVIOUS
<1>6. o = (IF old[watcher] = None THEN None ELSE old[watcher][v])  BY <1>4, <1>5 DEF At
<1>7. gone = (IF o = None THEN {} ELSE nodes[o] \ nodes[new[watcher][v]])  BY <1>5 DEF NodesAt
<1>8. Finds(v, o, w, gone, a)
  BY <1>1, <1>5, <1>6, <1>7 DEF Compares, Finds
<1> QED  BY <1>2, <1>8

\* What follows for version v and for the others
LEMMA FindsTyped ==
    ASSUME ConsulTyped, NEW v \in Versions, NEW o, NEW w, NEW gone, NEW a, Finds(v, o, w, gone, a),
           watcher \in Plans, watcher # NoPlan
    PROVE  /\ w \in Objects /\ w # None /\ o \in Objects \cup {None} /\ Busy /\ Busy' /\ Waiting(v)
           /\ Unreached(v) /\ ~Waiting(v)' /\ Latest(v)' = w /\ Latest(v) = o
           /\ Goal(v) = Told(v) \cup NodesAt(nodes, o) /\ Goal(v)' = Told(v) /\ Told(v)' = Told(v)
           /\ Result(a, v, w) \in Results /\ Result(a, v, w).version = v /\ Result(a, v, w).service = w
           /\ Result(a, v, w).action # "delete"
           /\ o # None => /\ Result("delete", v, o) \in Results /\ Result("delete", v, o).version = v
                          /\ Result("delete", v, o).service = o
                          /\ Result("delete", v, o).action = "delete"
           /\ At(cached', v) = At(cached, v) /\ (Live' <=> Live)
<1>1. v \in todo[watcher] /\ w = new[watcher][v] /\ pc[watcher] = "loop" /\ o = At(services, v)
  BY DEF Finds
<1>2. w \in Objects /\ w # None  BY <1>1, CompareTypes
<1>3. o \in Objects \cup {None}  BY <1>1, LatestIs
<1>4. Busy /\ Busy'  BY <1>1 DEF Busy, Finds
<1>5. Waiting(v) /\ Unreached(v)  BY <1>1, <1>4 DEF Waiting, Unreached
<1>6. v \notin todo'[watcher]  BY DEF Finds, ConsulTyped, HandlersTyped
<1>7. ~Waiting(v)'  BY <1>1, <1>2, <1>4, <1>6 DEF Waiting, Finds
<1>8. Told(v)' = Told(v)  BY DEF Told, Finds
<1>9. Latest(v) = o /\ Latest(v)' = w  BY <1>1, <1>4, <1>5, <1>7 DEF Latest, Finds
<1>10. Goal(v) = Told(v) \cup NodesAt(nodes, o) /\ Goal(v)' = Told(v)
  BY <1>1, <1>5, <1>7, <1>8 DEF Goal
<1>11. /\ Result(a, v, w) \in Results /\ Result(a, v, w).version = v /\ Result(a, v, w).service = w
       /\ Result(a, v, w).action # "delete"
  <2>1. a \in {"create", "update", "delete"} /\ a # "delete"  BY DEF Finds
  <2> QED  BY <1>2, <2>1, ResultOf
<1>12. o # None => /\ Result("delete", v, o) \in Results /\ Result("delete", v, o).version = v
                   /\ Result("delete", v, o).service = o /\ Result("delete", v, o).action = "delete"
  BY <1>3, ResultOf
<1>13. At(cached', v) = At(cached, v)  BY DEF At, Finds
<1>14. Live' <=> Live
  <2>1. UNCHANGED <<cached, ahead>>  BY DEF Finds
  <2> QED  BY <2>1, Zenon DEF Live
<1> QED  BY <1>2, <1>3, <1>4, <1>5, <1>7, <1>8, <1>9, <1>10, <1>11, <1>12, <1>13, <1>14

\* The compared version: what is gone is deleted, and the new object announced.
LEMMA ComparedVersion ==
    ASSUME ConsulTyped, NEW v \in Versions, VersionInv(v), NEW o, NEW w, NEW gone, NEW a,
           Finds(v, o, w, gone, a), watcher \in Plans, watcher # NoPlan
    PROVE  VersionInv(v)'
<1>1. PICK c, g : c = At(cached, v) /\ g = Told(v)  OBVIOUS
<1>2. PICK f : f = g \cup NodesAt(nodes, o)  OBVIOUS
<1>3. /\ nodes[w] = g /\ w # c /\ w # o
      /\ Unnamed(Pending, v, w)
  <2>1. w = new[watcher][v] /\ o = At(services, v)  BY DEF Finds
  <2> QED  BY <1>1, <2>1, FindsTyped DEF VersionInv, VFresh, Unnamed
<1>4. Chain(Pending, v, c, o) /\ Bounded(Pending, v, nodes, f)
  BY <1>1, <1>2, FindsTyped DEF VersionInv, VChain, VBound
<1>5. Live => EntryBounded(Pending, v, nodes, c, f)
  BY <1>1, <1>2, FindsTyped DEF VersionInv, VEntry
<1>6. /\ Chain(Pending', v, c, w) /\ Bounded(Pending', v, nodes', g) /\ About(Pending', v) # {}
      /\ Live => EntryBounded(Pending', v, nodes', c, g)
      /\ nodes'[w] = g
  <2>1. CASE gone = {}
    <3>1. out' = [out EXCEPT ![watcher] = <<Result(a, v, w)>>] /\ UNCHANGED nodes  BY <2>1 DEF Finds
    <3>2. PICK q, r, e : q = Pending /\ r = Pending' /\ e = Result(a, v, w)  OBVIOUS
    <3>3. q \in Seq(Results) /\ r = Append(q, e)
      <4>1. q \in Seq(Results) /\ r = q \o <<e>>
        BY <3>1, <3>2, PendingAppends DEF Finds
      <4> QED  BY <4>1
    <3>4. e \in Results /\ e.version = v /\ e.service = w /\ e.action # "delete"
      BY <3>2, FindsTyped
    <3>5. Added(q, r, v, w)  BY <3>3, <3>4, AppendedUpdate
    <3>8. f = g
      <4>1. NodesAt(nodes, o) \subseteq nodes[w]  BY <2>1 DEF Finds
      <4> QED  BY <1>2, <1>3, <4>1
    <3>9. /\ Chain(q, v, c, o) /\ Bounded(q, v, nodes, g) /\ nodes[w] \subseteq g
          /\ Unnamed(q, v, w)
      BY <1>3, <1>4, <3>2, <3>8
    <3>10. /\ Chain(r, v, c, w) /\ Bounded(r, v, nodes, g) /\ About(r, v) # {}
           /\ EntryBounded(q, v, nodes, c, g) => EntryBounded(r, v, nodes, c, g)
      BY <1>3, <3>5, <3>9, AddedKeeps
    <3> QED  BY <1>3, <1>5, <3>1, <3>2, <3>8, <3>10
  <2>2. CASE gone # {}
    <3>1. /\ out' = [out EXCEPT ![watcher] = <<Result("delete", v, o), Result(a, v, w)>>]
          /\ o # None /\ nodes' = [nodes EXCEPT ![o] = gone] /\ gone = NodesAt(nodes, o) \ nodes[w]
      BY <2>2 DEF Finds
    <3>2. PICK q, r, d, e : /\ q = Pending /\ r = Pending'
                            /\ d = Result("delete", v, o) /\ e = Result(a, v, w)
      OBVIOUS
    <3>3. q \in Seq(Results) /\ r = q \o <<d, e>>
      BY <3>1, <3>2, PendingAppends DEF Finds
    <3>4. /\ d \in Results /\ d.version = v /\ d.service = o /\ d.action = "delete"
          /\ e \in Results /\ e.version = v /\ e.service = w /\ e.action # "delete"
      BY <3>1, <3>2, FindsTyped
    <3>5. PICK t : Removed(q, t, v, o) /\ Added(t, r, v, w)  BY <3>3, <3>4, AppendedTwo
    <3>8. /\ nodes'[o] = nodes[o] \ g /\ f = g \cup nodes[o]
          /\ \A x \in Objects : x # o => nodes'[x] = nodes[x]
      <4>1. o \in Objects /\ nodes \in [Objects -> SUBSET Instances]
        BY <3>1, FindsTyped DEF ConsulTyped, ObjectsTyped
      <4> QED  BY <1>2, <1>3, <3>1, <4>1 DEF NodesAt
    <3>9. nodes'[w] = g  BY <1>3, <3>8, FindsTyped
    <3>10. \A n \in About(q, v) : q[n].service # o => nodes'[q[n].service] = nodes[q[n].service]
      BY <3>2, <3>8, PendingIs
    <3>11. c # o => NodesAt(nodes', c) = NodesAt(nodes, c)
      BY <1>1, <3>8, LatestIs DEF NodesAt
    <3>12. /\ Chain(q, v, c, o) /\ Bounded(q, v, nodes, f) /\ Unnamed(q, v, w)
      BY <1>3, <1>4, <3>2
    <3>13. PICK ns, ns2 : ns = nodes /\ ns2 = nodes'  OBVIOUS
    <3>14. /\ Shrunk(q, v, c, o, ns, ns2, g, f) /\ ns2[w] \subseteq g
           /\ Bounded(q, v, ns, f) /\ o # None /\ w # c /\ w # o
      BY <1>3, <3>1, <3>8, <3>9, <3>10, <3>11, <3>12, <3>13 DEF Shrunk
    <3>15. /\ Chain(r, v, c, w) /\ Bounded(r, v, ns2, g) /\ About(r, v) # {}
           /\ EntryBounded(q, v, ns, c, f) => EntryBounded(r, v, ns2, c, g)
      BY <3>5, <3>12, <3>14, Replaced
    <3> QED  BY <1>5, <3>2, <3>9, <3>13, <3>15
  <2> QED  BY <2>1, <2>2
<1>7. VChain(v)' /\ VBound(v)' /\ VEntry(v)'
  BY <1>1, <1>6, FindsTyped DEF VChain, VBound, VEntry
<1>8. VLower(v)' /\ VCaught(v)'
  BY <1>1, <1>6, FindsTyped DEF VLower, VCaught
<1>9. VFresh(v)'
  <2>1. v \notin todo'[watcher'] BY DEF Finds, ConsulTyped, HandlersTyped
  <2> QED  BY <2>1 DEF VFresh, Unreached
<1> QED  BY <1>7, <1>8, <1>9 DEF VersionInv

\* The results of a comparison: all about one version, and none about another
LEMMA FindsSends ==
    ASSUME ConsulTyped, NEW v \in Versions, NEW o, NEW w, NEW gone, NEW a, Finds(v, o, w, gone, a),
           watcher \in Plans, watcher # NoPlan
    PROVE  \E s \in Seq(Results) :
              /\ out' = [out EXCEPT ![watcher] = s]
              /\ \A n \in 1..Len(s) : s[n].version = v /\ s[n].service \in {o, w}
<1>1. PICK d, e : d = Result("delete", v, o) /\ e = Result(a, v, w)  OBVIOUS
<1>2. e \in Results /\ e.version = v /\ e.service = w  BY <1>1, FindsTyped
<1>3. CASE gone = {}
  <2>1. PICK s : s = <<e>>  OBVIOUS
  <2>2. s \in Seq(Results) /\ \A n \in 1..Len(s) : s[n] = e  BY <1>2, <2>1
  <2>3. out' = [out EXCEPT ![watcher] = s]  BY <1>1, <1>3, <2>1 DEF Finds
  <2>4. \A n \in 1..Len(s) : s[n].version = v /\ s[n].service \in {o, w}  BY <1>2, <2>2
  <2> QED  BY <2>2, <2>3, <2>4, Zenon
<1>4. CASE gone # {}
  <2>1. PICK s : s = <<d, e>>  OBVIOUS
  <2>0. o # None  BY <1>4 DEF Finds
  <2>2. d \in Results /\ d.version = v /\ d.service = o  BY <1>1, <2>0, FindsTyped
  <2>3. s \in Seq(Results) /\ \A n \in 1..Len(s) : s[n] = d \/ s[n] = e  BY <1>2, <2>1, <2>2
  <2>4. out' = [out EXCEPT ![watcher] = s]  BY <1>1, <1>4, <2>1 DEF Finds
  <2>5. \A n \in 1..Len(s) : s[n].version = v /\ s[n].service \in {o, w}  BY <1>2, <2>2, <2>3
  <2> QED  BY <2>3, <2>4, <2>5, Zenon
<1> QED  BY <1>3, <1>4

\* A result about v names x.
Names(q, v, x) == \E n \in About(q, v) : q[n].service = x

LEMMA AppendedRefer ==
    ASSUME NEW q \in Seq(Results), NEW s \in Seq(Results), NEW r, r = q \o s, NEW v, NEW x, Names(r, v, x)
    PROVE  Names(q, v, x) \/ Names(s, v, x)
<1>1. Appended(q, s, r, v)  BY AppendExtended
<1> QED  BY <1>1 DEF Appended, Extended, Names

\* The comparison of one version changes only the object of that version.
LEMMA CompareTracked ==
    ASSUME ConsulTyped, Ruled, Tracked, watcher \in Plans, watcher # NoPlan, Compare(watcher)
    PROVE  Tracked'
<1>0. PICK v \in Versions : \E o, w, gone, a : Finds(v, o, w, gone, a)  BY CompareFinds
<1>1. PICK o, w, gone, a : Finds(v, o, w, gone, a)  BY <1>0
<1>2. PICK s \in Seq(Results) :
              /\ out' = [out EXCEPT ![watcher] = s]
              /\ \A n \in 1..Len(s) : s[n].version = v /\ s[n].service \in {o, w}
  BY <1>1, FindsSends
<1>3. PICK q, r : q = Pending /\ r = Pending'  OBVIOUS
<1>4. q \in Seq(Results) /\ r = q \o s
  BY <1>1, <1>2, <1>3, PendingAppends DEF Finds
<1>5. /\ UNCHANGED <<services, watcher, pc, new, seen, next, cached, ahead>>
      /\ o = At(services, v) /\ w = new[watcher][v]
      /\ Busy /\ Busy' /\ (Live' <=> Live) /\ w \in Objects /\ o \in Objects \cup {None}
  <2>1. /\ UNCHANGED <<services, watcher, pc, new, seen, next, cached, ahead>>
        /\ o = At(services, v) /\ w = new[watcher][v]
    BY <1>1 DEF Finds
  <2>2. Busy /\ Busy' /\ (Live' <=> Live) /\ w \in Objects /\ o \in Objects \cup {None}
    BY <1>1, FindsTyped
  <2> QED  BY <2>1, <2>2
<1>6. \A x \in Objects : x # o => nodes'[x] = nodes[x]
  <2>1. nodes \in [Objects -> SUBSET Instances]  BY DEF ConsulTyped, ObjectsTyped
  <2> QED  BY <1>1, <1>5, <2>1 DEF Finds
<1>7. \A u \in Versions : At(services', u) = At(services, u) /\ At(cached', u) = At(cached, u)
  BY <1>5 DEF At
<1>8. ASSUME NEW u \in Versions, u # v
      PROVE  VersionInv(u)' /\ \A x \in Objects : Refers(u, x)' => Refers(u, x)
  <2>1. PICK h : Same(q, r, u, h)  BY <1>2, <1>4, <1>8, AppendSame
  <2>2. \A x \in Objects : Refers(u, x) => nodes'[x] = nodes[x]
    <3>1. o # None => Refers(v, o)  BY <1>5 DEF Refers
    <3> QED  BY <1>5, <1>6, <1>8, <3>1 DEF Tracked, Owned
  <2>3. u \in todo'[watcher] <=> u \in todo[watcher]
    BY <1>1, <1>8 DEF Finds, ConsulTyped, HandlersTyped
  <2> QED  BY <1>3, <1>5, <1>7, <2>1, <2>2, <2>3, Quiet DEF Tracked
<1>9. VersionInv(v)'  BY <1>1, ComparedVersion DEF Tracked
<1>10. ASSUME NEW x \in Objects, Refers(v, x)' PROVE Refers(v, x)
  <2>1. ASSUME NEW n \in About(s, v) PROVE s[n].service \in {o, w}  BY <1>2 DEF About
  <2>2. ASSUME \E n \in About(r, v) : r[n].service = x PROVE Refers(v, x)
    <3>1. CASE Names(q, v, x)  BY <1>3, <3>1 DEF Refers, Names
    <3>2. CASE Names(s, v, x)  BY <1>5, <2>1, <3>2 DEF Refers, Names
    <3>3. Names(r, v, x)  BY <2>2 DEF Names
    <3> QED  BY <1>4, <3>1, <3>2, <3>3, AppendedRefer
  <2> QED  BY <1>3, <1>5, <1>7, <1>10, <2>2 DEF Refers
<1> QED  BY <1>8, <1>9, <1>10, OwnedStays DEF Tracked

\* The versions that are gone are reported: what the watcher holds of the others stays.
LEMMA GoneIs ==
    ASSUME ConsulTyped, Ruled, watcher \in Plans, watcher # NoPlan, CompareVersions(watcher), NEW v \in Versions
    PROVE  /\ Busy /\ Busy' /\ ~Waiting(v)' /\ (Waiting(v) <=> new[watcher][v] = None)
           /\ ~Unreached(v)'
           /\ new[watcher][v] = None => Told(v) = {}
           /\ Told(v)' = Told(v) /\ Latest(v)' = new[watcher][v]
           /\ v \in Gone(watcher) <=> At(services, v) # None /\ new[watcher][v] = None
           /\ old[watcher] = services /\ At(services', v) = At(services, v)
           /\ At(cached', v) = At(cached, v) /\ (Live' <=> Live)
           /\ UNCHANGED <<nodes, services, watcher, next, new, seen, cached, ahead>>
           /\ out[watcher] = <<>>
<1>1. /\ pc[watcher] = "loop" /\ todo[watcher] = {} /\ out[watcher] = <<>>
      /\ pc' = [pc EXCEPT ![watcher] = "store"]
      /\ UNCHANGED <<nodes, services, watcher, next, new, todo, seen, cached, ahead>>
  BY DEF CompareVersions
<1>2. pc'[watcher] = "store"  BY <1>1 DEF ConsulTyped, HandlersTyped
<1>3. Busy /\ Busy'  BY <1>1, <1>2 DEF Busy
<1>4. ~Waiting(v)' /\ (Waiting(v) <=> new[watcher][v] = None)  BY <1>1, <1>2, <1>3 DEF Waiting
<1>5. ~Unreached(v)'  BY <1>1 DEF Unreached
<1>6. old[watcher] = services /\ (new[watcher][v] # None <=> v \in DOMAIN seen[watcher])
  BY <1>1 DEF Ruled, Knows
<1>7. Told(v)' = Told(v) /\ (new[watcher][v] = None => Told(v) = {})  BY <1>1, <1>6 DEF Told
<1>8. Latest(v)' = new[watcher][v]  BY <1>1, <1>3, <1>4 DEF Latest
<1>9. v \in Gone(watcher) <=> At(services, v) # None /\ new[watcher][v] = None
  BY <1>6 DEF Gone, At
<1>10. At(services', v) = At(services, v) /\ At(cached', v) = At(cached, v)  BY <1>1 DEF At
<1>11. Live' <=> Live  BY <1>1, Zenon DEF Live
<1> QED  BY <1>1, <1>3, <1>4, <1>5, <1>6, <1>7, <1>8, <1>9, <1>10, <1>11

LEMMA CompareVersionsTracked ==
    ASSUME ConsulTyped, Ruled, Tracked, watcher \in Plans, watcher # NoPlan, CompareVersions(watcher)
    PROVE  Tracked'
<1>1. PICK s \in Seq(Results) :
          /\ out' = [out EXCEPT ![watcher] = s]
          /\ \A n \in 1..Len(s) : /\ s[n].version \in Gone(watcher) /\ s[n].action = "delete"
                                  /\ s[n].service = old[watcher][s[n].version]
          /\ \A v \in Gone(watcher) : \E n \in 1..Len(s) : s[n].version = v
  BY GoneSent
<1>2. PICK q, r : q = Pending /\ r = Pending'  OBVIOUS
<1>3. q \in Seq(Results) /\ r = q \o s
  <2>1. out[watcher] = <<>> /\ UNCHANGED <<watcher, next>>  BY DEF CompareVersions
  <2> QED  BY <1>1, <1>2, <2>1, PendingAppends
<1>4. ASSUME NEW v \in Versions, NEW n \in About(s, v)
      PROVE  v \in Gone(watcher) /\ s[n].action = "delete" /\ s[n].service = At(services, v)
  <2>1. /\ s[n].version = v /\ v \in Gone(watcher) /\ s[n].action = "delete"
        /\ s[n].service = old[watcher][v]
    BY <1>1, <1>4, AboutNat
  <2>2. old[watcher] = services /\ At(services, v) # None  BY <2>1, GoneIs
  <2>3. At(services, v) = services[v]  BY <2>2 DEF At
  <2> QED  BY <2>1, <2>2, <2>3
<1>5. ASSUME NEW v \in Versions, v \notin Gone(watcher) PROVE VersionInv(v)'
  <2>1. \A n \in 1..Len(s) : s[n].version # v  BY <1>1, <1>5
  <2>2. PICK h : Same(q, r, v, h)  BY <1>3, <2>1, AppendSame
  <2>3. Latest(v)' = Latest(v)  BY <1>5, GoneIs DEF Latest
  <2>4. Goal(v)' = Goal(v)  BY <1>5, GoneIs DEF Goal, NodesAt
  <2>5. VFresh(v)'  BY GoneIs DEF VFresh
  <2>6. ~Waiting(v)' /\ Latest(v) # None => ~Waiting(v) /\ Told(v)' = Told(v)
    BY <2>3, GoneIs
  <2>7. \A o \in Objects : Refers(v, o) => nodes'[o] = nodes[o]  BY GoneIs
  <2>8. At(cached', v) = At(cached, v) /\ (Live' => Live)  BY GoneIs
  <2> QED  BY <1>2, <2>2, <2>3, <2>4, <2>5, <2>6, <2>7, <2>8, Framed DEF Tracked
<1>6. ASSUME NEW v \in Gone(watcher) PROVE VersionInv(v)'
  <2>0. v \in Versions  BY DEF Gone
  <2>1. PICK c, l, f : c = At(cached, v) /\ l = At(services, v) /\ f = nodes[l]  OBVIOUS
  <2>2. /\ l # None /\ new[watcher][v] = None /\ Waiting(v) /\ Told(v) = {} /\ Told(v)' = {}
        /\ Latest(v)' = None /\ ~Waiting(v)'
    BY <2>0, <2>1, GoneIs
  <2>3. Goal(v)' = {} /\ Goal(v) = f /\ Latest(v) = l
    BY <2>1, <2>2 DEF Goal, NodesAt, Latest
  <2>4. Chain(q, v, c, l) /\ Bounded(q, v, nodes, f) /\ (Live => EntryBounded(q, v, nodes, c, f))
    BY <1>2, <2>0, <2>1, <2>3 DEF Tracked, VersionInv, VChain, VBound, VEntry
  <2>5. About(s, v) # {}  BY <1>1, <1>6 DEF About
  <2>6. Removed(q, r, v, l)  BY <1>3, <1>4, <2>0, <2>1, <2>5, AppendedDeletes
  <2>7. PICK ns, g : ns = nodes /\ g = {}  OBVIOUS
  <2>8. Shrunk(q, v, c, l, ns, ns, g, f)  BY <2>1, <2>7 DEF Shrunk
  <2>9. /\ Chain(r, v, c, None) /\ Bounded(r, v, ns, g)
        /\ EntryBounded(q, v, ns, c, f) => EntryBounded(r, v, ns, c, g)
    BY <2>2, <2>4, <2>6, <2>7, <2>8, RemovedKeeps
  <2>10. UNCHANGED nodes /\ At(cached', v) = c /\ (Live' <=> Live)  BY <2>0, <2>1, GoneIs
  <2>11. VChain(v)'  BY <1>2, <2>2, <2>9, <2>10 DEF VChain
  <2>12. VBound(v)'  BY <1>2, <2>3, <2>7, <2>9, <2>10 DEF VBound
  <2>13. VEntry(v)'  BY <1>2, <2>3, <2>4, <2>7, <2>9, <2>10 DEF VEntry
  <2>14. VLower(v)' /\ VCaught(v)'  BY <2>2 DEF VLower, VCaught
  <2>15. VFresh(v)'  BY <2>0, GoneIs DEF VFresh
  <2> QED  BY <2>11, <2>12, <2>13, <2>14, <2>15 DEF VersionInv
<1>7. ASSUME NEW v \in Versions, NEW x \in Objects, Refers(v, x)' PROVE Refers(v, x)
  <2>1. ASSUME \E n \in About(r, v) : r[n].service = x PROVE Refers(v, x)
    <3>1. CASE Names(q, v, x)  BY <1>2, <3>1 DEF Refers, Names
    <3>2. CASE Names(s, v, x)  BY <1>4, <3>2 DEF Refers, Names
    <3>3. Names(r, v, x)  BY <2>1 DEF Names
    <3> QED  BY <1>3, <3>1, <3>2, <3>3, AppendedRefer
  <2> QED  BY <1>2, <1>7, <2>1, GoneIs DEF Refers
<1> QED  BY <1>5, <1>6, <1>7, OwnedStays DEF Tracked

-----------------------------------------------------------------------------
(* The cache takes a result *)

\* The first of the results that wait is the first of next.
LEMMA TailConcat ==
    ASSUME NEW R, NEW a \in Seq(R), NEW b \in Seq(R), a # <<>>, NEW q, q = a \o b
    PROVE  q \in Seq(R) /\ q # <<>> /\ Tail(q) = Tail(a) \o b /\ Head(q) = Head(a) /\ q[1] = a[1]
<1>1. q \in Seq(R) /\ Len(q) = Len(a) + Len(b) /\ Len(a) \in Nat \ {0} /\ Len(b) \in Nat
  OBVIOUS
<1>2. q # <<>> /\ Head(q) = Head(a) /\ q[1] = a[1]  BY <1>1
<1>3. Tail(q) \in Seq(R) /\ Tail(a) \o b \in Seq(R)  BY <1>1, <1>2
<1>4. Len(Tail(q)) = Len(q) - 1 /\ Len(Tail(a) \o b) = Len(q) - 1  BY <1>1, <1>2
<1>5. ASSUME NEW n \in 1..Len(q) - 1 PROVE Tail(q)[n] = (Tail(a) \o b)[n]
  <2>1. Tail(q)[n] = q[n + 1]  BY <1>1, <1>2
  <2>2. CASE n <= Len(a) - 1  BY <1>1, <2>1, <2>2
  <2>3. CASE n > Len(a) - 1  BY <1>1, <2>1, <2>3
  <2> QED  BY <1>1, <2>2, <2>3
<1> QED  BY <1>2, <1>1, <1>3, <1>4, <1>5, SeqEqual

\* What taking the first of the results q, about an object u of version v, does to the
\* entry c of v and to the nodes of the objects
Shrinks(c, u, ns, ns2) == /\ ns2[c] = ns[c] \ ns[u]
                          /\ \A o \in Objects : o # c => ns2[o] = ns[o]
Grows(c, u, ns, ns2) == /\ ns2[u] = ns[u] \cup NodesAt(ns, c)
                        /\ \A o \in Objects : o # u => ns2[o] = ns[o]
Taken(q, u, c, d, ns, ns2, live) ==
    \/ Deletes(q, 1) /\ ns2 = ns /\ d \in {None, c} /\ (live => d = None)
    \/ Deletes(q, 1) /\ c # None /\ d = c /\ ns[u] # {} /\ Shrinks(c, u, ns, ns2)
    \/ ~Deletes(q, 1) /\ ns2 = ns /\ d = c /\ (ns[u] = {} \/ (c = None /\ ~live))
    \/ ~Deletes(q, 1) /\ d = u /\ ns[u] # {} /\ Grows(c, u, ns, ns2)
InObjects(q, v) == \A n \in About(q, v) : q[n].service \in Objects

\* The order and the bounds after a result is taken
LEMMA TakenFollows ==
    ASSUME NEW q, NEW t, NEW v, NEW h, Rest(q, t, v, h), NEW c, NEW l, Chain(q, v, c, l),
           NEW u, u = q[1].service, u # None, NEW d, NEW ns, NEW ns2, NEW live \in BOOLEAN,
           Taken(q, u, c, d, ns, ns2, live), InObjects(q, v), NEW g, Bounded(q, v, ns, g)
    PROVE  /\ Chain(t, v, d, l) /\ Bounded(t, v, ns2, g)
           /\ live /\ EntryBounded(q, v, ns, c, g) => EntryBounded(t, v, ns2, d, g)
<1>1. Chain(t, v, d, l)
  <2>1. d \in {None, c} \/ (d = q[1].service /\ ~Deletes(q, 1))  BY DEF Taken
  <2> QED  BY <2>1, RestChain
<1>2. CASE Deletes(q, 1) /\ ns2 = ns /\ d \in {None, c} /\ (live => d = None)
  <2>1. Bounded(t, v, ns2, g)  BY <1>2, RestDeleted
  <2>2. live => EntryBounded(t, v, ns2, d, g)  BY <1>2 DEF EntryBounded, NodesAt
  <2> QED  BY <1>1, <2>1, <2>2
<1>3. CASE Deletes(q, 1) /\ c # None /\ d = c /\ ns[u] # {} /\ Shrinks(c, u, ns, ns2)
  <2>1. \A n \in About(q, v) : q[n].service # c => ns2[q[n].service] = ns[q[n].service]
    BY <1>3 DEF Shrinks, InObjects
  <2>2. ns2[c] = ns[c] \ ns[q[1].service]  BY <1>3 DEF Shrinks
  <2>3. /\ Bounded(t, v, ns2, g)
        /\ EntryBounded(q, v, ns, c, g) => EntryBounded(t, v, ns2, c, g)
    BY <1>3, <2>1, <2>2, RestDeleted
  <2> QED  BY <1>1, <1>3, <2>3
<1>4. CASE ~Deletes(q, 1) /\ ns2 = ns /\ d = c /\ ns[u] = {}
  BY <1>1, <1>4, RestIgnored
<1>5. CASE ~Deletes(q, 1) /\ ns2 = ns /\ d = c /\ c = None /\ ~live /\ ns[u] # {}
  <2>1. Joined(q, v, ns, ns, c, u) /\ ~Deletes(q, 1)  BY <1>5 DEF NodesAt, Joined
  <2>2. Bounded(t, v, ns, g)  BY <2>1, RestApplied
  <2> QED  BY <1>1, <1>5, <2>2
<1>6. CASE ~Deletes(q, 1) /\ d = u /\ ns[u] # {} /\ Grows(c, u, ns, ns2)
  <2>1. Joined(q, v, ns, ns2, c, u)  BY <1>6 DEF Grows, InObjects, Joined
  <2>2. ~Deletes(q, 1)  BY <1>6
  <2>3. /\ Bounded(t, v, ns2, g)
        /\ EntryBounded(q, v, ns, c, g) => EntryBounded(t, v, ns2, u, g)
    BY <2>1, <2>2, RestApplied
  <2> QED  BY <1>1, <1>6, <2>3
<1> QED  BY <1>2, <1>3, <1>4, <1>5, <1>6 DEF Taken

\* The watcher's latest object keeps its nodes, and they are in the entry once no result is left.
Covers(t, v, l, d, ns, ns2, live) ==
    /\ ns[l] \subseteq ns2[l]
    /\ live /\ About(t, v) = {} => ns[l] \subseteq NodesAt(ns2, d)

LEMMA TakenLatest ==
    ASSUME NEW q, NEW t, NEW v, NEW h, Rest(q, t, v, h), NEW c, NEW l, Chain(q, v, c, l),
           l \in Objects, l # None,
           NEW u, u = q[1].service, NEW d, NEW ns, NEW ns2, NEW live \in BOOLEAN,
           Taken(q, u, c, d, ns, ns2, live)
    PROVE  Covers(t, v, l, d, ns, ns2, live)
<1>1. 1 \in About(q, v)  BY DEF Rest
<1>2. PICK m \in About(q, v) : q[m].service = l /\ ~Deletes(q, m)
  BY <1>1 DEF Chain, Final
<1>3. c # l  BY <1>2 DEF Chain, Passed
<1>4. ns[l] \subseteq ns2[l]
  BY <1>3 DEF Taken, Shrinks, Grows
<1>5. ASSUME live, About(t, v) = {} PROVE ns[l] \subseteq NodesAt(ns2, d)
  <2>1. m = 1  BY <1>2, <1>5 DEF Rest
  <2>2. u = l /\ ~Deletes(q, 1)  BY <1>2, <2>1
  <2>3. CASE ns[u] = {}  BY <2>2, <2>3
  <2>4. CASE d = u  BY <1>4, <2>2, <2>4 DEF NodesAt
  <2> QED  BY <1>5, <2>2, <2>3, <2>4 DEF Taken
<1> QED  BY <1>4, <1>5 DEF Covers

\* No other object changes.
LEMMA TakenOthers ==
    ASSUME NEW q, NEW u, NEW c, NEW d, NEW ns, NEW ns2, NEW live \in BOOLEAN, Taken(q, u, c, d, ns, ns2, live)
    PROVE  /\ \A o \in Objects : o # c /\ o # u => ns2[o] = ns[o]
           /\ d \in {None, c, u}
BY DEF Taken, Shrinks, Grows

\* What the cache does with a result about version v
LEMMA TookIs ==
    ASSUME ConsulTyped, NEW q, NEW r, r = q[1], Took(r), NEW v \in Versions, r.version = v,
           NEW u \in Objects, r.service = u, NEW live \in BOOLEAN, live <=> cached' # None
    PROVE  /\ Taken(q, u, At(cached, v), At(cached', v), nodes, nodes', live)
           /\ cached' # None => cached # None
           /\ \A w \in Versions : w # v => cached' = None \/ At(cached', w) = At(cached, w)
<1>1. /\ nodes \in [Objects -> SUBSET Instances] /\ cached \in Maps \cup {None} /\ u # None
  BY DEF ConsulTyped, ObjectsTyped
<1>2. PICK c, d : c = At(cached, v) /\ d = At(cached', v)  OBVIOUS
<1>3. Deletes(q, 1) <=> r.action = "delete"  BY DEF Deletes
<1>4. CASE cached = None /\ UNCHANGED <<cached, nodes>>
  BY <1>2, <1>3, <1>4 DEF At, Taken
<1>5. CASE cached # None /\ nodes[u] = {} /\ r.action = "delete" /\ cached' = None /\ nodes' = nodes
  BY <1>2, <1>3, <1>5 DEF At, Taken
<1>6. CASE cached # None /\ nodes[u] = {} /\ r.action # "delete" /\ UNCHANGED <<cached, nodes>>
  BY <1>2, <1>3, <1>6 DEF At, Taken
<1>7. CASE cached # None /\ nodes[u] # {}
  <2>0. cached \in Maps /\ c = cached[v] /\ c \in Objects \cup {None}
    BY <1>1, <1>2, <1>7 DEF At, Maps
  <2>1. CASE r.action = "delete" /\ c = None /\ UNCHANGED <<cached, nodes>>
    BY <1>2, <1>3, <1>7, <2>1 DEF At, Taken
  <2>2. CASE /\ r.action = "delete" /\ c # None /\ UNCHANGED cached
             /\ nodes' = [nodes EXCEPT ![c] = @ \ nodes[u]]
    <3>1. Shrinks(c, u, nodes, nodes')  BY <1>1, <2>0, <2>2 DEF Shrinks
    <3>2. d = c /\ \A w \in Versions : At(cached', w) = At(cached, w)  BY <1>2, <2>2 DEF At
    <3> QED  BY <1>2, <1>3, <1>7, <2>2, <3>1, <3>2 DEF Taken
  <2>3. CASE /\ r.action = "delete" /\ c # None /\ UNCHANGED nodes
             /\ cached' = None \/ cached' = [cached EXCEPT ![v] = None]
    <3>1. d = None /\ \A w \in Versions : w # v => cached' = None \/ At(cached', w) = At(cached, w)
      BY <1>2, <1>7, <2>0, <2>3 DEF At, Maps
    <3> QED  BY <1>2, <1>3, <1>7, <2>3, <3>1 DEF Taken
  <2>4. CASE /\ r.action # "delete" /\ cached' = [cached EXCEPT ![v] = u]
             /\ \/ c = None /\ UNCHANGED nodes
                \/ c # None /\ nodes' = [nodes EXCEPT ![u] = @ \cup nodes[c]]
    <3>1. Grows(c, u, nodes, nodes')  BY <1>1, <2>0, <2>4 DEF Grows, NodesAt
    <3>2. cached' \in Maps  BY <2>0, <2>4 DEF Maps
    <3>3. cached' # None  BY <3>2, NoneNoMap
    <3>4. d = u /\ \A w \in Versions : w # v => At(cached', w) = At(cached, w)
      BY <1>2, <1>7, <2>0, <2>4, <3>3 DEF At, Maps
    <3> QED  BY <1>2, <1>3, <1>7, <2>4, <3>1, <3>4 DEF Taken
  <2> QED  BY <1>1, <1>7, <2>0, <2>1, <2>2, <2>3, <2>4 DEF Took
<1> QED  BY <1>1, <1>4, <1>5, <1>6, <1>7 DEF Took

\* The version of the result that is taken
LEMMA TakenVersion ==
    ASSUME ConsulTyped, NEW v \in Versions, VersionInv(v), NEW q, NEW t, q = Pending, t = Pending',
           NEW h, Rest(q, t, v, h), NEW u \in Objects, q[1].service = u,
           NEW live \in BOOLEAN, Live' => live /\ Live,
           Taken(q, u, At(cached, v), At(cached', v), nodes, nodes', live),
           UNCHANGED <<services, watcher, pc, new, seen, todo>>
    PROVE  VersionInv(v)' /\ \A x \in Objects : Refers(v, x)' => Refers(v, x)
<1>1. PICK c, d, l, g, f : /\ c = At(cached, v) /\ d = At(cached', v)
                           /\ l = Latest(v) /\ g = Goal(v) /\ f = Goal(v)'
  OBVIOUS
<1>2. PICK ns, ns2 : ns = nodes /\ ns2 = nodes'  OBVIOUS
<1>3. /\ Taken(q, u, c, d, ns, ns2, live) /\ InObjects(q, v) /\ u # None
      /\ Chain(q, v, c, l) /\ Bounded(q, v, ns, g)
  BY <1>1, <1>2, PendingIs DEF VersionInv, VChain, VBound, InObjects
<1>4. /\ Chain(t, v, d, l) /\ Bounded(t, v, ns2, g)
      /\ live /\ EntryBounded(q, v, ns, c, g) => EntryBounded(t, v, ns2, d, g)
  BY <1>3, TakenFollows
<1>5. l \in Objects /\ l # None => Covers(t, v, l, d, ns, ns2, live)
  BY <1>3, TakenLatest
<1>6. /\ (Busy' <=> Busy) /\ (Waiting(v)' <=> Waiting(v)) /\ (Unreached(v)' <=> Unreached(v))
      /\ At(services', v) = At(services, v)
  BY DEF Busy, Waiting, Unreached, At
<1>7. Told(v)' = Told(v)  BY DEF Told
<1>8. Latest(v)' = l  BY <1>1, <1>6 DEF Latest
<1>9. l \in Objects \cup {None}  BY <1>1, LatestIs
<1>10. g \subseteq f
  <2>1. CASE Waiting(v)
    <3>1. l = At(services, v)  BY <1>1, <2>1, LatestIs
    <3>2. NodesAt(nodes, l) \subseteq NodesAt(nodes', l)  BY <1>2, <1>5, <1>9 DEF NodesAt, Covers
    <3> QED  BY <1>1, <1>6, <1>7, <2>1, <3>1, <3>2 DEF Goal
  <2>2. CASE ~Waiting(v)
    BY <1>1, <1>6, <1>7, <2>2 DEF Goal
  <2> QED  BY <2>1, <2>2
<1>11. Bounded(t, v, ns2, f) /\ (EntryBounded(t, v, ns2, d, g) => EntryBounded(t, v, ns2, d, f))
  BY <1>4, <1>10, BoundedMore
<1>12. VChain(v)' /\ VBound(v)'
  BY <1>1, <1>2, <1>4, <1>8, <1>11 DEF VChain, VBound
<1>13. VEntry(v)'
  BY <1>1, <1>2, <1>4, <1>11 DEF VersionInv, VEntry
<1>14. VLower(v)'
  BY <1>1, <1>2, <1>5, <1>6, <1>7, <1>8, <1>9 DEF VersionInv, VLower, Covers
<1>15. VCaught(v)'
  BY <1>1, <1>2, <1>5, <1>6, <1>7, <1>8, <1>9 DEF VersionInv, VLower, VCaught, Covers
<1>16. d \in {None, c, u} /\ \A o \in Objects : o # c /\ o # u => nodes'[o] = nodes[o]
  BY <1>2, <1>3, TakenOthers
<1>17. 1 \in About(q, v)  BY DEF Rest
<1>18. \A n \in About(t, v) : \E m \in About(q, v) : q[m].service = t[n].service  BY DEF Rest
<1>19. VFresh(v)'
  <2>1. CASE Unreached(v)
    <3>1. PICK w : w = new[watcher][v]  OBVIOUS
    <3>2. w \in Objects
      BY <2>1, <3>1 DEF Unreached, ConsulTyped, PlansTyped, HandlersTyped, Busy, Maps
    <3>3. w # c /\ w # u  BY <1>1, <1>17, <2>1, <3>1 DEF VersionInv, VFresh
    <3>4. nodes'[w] = nodes[w]  BY <1>16, <3>2, <3>3
    <3>5. \/ At(cached', v) \in {None, At(cached, v)}
          \/ \E n \in About(Pending, v) : Pending[n].service = At(cached', v)
      BY <1>1, <1>16, <1>17
    <3> QED  BY <1>6, <1>7, <1>18, <2>1, <3>1, <3>4, <3>5, FreshKept DEF VersionInv
  <2>2. CASE ~Unreached(v)
    BY <1>6, <2>2 DEF VFresh
  <2> QED  BY <2>1, <2>2
<1>20. ASSUME NEW x \in Objects, Refers(v, x)' PROVE Refers(v, x)
  BY <1>1, <1>6, <1>16, <1>17, <1>18, <1>20 DEF Refers
<1> QED  BY <1>12, <1>13, <1>14, <1>15, <1>19, <1>20 DEF VersionInv

\* The cache takes a result: the versions it is not about share no object with it.
LEMMA NextResultTracked == ASSUME ConsulTyped, Ruled, Tracked, NextResult PROVE Tracked'
<1>1. /\ next # <<>> /\ next' = Tail(next)
      /\ UNCHANGED <<services, watcher, pc, new, todo, out, seen, ahead>>
  BY DEF NextResult
<1>2. watcher # NoPlan /\ watcher \in Plans
  BY <1>1 DEF Ruled, Started, ConsulTyped, PlansTyped
<1>3. PICK a, b, q, t : a = next /\ b = out[watcher] /\ q = Pending /\ t = Pending'  OBVIOUS
<1>4. a \in Seq(Results) /\ b \in Seq(Results) /\ a # <<>> /\ q = a \o b /\ t = Tail(a) \o b
  BY <1>1, <1>2, <1>3 DEF Pending, ConsulTyped, QueuesTyped
<1>5. PICK r : r = Head(a)  OBVIOUS
<1>6. q \in Seq(Results) /\ q # <<>> /\ t = Tail(q) /\ Head(q) = r /\ q[1] = r
  <2>1. q \in Seq(Results) /\ q # <<>> /\ Tail(q) = Tail(a) \o b /\ Head(q) = Head(a) /\ q[1] = a[1]
    BY <1>4, TailConcat
  <2>2. Head(a) = a[1]  BY <1>4
  <2> QED  BY <1>4, <1>5, <2>1, <2>2
<1>7. Took(r)  BY <1>3, <1>5, TookHead
<1>8. /\ r \in Results /\ (r.version = None <=> r.service = None)
      /\ r.version = None => r.action = "create"
  <2>1. 1 \in 1..Len(a) /\ a[1] = r  BY <1>4, <1>5
  <2> QED  BY <1>3, <1>4, <2>1 DEF ConsulTyped, QueuesTyped, Paired, Ruled, Started
<1>9. CASE r.version = None
  <2>1. UNCHANGED <<nodes, cached>>  BY <1>7, <1>8, <1>9 DEF Took
  <2>2. ASSUME NEW v \in Versions PROVE \E h : Same(Pending, Pending', v, h)
    <3>1. Head(q).version # v  BY <1>6, <1>9
    <3>2. \E h : Same(q, t, v, h)  BY <1>6, <3>1, TailSame
    <3> QED  BY <1>3, <3>2
  <2> QED  BY <1>1, <2>1, <2>2, QuietAll
<1>10. CASE r.version # None
  <2>1. PICK v, u : v = r.version /\ u = r.service  OBVIOUS
  <2>2. v \in Versions /\ u \in Objects  BY <1>8, <1>10, <2>1 DEF Results
  <2>3. PICK live \in BOOLEAN : live <=> cached' # None
    <3>1. CASE cached' = None
      <4>1. FALSE \in BOOLEAN /\ (FALSE <=> cached' # None)  BY <3>1
      <4> QED  BY <4>1
    <3>2. CASE cached' # None
      <4>1. TRUE \in BOOLEAN /\ (TRUE <=> cached' # None)  BY <3>2
      <4> QED  BY <4>1
    <3> QED  BY <3>1, <3>2
  <2>4. /\ Taken(q, u, At(cached, v), At(cached', v), nodes, nodes', live)
        /\ cached' # None => cached # None
        /\ \A w \in Versions : w # v => cached' = None \/ At(cached', w) = At(cached, w)
    BY <1>6, <1>7, <2>1, <2>2, <2>3, TookIs
  <2>5. Live' => live /\ Live
    <3>1. UNCHANGED ahead  BY <1>1
    <3> QED  BY <2>3, <2>4, <3>1, Zenon DEF Live
  <2>6. PICK h : Rest(q, t, v, h)  BY <1>6, <2>1, TailRest
  <2>7. VersionInv(v)' /\ \A x \in Objects : Refers(v, x)' => Refers(v, x)
    BY <1>1, <1>3, <1>6, <2>1, <2>2, <2>4, <2>5, <2>6, TakenVersion DEF Tracked
  <2>8. \A o \in Objects : ~Refers(v, o) => nodes'[o] = nodes[o]
    <3>1. 1 \in About(q, v) /\ q[1].service = u  BY <1>6, <2>1, <2>6 DEF Rest
    <3>2. \A o \in Objects : o # At(cached, v) /\ o # u => nodes'[o] = nodes[o]
      BY <2>4, TakenOthers
    <3> QED  BY <1>3, <3>1, <3>2 DEF Refers
  <2>9. ASSUME NEW w \in Versions, w # v
        PROVE  VersionInv(w)' /\ \A x \in Objects : Refers(w, x)' => Refers(w, x)
    <3>1. Head(q).version # w  BY <1>6, <2>1, <2>9
    <3>2. PICK g : Same(q, t, w, g)  BY <1>6, <3>1, TailSame
    <3>3. \A o \in Objects : Refers(w, o) => nodes'[o] = nodes[o]
      BY <2>2, <2>8, <2>9 DEF Tracked, Owned
    <3>4. cached' = None \/ (At(cached', w) = At(cached, w) /\ (Live' => Live))
      BY <2>4, <2>5, <2>9
    <3> QED  BY <1>1, <1>3, <3>2, <3>3, <3>4, Quiet DEF Tracked
  <2> QED  BY <2>7, <2>9, OwnedStays DEF Tracked
<1> QED  BY <1>9, <1>10

\* Unless the handler has been left behind, one plan rules and every version is tracked.
ConsulInv == ConsulTyped /\ (Lost \/ (Ruled /\ Tracked))

LEMMA ConsulInit == WatcherInit => ConsulInv
<1> SUFFICES ASSUME WatcherInit PROVE ConsulInv
  OBVIOUS
<1>1. ConsulTyped  BY TypedInit
<1>2. /\ watcher = NoPlan /\ services = None /\ cached = None /\ next = <<>> /\ mainPc = "idle"
      /\ plan = [p \in Plans |-> "off"] /\ seen = [p \in Plans |-> <<>>]
      /\ pc = [p \in Plans |-> "idle"] /\ out = [p \in Plans |-> <<>>]
  BY DEF WatcherInit
<1>3. Ruled
  <2>1. Lone  BY <1>2 DEF Lone
  <2>2. Started /\ Knows  BY <1>2 DEF Started, Knows
  <2>3. Listed  BY <1>2, Zenon DEF WatcherInit, Listed
  <2> QED  BY <2>1, <2>2, <2>3 DEF Ruled
<1>4. Pending = <<>> /\ \A v : About(Pending, v) = {}  BY <1>2 DEF Pending, About
<1>5. ~Busy /\ \A v : At(services, v) = None /\ At(cached, v) = None  BY <1>2 DEF Busy, At
<1>6. Owned  BY <1>4, <1>5 DEF Owned, Refers
<1>7. ASSUME NEW v \in Versions PROVE VersionInv(v)
  <2>1. ~Waiting(v) /\ Latest(v) = None  BY <1>5 DEF Waiting, Latest
  <2>2. VChain(v)  BY <1>4, <1>5, <2>1 DEF VChain, Chain, Once, Followed, Passed, Final
  <2>3. VBound(v)  BY <1>4 DEF VBound, Bounded
  <2>4. ~Live  BY <1>2, Zenon DEF Live
  <2>5. VEntry(v) /\ VLower(v) /\ VCaught(v)  BY <2>1, <2>4 DEF VEntry, VLower, VCaught
  <2>6. VFresh(v)  BY <1>5 DEF VFresh, Unreached
  <2> QED  BY <2>2, <2>3, <2>5, <2>6 DEF VersionInv
<1> QED  BY <1>1, <1>3, <1>6, <1>7 DEF ConsulInv, Tracked

\* The inductive invariant is kept by every step.
LEMMA ConsulStep == ConsulInv /\ [WatcherNext]_allVars => ConsulInv'
<1> SUFFICES ASSUME ConsulInv, [WatcherNext]_allVars PROVE ConsulInv'
  OBVIOUS
<1>1. ConsulTyped /\ ConsulTyped'  BY TypedKept DEF ConsulInv
<1>2. CASE Lost'  BY <1>1, <1>2 DEF ConsulInv
<1>3. CASE ~Lost'
  <2>1. Ruled /\ Tracked  BY <1>1, <1>3, LostKept DEF ConsulInv
  <2>2. Ruled'  BY <1>1, <1>3, <2>1, RuledKept
  <2>3. Tracked'
    <3>1. CASE UNCHANGED watcherVars  BY <1>1, <2>1, <3>1, StutterTracked
    <3>2. CASE Handle  BY <1>1, <1>3, <2>1, <3>2, HandleTracked
    <3>3. CASE StopPlan  BY <2>1, <3>3 DEF StopPlan, Ruled, Started
    <3>4. CASE HandleSends  BY <1>1, <2>1, <3>4, HandleSendsTracked
    <3>5. CASE Lookup  BY <1>1, <2>1, <3>5, LookupTracked
    <3>6. CASE NextResult  BY <1>1, <2>1, <3>6, NextResultTracked
    <3>7. ASSUME NEW p \in Plans, ServiceHandler(p) PROVE Tracked'
      <4>1. p = watcher /\ watcher # NoPlan /\ watcher \in Plans /\ UNCHANGED watcher
        BY <1>1, <2>1, <3>7, OnlyWatcher
      <4>2. CASE SnapshotArrives(p)  BY <1>1, <1>3, <2>1, <4>1, <4>2, SnapshotTracked
      <4>3. CASE Compare(p)  BY <1>1, <2>1, <4>1, <4>3, CompareTracked
      <4>4. CASE CompareVersions(p)  BY <1>1, <2>1, <4>1, <4>4, CompareVersionsTracked
      <4>5. CASE Send(p)  BY <1>1, <2>1, <4>1, <4>5, SendTracked
      <4>6. CASE Store(p)  BY <1>1, <2>1, <4>1, <4>6, StoreTracked
      <4> QED  BY <3>7, <4>2, <4>3, <4>4, <4>5, <4>6 DEF ServiceHandler
    <3> QED  BY <3>1, <3>2, <3>3, <3>4, <3>5, <3>6, <3>7 DEF WatcherNext
  <2> QED  BY <1>1, <2>2, <2>3 DEF ConsulInv
<1> QED  BY <1>2, <1>3

\* Nothing is under way: the entry holds what the snapshot says, which is the catalogue.
LEMMA ConsulFollows == ConsulInv => CacheFollows
<1> SUFFICES ASSUME ConsulInv, Settled, cached # None, ~Excused, NEW v \in Versions
             PROVE  Healthy(v) = IF cached[v] = None THEN {} ELSE nodes[cached[v]]
  BY Zenon DEF CacheFollows
<1>1. /\ next = <<>> /\ mainPc = "idle" /\ watcher # NoPlan /\ seen[watcher] = Snapshot
      /\ \A p \in Plans : pc[p] = "idle"
  BY DEF Settled
<1>2. Live  BY Zenon DEF Excused, Live
<1>3. ~Lost
  <2>1. ~emptied /\ ~ \E p \in Plans : plan[p] = "stopped"  BY Zenon DEF Excused
  <2>2. mainPc # "stop"  BY <1>1
  <2> QED  BY <2>1, <2>2, Zenon DEF Lost
<1>4. Ruled /\ VersionInv(v) /\ ConsulTyped  BY <1>3 DEF ConsulInv, Tracked
<1>5. watcher \in Plans /\ pc[watcher] = "idle"  BY <1>1, <1>4 DEF ConsulTyped, PlansTyped
<1>6. out[watcher] = <<>> /\ (At(services, v) # None <=> v \in DOMAIN seen[watcher])
  BY <1>1, <1>4, <1>5 DEF Ruled, Knows
<1>7. About(Pending, v) = {}
  <2>1. <<>> \o <<>> = <<>>  OBVIOUS
  <2>2. Pending = <<>>  BY <1>1, <1>6, <2>1 DEF Pending
  <2> QED  BY <2>2 DEF About
<1>8. ~Waiting(v) /\ Latest(v) = At(services, v) /\ Goal(v) = Told(v)
  BY <1>5 DEF Busy, Waiting, Latest, Goal
<1>9. Told(v) = Healthy(v)
  <2>1. CASE v \in Known  BY <1>1, <2>1 DEF Told, Snapshot
  <2>2. CASE v \notin Known
    <3>1. Told(v) = {}  BY <1>1, <2>2 DEF Told, Snapshot
    <3>2. Healthy(v) = {}
      <4>1. Entry(v, "passing") # None /\ Entry(v, "passing").version = v
        BY EntryAssumption DEF Entry, Entries
      <4> QED  BY <2>2, <4>1 DEF Known, Healthy
    <3> QED  BY <3>1, <3>2
  <2> QED  BY <2>1, <2>2
<1>10. NodesAt(nodes, At(cached, v)) \subseteq Told(v)
  BY <1>2, <1>4, <1>7, <1>8 DEF VersionInv, VEntry, EntryBounded
<1>11. Told(v) \subseteq NodesAt(nodes, At(cached, v))
  <2>1. CASE At(services, v) # None
    BY <1>2, <1>4, <1>7, <1>8, <2>1 DEF VersionInv, VCaught
  <2>2. CASE At(services, v) = None
    BY <1>6, <2>2 DEF Told
  <2> QED  BY <2>1, <2>2
<1>12. NodesAt(nodes, At(cached, v)) = Healthy(v)  BY <1>9, <1>10, <1>11
<1> QED  BY <1>12 DEF NodesAt, At

\* Whenever nothing is under way, and unless a snapshot was empty, a plan was stopped or the
\* entry was filled ahead of the plan, the cache holds the healthy instances of every version,
\* for any number of instances, versions, objects and any capacity of next (serviceHandler in
\* consul_watcher.go and update in cache.go change the same objects in place).
THEOREM CacheFollowed == WatcherSpec => []CacheFollows
<1>1. ConsulInv => CacheFollows  BY ConsulFollows
<1> QED  BY <1>1, ConsulInit, ConsulStep, PTL DEF WatcherSpec
==============================================================================
