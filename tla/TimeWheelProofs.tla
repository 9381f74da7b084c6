-------------------------- MODULE TimeWheelProofs --------------------------
EXTENDS TimeWheel, Integers, TLAPS

-----------------------------------------------------------------------------
(* Arithmetic of slots and circles *)

\* Division with remainder.
LEMMA DivMod ==
    ASSUME NEW n \in Nat \ {0}, NEW d \in Nat
    PROVE  /\ d \div n \in Nat /\ d % n \in 0..(n - 1)
           /\ d = n * (d \div n) + (d % n)
  BY Z3

\* Quotient and remainder are unique.
LEMMA ModUnique ==
    ASSUME NEW n \in Nat \ {0}, NEW x \in Nat, NEW q \in Nat, NEW r \in 0..(n - 1),
           x = n * q + r
    PROVE  x % n = r
<1> DEFINE y == x \div n
<1> DEFINE s == x % n
<1>1. y \in Nat /\ s \in 0..(n - 1) /\ x = n * y + s
  BY DivMod
<1>2. n * (y - q) = r - s /\ y - q \in Int
  BY <1>1, Z3
<1> DEFINE z == y - q
<1>3. ~ (z >= 1)
  <2> SUFFICES ASSUME z >= 1 PROVE FALSE
    OBVIOUS
  <2>1. n * z >= n
    BY <1>2, Z3
  <2> QED BY <1>1, <1>2, <2>1
<1>4. ~ (z <= -1)
  <2> SUFFICES ASSUME z <= -1 PROVE FALSE
    OBVIOUS
  <2>1. n * z <= -n
    BY <1>2, Z3
  <2> QED BY <1>1, <1>2, <2>1
<1>5. z = 0
  BY <1>2, <1>3, <1>4
<1>6. n * z = 0
  BY <1>5
<1> QED BY <1>1, <1>2, <1>6

\* A task put into slot (c + d) % n with d \div n circles, when the hand is at c,
\* is d slots away, whole turns included.
LEMMA SlotsAway ==
    ASSUME NEW n \in Nat \ {0}, NEW c \in 0..(n - 1), NEW d \in Nat, NEW p, p = (c + d) % n
    PROVE  /\ p \in 0..(n - 1)
           /\ (IF p >= c THEN p - c ELSE p + n - c) + (d \div n) * n = d
<1> DEFINE q == d \div n
<1> DEFINE r == d % n
<1>1. q \in Nat /\ r \in 0..(n - 1) /\ d = n * q + r
  BY DivMod
<1>2. n * q \in Nat /\ q * n = n * q
  BY <1>1, Z3
<1>3. CASE c + r < n
  <2>1. c + d = n * q + (c + r) /\ c + r \in 0..(n - 1) /\ c + d \in Nat
    BY <1>1, <1>2, <1>3
  <2>2. p = c + r
    BY <2>1, <1>1, ModUnique
  <2> QED BY <1>1, <1>2, <1>3, <2>2
<1>4. CASE ~(c + r < n)
  <2>1. c + d = n * (q + 1) + (c + r - n)
    BY <1>1, <1>2, Z3
  <2>2. c + r - n \in 0..(n - 1) /\ c + d \in Nat /\ q + 1 \in Nat
    BY <1>1, <1>2, <1>4
  <2>3. p = c + r - n
    BY <2>1, <2>2, ModUnique
  <2> QED BY <1>1, <1>2, <1>4, <2>2, <2>3
<1> QED BY <1>3, <1>4

-----------------------------------------------------------------------------
(* The inductive invariant *)

UserKeys == {UserKey(k) : k \in Keys}

\* A request names the key or the delay it needs.
RequestOK == \A c \in Callers : /\ call[c].op = "remove" => call[c].key \in Keys
                                /\ call[c].op = "add" => call[c].delay \in Delays

\* Tasks are new until they are added, and a pending task has not run.
FreshOK == \A t \in Tasks : /\ t > added => slot[t] = NoSlot /\ ran[t] = 0
                            /\ Pending(t) => ran[t] = 0

\* A key of the callers belongs to one pending task or one request at a time.
KeysOK == /\ \A t, u \in Tasks : Pending(t) /\ Pending(u) /\ key[t] \in UserKeys
                                   /\ key[t] = key[u] => t = u
          /\ \A t \in Tasks, c \in Callers :
                Pending(t) /\ call[c].op = "add" /\ call[c].key # NoKey
                  => key[t] # UserKey(call[c].key)
          /\ \A c, e \in Callers : call[c].op = "add" /\ call[e].op = "add"
                                     /\ call[c].key # NoKey /\ call[c].key = call[e].key
                                     => c = e

IInv == TypeOK /\ RequestOK /\ FreshOK /\ (UniqueKeys => KeysOK /\ IndexFinds)

\* Position and circles of a new task have their types.
LEMMA PlaceType ==
    ASSUME currentPos \in Positions, NEW d \in Nat
    PROVE  PositionOf(d) \in Positions /\ CircleOf(d) \in Nat
<1>1. CircleOf(d) \in Nat
  BY DivMod, WheelAssumption DEF CircleOf
<1>2. currentPos + d \in Nat
  BY WheelAssumption DEF Positions
<1>3. PositionOf(d) \in Positions
  BY <1>2, DivMod, WheelAssumption DEF PositionOf, Positions
<1> QED BY <1>1, <1>3

\* The two kinds of keys never meet, and a key of the callers names one k.
LEMMA KeyKinds ==
    /\ \A k \in Keys : UserKey(k) \in UserKeys /\ UserKey(k) \in AllKeys
    /\ \A n \in 0..MaxAcc : AutoKey(n) \in AllKeys /\ AutoKey(n) \notin UserKeys
    /\ \A k, l : UserKey(k) = UserKey(l) => k = l
  BY DEF UserKey, AutoKey, UserKeys, AllKeys

\* The next accumulator is a key.
LEMMA AccType ==
    ASSUME accumulator \in 0..MaxAcc PROVE NextAcc \in 0..MaxAcc
  BY WheelAssumption DEF NextAcc

\* Every state the wheel starts in satisfies the invariant.
LEMMA InitInv == Init => IInv
<1> SUFFICES ASSUME Init PROVE IInv
  OBVIOUS
<1> USE DEF Init
<1>1. AutoKey(0) \in AllKeys
  BY KeyKinds, WheelAssumption
<1>2. 0 \in Positions /\ 0 \in 0..MaxAcc /\ 0 \in 0..MaxTasks /\ 0 \in Nat
  BY WheelAssumption DEF Positions
<1>3. Idle \in Requests
  BY DEF Idle, Requests, Request
<1>4. TypeOK
  BY <1>1, <1>2, <1>3 DEF TypeOK
<1>5. RequestOK
  BY DEF RequestOK, Idle, Request
<1>6. \A t \in Tasks : ~Pending(t)
  BY DEF Pending
<1>7. FreshOK
  BY <1>6 DEF FreshOK
<1>8. \A c \in Callers : call[c].op = "idle"
  BY DEF Idle, Request
<1>9. KeysOK
  BY <1>6, <1>8 DEF KeysOK
<1>10. IndexFinds
  BY <1>6 DEF IndexFinds
<1> QED BY <1>4, <1>5, <1>7, <1>9, <1>10 DEF IInv

\* A caller's request changes call only.
LEMMA AskInv ==
    ASSUME IInv, NEW c \in Callers, CallerNext(c)
    PROVE  IInv'
<1> USE DEF IInv
<1>1. PICK r : /\ Ask(c, r) /\ r \in Requests
               /\ r.op = "remove" => r.key \in Keys
               /\ r.op = "add" => r.delay \in Delays
               /\ r.op = "add" /\ r.key # NoKey /\ UniqueKeys => KeyFree(r.key)
  <2>1. CASE \E d \in Delays : AddTimer(c, d)
    BY <2>1 DEF AddTimer, Request, Requests
  <2>2. CASE \E k \in Keys, d \in Delays : AddTimerCustom(c, k, d)
    BY <2>2 DEF AddTimerCustom, Request, Requests
  <2>3. CASE \E k \in Keys : RemoveTimer(c, k)
    BY <2>3 DEF RemoveTimer, Request, Requests
  <2>4. CASE Stop(c)
    BY <2>4 DEF Stop, Request, Requests
  <2> QED BY <2>1, <2>2, <2>3, <2>4 DEF CallerNext
<1>2. call' = [call EXCEPT ![c] = r] /\ UNCHANGED <<loop, wheel>>
  BY <1>1 DEF Ask
<1>3. TypeOK'
  BY <1>1, <1>2 DEF TypeOK, wheel
<1>4. \A e \in Callers : call'[e] = IF e = c THEN r ELSE call[e]
  BY <1>2 DEF TypeOK
<1>5. RequestOK'
  BY <1>1, <1>4 DEF RequestOK
<1>6. UNCHANGED <<slot, key, timer, added, ran>>
  BY <1>2 DEF wheel
<1>7. \A t \in Tasks : Pending(t)' = Pending(t)
  BY <1>6 DEF Pending
<1>8. FreshOK'
  BY <1>6, <1>7 DEF FreshOK
<1>9. ASSUME UniqueKeys PROVE KeysOK'
  <2>1. r.op = "add" /\ r.key # NoKey => KeyFree(r.key)
    BY <1>1, <1>9
  <2>2. KeysOK
    BY <1>9
  <2> QED BY <1>4, <1>6, <1>7, <2>1, <2>2 DEF KeysOK, KeyFree
<1>10. ASSUME UniqueKeys PROVE IndexFinds'
  BY <1>6, <1>7, <1>10 DEF IndexFinds
<1> QED BY <1>3, <1>5, <1>8, <1>9, <1>10

\* What serving a caller does to the requests
LEMMA TakeCalls ==
    ASSUME TypeOK, NEW c \in Callers, NEW op, Take(c, op)
    PROVE  /\ call' \in [Callers -> Requests]
           /\ \A e \in Callers : call'[e] = IF e = c THEN Idle ELSE call[e]
           /\ call'[c].op = "idle"
  BY DEF Take, TypeOK, Idle, Request, Requests

\* A new task gets a free number and, if its key is a caller's, a free key.
LEMMA AddInv ==
    ASSUME IInv, NEW c \in Callers, addTask(c)
    PROVE  IInv'
<1> USE DEF IInv
<1> DEFINE t == added + 1
           k == IF call[c].key = NoKey THEN AutoKey(NextAcc) ELSE UserKey(call[c].key)
           d == call[c].delay
           p == PositionOf(d)
<1>1. call[c] \in Requests /\ call[c].op = "add" /\ d \in Nat /\ call[c].key \in Keys \cup {NoKey}
  <2>1. call[c] \in Requests
    BY DEF TypeOK
  <2>2. call[c].op = "add"
    BY DEF addTask, Take
  <2>3. call[c].delay \in Delays \cup {0} /\ call[c].key \in Keys \cup {NoKey}
    BY <2>1 DEF Requests
  <2>4. \A x \in Delays : x \in Nat
    BY WheelAssumption, Zenon
  <2>5. d \in Nat
    BY <2>3, <2>4
  <2> QED BY <2>1, <2>2, <2>3, <2>5
<1>2. p \in Positions /\ CircleOf(d) \in Nat
  BY <1>1, PlaceType DEF TypeOK
<1>3. k \in AllKeys /\ NextAcc \in 0..MaxAcc /\ (k \in UserKeys => call[c].key # NoKey)
  BY <1>1, KeyKinds, AccType DEF TypeOK
<1>4. t \in Tasks /\ t > added /\ slot[t] = NoSlot /\ ran[t] = 0
  BY WheelAssumption DEF addTask, TypeOK, Tasks, FreshOK
<1>5. /\ key' = [key EXCEPT ![t] = k] /\ slot' = [slot EXCEPT ![t] = p]
      /\ circle' = [circle EXCEPT ![t] = CircleOf(d)] /\ timer' = [timer EXCEPT ![k] = p]
      /\ added' = t /\ UNCHANGED <<loop, currentPos, ran>>
      /\ accumulator' = IF call[c].key = NoKey THEN NextAcc ELSE accumulator
  BY DEF addTask
<1>6. /\ call' \in [Callers -> Requests] /\ call'[c].op = "idle"
      /\ \A e \in Callers : call'[e] = IF e = c THEN Idle ELSE call[e]
  BY TakeCalls DEF addTask
<1>7. TypeOK'
  BY <1>2, <1>3, <1>4, <1>5, <1>6 DEF TypeOK, Tasks
<1>8. p # NoSlot
  BY <1>2, WheelAssumption DEF Positions, NoSlot
<1>9. \A u \in Tasks : /\ key'[u] = IF u = t THEN k ELSE key[u]
                       /\ slot'[u] = IF u = t THEN p ELSE slot[u]
                       /\ Pending(u)' <=> u = t \/ Pending(u)
  BY <1>4, <1>5, <1>8 DEF TypeOK, Pending
<1>10. RequestOK'
  BY <1>6 DEF RequestOK
<1>11. FreshOK'
  <2> SUFFICES ASSUME NEW u \in Tasks
               PROVE  /\ u > t => slot'[u] = NoSlot /\ ran[u] = 0
                      /\ Pending(u)' => ran[u] = 0
    BY <1>5 DEF FreshOK
  <2>1. u > t => u > added /\ u # t
    BY DEF Tasks, TypeOK
  <2> QED BY <1>4, <1>9, <2>1 DEF FreshOK
<1>12. ASSUME UniqueKeys PROVE KeysOK'
  <2>1. \A u \in Tasks : Pending(u) /\ k \in UserKeys => key[u] # k
    BY <1>1, <1>3, <1>12 DEF KeysOK
  <2>2. \A e \in Callers : call'[e].op = "add" => call'[e] = call[e] /\ e # c
    BY <1>6
  <2>3. \A e \in Callers : call'[e].op = "add" /\ call'[e].key # NoKey
                             => k # UserKey(call'[e].key)
    <3> SUFFICES ASSUME NEW e \in Callers, call'[e].op = "add", call'[e].key # NoKey
                 PROVE  k # UserKey(call'[e].key)
      OBVIOUS
    <3>1. e # c /\ call[e].op = "add" /\ call[e].key # NoKey /\ call'[e].key = call[e].key
      BY <2>2
    <3>2. CASE call[c].key = NoKey
      BY <3>2, <1>3 DEF AutoKey, UserKey
    <3>3. CASE call[c].key # NoKey
      <4>1. call[c].key # call[e].key
        BY <3>1, <3>3, <1>1, <1>12 DEF KeysOK
      <4> QED BY <3>1, <3>3, <4>1, KeyKinds
    <3> QED BY <3>2, <3>3
  <2>4. KeysOK
    BY <1>12
  <2>5. \A u, v \in Tasks : Pending(u)' /\ Pending(v)' /\ key'[u] \in UserKeys
                              /\ key'[u] = key'[v] => u = v
    BY <1>9, <2>1, <2>4 DEF KeysOK
  <2>6. \A u \in Tasks, e \in Callers :
            Pending(u)' /\ call'[e].op = "add" /\ call'[e].key # NoKey
              => key'[u] # UserKey(call'[e].key)
    BY <1>9, <2>2, <2>3, <2>4 DEF KeysOK
  <2>7. \A e, f \in Callers : call'[e].op = "add" /\ call'[f].op = "add"
                                /\ call'[e].key # NoKey /\ call'[e].key = call'[f].key => e = f
    BY <2>2, <2>4 DEF KeysOK
  <2> QED BY <2>5, <2>6, <2>7 DEF KeysOK
<1>13. ASSUME UniqueKeys PROVE IndexFinds'
  <2> SUFFICES ASSUME NEW u \in Tasks, Pending(u)', key'[u] \in UserKeys
               PROVE  timer'[key'[u]] = slot'[u]
    BY DEF IndexFinds, UserKeys
  <2>1. CASE u = t
    BY <2>1, <1>3, <1>5, <1>9 DEF TypeOK
  <2>2. CASE u # t
    <3>1. Pending(u) /\ key'[u] = key[u] /\ slot'[u] = slot[u]
      BY <2>2, <1>9
    <3>2. key[u] # k
      BY <3>1, <1>1, <1>3, <1>13 DEF KeysOK
    <3>3. timer[key[u]] = slot[u]
      BY <3>1, <1>13 DEF IndexFinds, UserKeys
    <3> QED BY <3>1, <3>2, <3>3, <1>5 DEF TypeOK
  <2> QED BY <2>1, <2>2
<1> QED BY <1>7, <1>10, <1>11, <1>12, <1>13

\* Removing a task frees its key and leaves the index right for the others.
LEMMA RemoveInv ==
    ASSUME IInv, NEW c \in Callers, removeTask(c)
    PROVE  IInv'
<1> USE DEF IInv
<1> DEFINE k == UserKey(call[c].key)
           X == Cancelled(k)
<1>1. call[c].op = "remove" /\ call[c].key \in Keys
  BY DEF removeTask, Take, RequestOK
<1>2. k \in UserKeys /\ k \in AllKeys
  BY <1>1, KeyKinds
<1>3. /\ slot' = [t \in Tasks |-> IF t \in X THEN NoSlot ELSE slot[t]]
      /\ timer' = IF X = {} THEN timer ELSE [timer EXCEPT ![k] = NoSlot]
      /\ UNCHANGED <<loop, currentPos, accumulator, circle, key, added, ran>>
  BY DEF removeTask
<1>4. /\ call' \in [Callers -> Requests] /\ call'[c].op = "idle"
      /\ \A e \in Callers : call'[e] = IF e = c THEN Idle ELSE call[e]
  BY TakeCalls DEF removeTask
<1>5. TypeOK'
  BY <1>2, <1>3, <1>4 DEF TypeOK
<1>6. \A t \in Tasks : Pending(t)' <=> Pending(t) /\ t \notin X
  BY <1>3 DEF Pending, TypeOK
<1>7. \A t \in Tasks : Pending(t)' => slot'[t] = slot[t]
  BY <1>3, <1>6
<1>8. RequestOK'
  BY <1>4 DEF RequestOK
<1>9. FreshOK'
  <2> SUFFICES ASSUME NEW u \in Tasks
               PROVE  /\ u > added => slot'[u] = NoSlot /\ ran[u] = 0
                      /\ Pending(u)' => ran[u] = 0
    BY <1>3 DEF FreshOK
  <2> QED BY <1>3, <1>6 DEF FreshOK
<1>10. ASSUME UniqueKeys PROVE KeysOK'
  <2>1. \A e \in Callers : call'[e].op = "add" => call'[e] = call[e]
    BY <1>4
  <2>2. KeysOK
    BY <1>10
  <2> QED BY <1>3, <1>6, <2>1, <2>2 DEF KeysOK
<1>11. ASSUME UniqueKeys PROVE IndexFinds'
  <2> SUFFICES ASSUME NEW u \in Tasks, Pending(u)', key[u] \in UserKeys
               PROVE  timer'[key[u]] = slot'[u]
    BY <1>3 DEF IndexFinds, UserKeys
  <2>1. Pending(u) /\ u \notin X /\ slot'[u] = slot[u] /\ timer[key[u]] = slot[u]
    BY <1>6, <1>7, <1>11 DEF IndexFinds, UserKeys
  <2>2. CASE X = {}
    BY <2>1, <2>2, <1>3
  <2>3. CASE X # {}
    <3>1. PICK x \in X : x \in Tasks /\ Pending(x) /\ key[x] = k
      BY <2>3 DEF Cancelled
    <3>2. key[u] # k
      BY <2>1, <3>1, <1>2, <1>11 DEF KeysOK
    <3> QED BY <2>1, <2>3, <3>2, <1>3 DEF TypeOK
  <2> QED BY <2>2, <2>3
<1> QED BY <1>5, <1>8, <1>9, <1>10, <1>11

\* A tick removes the tasks it runs and their entries, nothing else.
LEMMA TickInv ==
    ASSUME IInv, tickHandler
    PROVE  IInv'
<1> USE DEF IInv
<1>1. /\ currentPos' = NextPos
      /\ circle' = [t \in Tasks |-> IF slot[t] = currentPos /\ circle[t] > 0
                                    THEN circle[t] - 1 ELSE circle[t]]
      /\ slot' = [t \in Tasks |-> IF t \in Due THEN NoSlot ELSE slot[t]]
      /\ timer' = [k \in AllKeys |-> IF \E t \in Due : key[t] = k THEN NoSlot ELSE timer[k]]
      /\ ran' = [t \in Tasks |-> IF t \in Due THEN ran[t] + 1 ELSE ran[t]]
      /\ UNCHANGED <<loop, accumulator, key, added, call>>
  BY DEF tickHandler
<1>2. NextPos \in Positions
  BY WheelAssumption DEF TypeOK, NextPos, Positions
<1>3. circle' \in [Tasks -> Nat] /\ ran' \in [Tasks -> Nat]
  BY <1>1 DEF TypeOK
<1>4. TypeOK'
  BY <1>1, <1>2, <1>3 DEF TypeOK
<1>5. \A t \in Tasks : t \in Due => Pending(t)
  BY WheelAssumption DEF Due, Pending, NoSlot, TypeOK, Positions
<1>6. \A t \in Tasks : /\ Pending(t)' <=> (Pending(t) /\ t \notin Due)
                       /\ Pending(t)' => slot'[t] = slot[t]
  <2> SUFFICES ASSUME NEW t \in Tasks
               PROVE  /\ Pending(t)' <=> (Pending(t) /\ t \notin Due)
                      /\ Pending(t)' => slot'[t] = slot[t]
    OBVIOUS
  <2>1. slot'[t] = IF t \in Due THEN NoSlot ELSE slot[t]
    BY <1>1
  <2>2. Pending(t)' <=> slot'[t] # NoSlot
    BY DEF Pending, NoSlot
  <2> QED BY <2>1, <2>2 DEF Pending
<1>7. RequestOK'
  BY <1>1 DEF RequestOK
<1>8. FreshOK'
  <2> SUFFICES ASSUME NEW u \in Tasks
               PROVE  /\ u > added => slot'[u] = NoSlot /\ ran'[u] = 0
                      /\ Pending(u)' => ran'[u] = 0
    BY <1>1 DEF FreshOK
  <2> QED BY <1>1, <1>5, <1>6 DEF FreshOK, Pending
<1>9. ASSUME UniqueKeys PROVE KeysOK'
  <2>1. KeysOK
    BY <1>9
  <2> QED BY <1>1, <1>6, <2>1 DEF KeysOK
<1>10. ASSUME UniqueKeys PROVE IndexFinds'
  <2> SUFFICES ASSUME NEW u \in Tasks, Pending(u)', key[u] \in UserKeys
               PROVE  timer'[key[u]] = slot'[u]
    BY <1>1 DEF IndexFinds, UserKeys
  <2>1. Pending(u) /\ u \notin Due /\ slot'[u] = slot[u] /\ timer[key[u]] = slot[u]
    BY <1>6, <1>10 DEF IndexFinds, UserKeys
  <2>2. \A t \in Due : key[t] # key[u]
    BY <2>1, <1>5, <1>10 DEF KeysOK, Due
  <2>3. key[u] \in AllKeys
    BY DEF TypeOK
  <2> QED BY <2>1, <2>2, <2>3, <1>1
<1> QED BY <1>4, <1>7, <1>8, <1>9, <1>10

\* Stopping the loop, by Stop or by the module's close signal, keeps the wheel.
LEMMA HaltInv ==
    ASSUME IInv, \/ \E c \in Callers : StopLoop(c)
                 \/ CloseSig
                 \/ UNCHANGED vars
    PROVE  IInv'
<1> USE DEF IInv
<1>1. /\ UNCHANGED <<currentPos, accumulator, slot, circle, key, timer, added, ran>>
      /\ loop' \in {"running", "stopped"}
      /\ call' \in [Callers -> Requests]
      /\ \A e \in Callers : call'[e].op # "idle" => call'[e] = call[e]
  <2>1. CASE \E c \in Callers : StopLoop(c)
    <3>1. PICK c \in Callers : StopLoop(c)
      BY <2>1
    <3>2. /\ call' \in [Callers -> Requests] /\ call'[c].op = "idle"
          /\ \A e \in Callers : call'[e] = IF e = c THEN Idle ELSE call[e]
      BY <3>1, TakeCalls DEF StopLoop
    <3> QED BY <3>1, <3>2 DEF StopLoop, wheel
  <2>2. CASE CloseSig \/ UNCHANGED vars
    BY <2>2 DEF CloseSig, vars, wheel, TypeOK
  <2> QED BY <2>1, <2>2
<1>2. TypeOK'
  BY <1>1 DEF TypeOK
<1>3. RequestOK'
  BY <1>1 DEF RequestOK
<1>4. \A t \in Tasks : Pending(t)' = Pending(t)
  BY <1>1 DEF Pending
<1>5. FreshOK'
  BY <1>1, <1>4 DEF FreshOK
<1>6. ASSUME UniqueKeys PROVE KeysOK'
  <2>1. KeysOK
    BY <1>6
  <2>2. \A e \in Callers : call'[e].op = "add" => call'[e] = call[e]
    BY <1>1
  <2> QED BY <1>1, <1>4, <2>1, <2>2 DEF KeysOK
<1>7. ASSUME UniqueKeys PROVE IndexFinds'
  BY <1>1, <1>4, <1>7 DEF IndexFinds
<1> QED BY <1>2, <1>3, <1>5, <1>6, <1>7

\* Every step keeps the invariant.
LEMMA StepInv == IInv /\ [Next]_vars => IInv'
<1> SUFFICES ASSUME IInv, [Next]_vars PROVE IInv'
  OBVIOUS
<1>1. CASE \E c \in Callers : CallerNext(c)
  BY <1>1, AskInv
<1>2. CASE \E c \in Callers : addTask(c)
  BY <1>2, AddInv
<1>3. CASE \E c \in Callers : removeTask(c)
  BY <1>3, RemoveInv
<1>4. CASE tickHandler
  BY <1>4, TickInv
<1>5. CASE (\E c \in Callers : StopLoop(c)) \/ CloseSig \/ UNCHANGED vars
  BY <1>5, HaltInv
<1> QED BY <1>1, <1>2, <1>3, <1>4, <1>5 DEF Next, Serve

\* The inductive invariant holds in every reachable state of the wheel.
THEOREM Invariance == Spec => []IInv
  BY InitInv, StepInv, PTL DEF Spec

\* The wheel, its index and the waiting requests keep their types
\* (timingwheel.go), the wrap of the accumulator included.
THEOREM TypeCorrect == Spec => []TypeOK
<1>1. IInv => TypeOK
  BY DEF IInv
<1> QED BY <1>1, Invariance, PTL

\* As long as callers give a key to one pending timer at a time, the index of
\* the wheel leads removeTask to every timer a caller can ask to remove.
THEOREM IndexComplete ==
    ASSUME UniqueKeys PROVE Spec => []IndexFinds
<1>1. IInv => IndexFinds
  BY DEF IInv
<1> QED BY <1>1, Invariance, PTL

-----------------------------------------------------------------------------
(* The wheel implements Countdown *)

Left == [t \in Tasks |-> Remaining(t)]

\* A pending task, and no other, has ticks left.
LEMMA RemainingType ==
    ASSUME TypeOK, NEW t \in Tasks
    PROVE  /\ Remaining(t) \in Nat
           /\ Remaining(t) = 0 <=> ~Pending(t)
           /\ Pending(t) => /\ slot[t] \in Positions
                            /\ circle[t] * SlotNum \in Nat
                            /\ Distance(slot[t]) \in 0..(SlotNum - 1)
                            /\ Remaining(t) = Distance(slot[t]) + circle[t] * SlotNum + 1
<1>1. circle[t] \in Nat /\ SlotNum \in Nat \ {0} /\ currentPos \in Positions
  BY WheelAssumption DEF TypeOK
<1>2. circle[t] * SlotNum \in Nat
  BY <1>1, Z3
<1>3. Pending(t) => slot[t] \in Positions
  BY DEF Pending, TypeOK
<1>4. Pending(t) => Distance(slot[t]) \in 0..(SlotNum - 1)
  BY <1>1, <1>3 DEF Distance, Positions
<1> QED BY <1>1, <1>2, <1>3, <1>4 DEF Remaining

\* A tick takes one from what every pending task has left, and runs the tasks
\* that had one tick left.
LEMMA TickRemaining ==
    ASSUME IInv, tickHandler, NEW t \in Tasks
    PROVE  /\ Remaining(t)' = IF Remaining(t) = 0 THEN 0 ELSE Remaining(t) - 1
           /\ Remaining(t) = 1 <=> t \in Due
<1> DEFINE N == SlotNum
           m == circle[t] * N
<1>1. TypeOK /\ N \in Nat \ {0} /\ currentPos \in Positions /\ circle[t] \in Nat
  BY WheelAssumption DEF IInv, TypeOK
<1>2. /\ currentPos' = NextPos
      /\ slot'[t] = IF t \in Due THEN NoSlot ELSE slot[t]
      /\ circle'[t] = IF slot[t] = currentPos /\ circle[t] > 0
                      THEN circle[t] - 1 ELSE circle[t]
  BY DEF tickHandler
<1>3. Remaining(t)' = IF slot'[t] # NoSlot
                      THEN (IF slot'[t] >= currentPos' THEN slot'[t] - currentPos'
                            ELSE slot'[t] + N - currentPos') + circle'[t] * N + 1
                      ELSE 0
  BY DEF Remaining, Pending, Distance, NoSlot
<1>4. CASE ~Pending(t)
  <2>1. slot[t] = NoSlot /\ t \notin Due
    BY <1>1, <1>4 DEF Pending, Due, NoSlot, Positions
  <2>2. Remaining(t) = 0
    BY <1>4 DEF Remaining
  <2> QED BY <2>1, <2>2, <1>2, <1>3
<1>5. CASE Pending(t) /\ t \in Due
  <2>1. slot[t] = currentPos /\ circle[t] = 0
    BY <1>5 DEF Due
  <2>2. Remaining(t) = 1
    BY <1>1, <1>5, <2>1 DEF Remaining, Distance, Positions
  <2> QED BY <2>2, <1>2, <1>3, <1>5
<1>6. CASE Pending(t) /\ t \notin Due /\ slot[t] = currentPos
  <2>1. circle[t] > 0
    BY <1>1, <1>6 DEF Due
  <2>2. Remaining(t) = m + 1
    BY <1>1, <1>6, RemainingType DEF Distance, Positions
  <2>3. m \in Nat /\ m >= 1
    BY <1>1, <2>1, Z3
  <2>4. (circle[t] - 1) * N = m - N
    BY <1>1, Z3
  <2>5. (IF currentPos >= NextPos THEN currentPos - NextPos ELSE currentPos + N - NextPos)
          = N - 1
    BY <1>1 DEF NextPos, Positions
  <2>6. Remaining(t)' = N - 1 + (m - N) + 1
    BY <1>2, <1>3, <1>6, <2>1, <2>4, <2>5 DEF Pending
  <2> QED BY <1>1, <1>6, <2>2, <2>3, <2>6
<1>7. CASE Pending(t) /\ t \notin Due /\ slot[t] # currentPos
  <2>1. /\ Remaining(t) = Distance(slot[t]) + m + 1
        /\ m \in Nat /\ slot[t] \in Positions
    BY <1>1, <1>7, RemainingType
  <2>2. Distance(slot[t]) \in Nat /\ Distance(slot[t]) >= 1
    BY <1>1, <1>7, <2>1 DEF Distance, Positions
  <2>3. (IF slot[t] >= NextPos THEN slot[t] - NextPos ELSE slot[t] + N - NextPos)
          = Distance(slot[t]) - 1
    BY <1>1, <1>7, <2>1 DEF NextPos, Distance, Positions
  <2>4. Remaining(t)' = Distance(slot[t]) - 1 + m + 1
    BY <1>2, <1>3, <1>7, <2>3 DEF Pending
  <2> QED BY <1>7, <2>1, <2>2, <2>4
<1> QED BY <1>4, <1>5, <1>6, <1>7

\* Initially no timer is pending.
LEMMA RefinesInit == Init => C!Init
<1> SUFFICES ASSUME Init PROVE C!Init
  OBVIOUS
<1>1. \A t \in Tasks : Remaining(t) = 0
  BY DEF Init, Remaining, Pending
<1>2. key \in [Tasks -> AllKeys]
  BY KeyKinds, WheelAssumption DEF Init
<1> QED BY <1>1, <1>2 DEF C!Init, Init

\* Where the wheel and the hand stay as they are, nothing changes for Countdown.
LEMMA SameLeft ==
    ASSUME UNCHANGED <<slot, circle, currentPos>>
    PROVE  Left' = Left
  BY DEF Left, Remaining, Pending, Distance

\* addTask is Add: what the new task has left is its delay and one tick.
LEMMA RefinesAdd ==
    ASSUME IInv, NEW c \in Callers, addTask(c)
    PROVE  C!Next
<1> DEFINE k == IF call[c].key = NoKey THEN AutoKey(NextAcc) ELSE UserKey(call[c].key)
           d == call[c].delay
           p == PositionOf(d)
<1>1. d \in Delays /\ d \in Nat /\ call[c].key \in Keys \cup {NoKey}
  <2>1. call[c] \in Requests /\ call[c].op = "add"
    BY DEF IInv, TypeOK, addTask, Take
  <2>2. d \in Delays
    BY <2>1 DEF IInv, RequestOK
  <2>3. d \in Nat
    BY <2>2, WheelAssumption, Zenon
  <2> QED BY <2>1, <2>2, <2>3 DEF Requests
<1>2. k \in AllKeys
  BY <1>1, KeyKinds, AccType DEF IInv, TypeOK
<1>3. PICK t \in Tasks : t = added + 1 /\ slot[t] = NoSlot /\ ran[t] = 0
  BY WheelAssumption DEF addTask, IInv, TypeOK, Tasks, FreshOK
<1>4. /\ key' = [key EXCEPT ![t] = k] /\ slot' = [slot EXCEPT ![t] = p]
      /\ circle' = [circle EXCEPT ![t] = CircleOf(d)] /\ UNCHANGED <<currentPos, ran>>
  BY <1>3 DEF addTask
<1>5. TypeOK /\ currentPos \in 0..(SlotNum - 1) /\ SlotNum \in Nat \ {0}
  BY WheelAssumption DEF IInv, TypeOK, Positions
<1>6. /\ p \in 0..(SlotNum - 1)
      /\ (IF p >= currentPos THEN p - currentPos ELSE p + SlotNum - currentPos)
            + CircleOf(d) * SlotNum = d
  BY <1>1, <1>5, SlotsAway DEF PositionOf, CircleOf
<1>7. Remaining(t)' = d + 1
  <2>1. slot'[t] = p /\ circle'[t] = CircleOf(d) /\ currentPos' = currentPos
    BY <1>3, <1>4, <1>5 DEF TypeOK
  <2>2. slot'[t] # SlotNum
    BY <2>1, <1>5, <1>6
  <2>3. Remaining(t)' = (IF p >= currentPos THEN p - currentPos ELSE p + SlotNum - currentPos)
                          + CircleOf(d) * SlotNum + 1
    BY <2>1, <2>2 DEF Remaining, Pending, Distance, NoSlot
  <2> QED BY <2>3, <1>6
<1>8. \A u \in Tasks : u # t => Remaining(u)' = Remaining(u)
  BY <1>3, <1>4, <1>5 DEF TypeOK, Remaining, Pending, Distance, NoSlot
<1>9. Left' = [Left EXCEPT ![t] = d + 1]
  BY <1>3, <1>7, <1>8 DEF Left
<1>10. Left[t] = 0
  BY <1>3 DEF Left, Remaining, Pending
<1>11. C!Add(t, k, d)
  BY <1>3, <1>4, <1>9, <1>10 DEF C!Add, Left
<1> QED BY <1>1, <1>2, <1>3, <1>11 DEF C!Next

\* removeTask is Cancel: with unique keys the first task of the key is the only
\* one, and the index leads to its slot.
LEMMA RefinesCancel ==
    ASSUME UniqueKeys, IInv, NEW c \in Callers, removeTask(c)
    PROVE  C!Next
<1> DEFINE k == UserKey(call[c].key)
<1>1. call[c].key \in Keys
  BY DEF IInv, RequestOK, removeTask, Take
<1>2. k \in UserKeys /\ k \in AllKeys
  BY <1>1, KeyKinds
<1>3. /\ slot' = [t \in Tasks |-> IF t \in Cancelled(k) THEN NoSlot ELSE slot[t]]
      /\ UNCHANGED <<currentPos, circle, key, ran>>
  BY DEF removeTask
<1>4. ASSUME NEW t \in Tasks
      PROVE  Remaining(t)' = IF key[t] = k THEN 0 ELSE Remaining(t)
  <2>1. slot'[t] = IF t \in Cancelled(k) THEN NoSlot ELSE slot[t]
    BY <1>3
  <2>2. CASE t \in Cancelled(k)
    <3>1. key[t] = k /\ slot'[t] = NoSlot
      BY <2>1, <2>2 DEF Cancelled
    <3> QED BY <3>1 DEF Remaining, Pending, NoSlot
  <2>3. CASE t \notin Cancelled(k)
    <3>1. Remaining(t)' = Remaining(t)
      BY <2>1, <2>3, <1>3 DEF Remaining, Pending, Distance, NoSlot
    <3>2. ASSUME key[t] = k PROVE ~Pending(t)
      <4>1. SUFFICES ASSUME Pending(t) PROVE FALSE
        OBVIOUS
      <4>2. slot[t] = timer[k]
        BY <1>2, <3>2, <4>1 DEF IInv, IndexFinds, UserKeys
      <4>3. \A u \in Tasks : Pending(u) /\ key[u] = k => u = t
        BY <1>2, <3>2, <4>1 DEF IInv, KeysOK
      <4>4. t <= t
        BY DEF Tasks
      <4> QED BY <2>3, <3>2, <4>1, <4>2, <4>3, <4>4 DEF Cancelled
    <3>3. ~Pending(t) => Remaining(t) = 0
      BY DEF Remaining
    <3> QED BY <3>1, <3>2, <3>3
  <2> QED BY <2>2, <2>3
<1>5. Left' = [t \in Tasks |-> IF key[t] = k THEN 0 ELSE Left[t]]
  BY <1>4 DEF Left
<1>6. C!Cancel(k)
  BY <1>3, <1>5 DEF C!Cancel, Left
<1> QED BY <1>2, <1>6 DEF C!Next

\* tickHandler is Tick.
LEMMA RefinesTick ==
    ASSUME IInv, tickHandler
    PROVE  C!Next
<1>1. \A t \in Tasks : /\ Remaining(t)' = IF Remaining(t) = 0 THEN 0 ELSE Remaining(t) - 1
                       /\ Remaining(t) = 1 <=> t \in Due
  BY TickRemaining
<1>2. Left' = [t \in Tasks |-> IF Left[t] = 0 THEN 0 ELSE Left[t] - 1]
  BY <1>1 DEF Left
<1>3. /\ ran' = [t \in Tasks |-> IF t \in Due THEN ran[t] + 1 ELSE ran[t]]
      /\ UNCHANGED key
  BY DEF tickHandler
<1>4. ran' = [t \in Tasks |-> IF Left[t] = 1 THEN ran[t] + 1 ELSE ran[t]]
  BY <1>1, <1>3 DEF Left
<1>5. C!Tick
  BY <1>2, <1>3, <1>4 DEF C!Tick, Left
<1> QED BY <1>5 DEF C!Next

\* All other steps leave the timers alone.
LEMMA RefinesStep ==
    ASSUME UniqueKeys, IInv, [Next]_vars
    PROVE  [C!Next]_(C!vars)
<1>1. CASE \E c \in Callers : addTask(c)
  BY <1>1, RefinesAdd
<1>2. CASE \E c \in Callers : removeTask(c)
  BY <1>2, RefinesCancel
<1>3. CASE tickHandler
  BY <1>3, RefinesTick
<1>4. CASE \/ \E c \in Callers : CallerNext(c) \/ StopLoop(c)
           \/ CloseSig \/ UNCHANGED vars
  <2>1. UNCHANGED wheel
    BY <1>4 DEF CallerNext, AddTimer, AddTimerCustom, RemoveTimer, Stop, Ask, StopLoop,
                CloseSig, vars
  <2>2. Left' = Left /\ UNCHANGED <<key, ran>>
    BY <2>1, SameLeft DEF wheel
  <2> QED BY <2>2 DEF C!vars, Left
<1> QED BY <1>1, <1>2, <1>3, <1>4 DEF Next, Serve

\* For every number of slots and all delays the wheel does what a set of
\* countdowns does, as long as callers use a key for one pending timer at a time:
\* a task runs once, at tick d + 1 after addTask, unless removeTask was served for
\* its key before.
THEOREM Refinement ==
    ASSUME UniqueKeys PROVE Spec => Refines
<1>1. IInv /\ [Next]_vars => [C!Next]_(C!vars)
  BY RefinesStep
<1> QED BY <1>1, RefinesInit, Invariance, PTL DEF Spec, Refines, C!Spec
=============================================================================
