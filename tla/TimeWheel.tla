----------------------------- MODULE TimeWheel -----------------------------
(***************************************************************************)
(* The timing wheel (module/modules/timer/timingwheel.go).  One goroutine, *)
(* Start, owns the wheel; AddTimer, AddTimerCustom, RemoveTimer and Stop   *)
(* hand it requests over unbuffered channels, so a caller waits until the  *)
(* loop takes its request, for ever once the loop has ended.               *)
(*                                                                         *)
(* Delays are counted in intervals: delayMillisecond/intervalMillisecond.  *)
(* Tasks are numbered in the order the loop adds them; the list of a slot  *)
(* holds its tasks in that order (PushBack).                               *)
(***************************************************************************)
EXTENDS Naturals, FiniteSets

CONSTANTS SlotNum,     \* tw.slotNum
          Delays,      \* delays callers ask for
          Keys,        \* keys callers choose
          MaxAcc,      \* the largest int64
          MaxTasks,    \* bound: tasks ever added
          Callers,     \* goroutines that use the wheel
          UniqueKeys,  \* callers use a key for one pending timer at a time
          NoKey        \* the nil key of AddTimer

ASSUME WheelAssumption == /\ SlotNum \in Nat \ {0}
                          /\ Delays \subseteq Nat
                          /\ MaxAcc \in Nat \ {0}
                          /\ MaxTasks \in Nat
                          /\ UniqueKeys \in BOOLEAN
                          /\ NoKey \notin Keys

VARIABLES
    loop,         \* "running" or "stopped"
    currentPos,   \* tw.currentPos
    accumulator,  \* tw.accumulator
    slot,         \* slot[t]: the slot task t is in, or NoSlot
    circle,       \* circle[t]: task.circle
    key,          \* key[t]: task.key
    timer,        \* tw.timer; NoSlot where there is no entry
    added,        \* tasks added so far
    ran,          \* ran[t]: how often the job of t was started
    call          \* call[c]: the request c waits to hand over, or Idle

wheel == <<currentPos, accumulator, slot, circle, key, timer, added, ran>>
vars == <<loop, wheel, call>>

Tasks == 1..MaxTasks
Positions == 0..(SlotNum - 1)
NoSlot == SlotNum

\* A key is the caller's, or the accumulator's for AddTimer.
UserKey(k) == <<"user", k>>
AutoKey(n) == <<"auto", n>>
AllKeys == {UserKey(k) : k \in Keys} \cup {AutoKey(n) : n \in 0..MaxAcc}

Request(op, k, d) == [op |-> op, key |-> k, delay |-> d]
Idle == Request("idle", NoKey, 0)
Requests == [op : {"idle", "add", "remove", "stop"}, key : Keys \cup {NoKey},
             delay : Delays \cup {0}]

TypeOK == /\ loop \in {"running", "stopped"}
          /\ currentPos \in Positions
          /\ accumulator \in 0..MaxAcc
          /\ slot \in [Tasks -> Positions \cup {NoSlot}]
          /\ circle \in [Tasks -> Nat]
          /\ key \in [Tasks -> AllKeys]
          /\ timer \in [AllKeys -> Positions \cup {NoSlot}]
          /\ added \in 0..MaxTasks
          /\ ran \in [Tasks -> Nat]
          /\ call \in [Callers -> Requests]

\* New
Init == /\ loop = "running"
        /\ currentPos = 0
        /\ accumulator = 0
        /\ slot = [t \in Tasks |-> NoSlot]
        /\ circle = [t \in Tasks |-> 0]
        /\ key = [t \in Tasks |-> AutoKey(0)]
        /\ timer = [k \in AllKeys |-> NoSlot]
        /\ added = 0
        /\ ran = [t \in Tasks |-> 0]
        /\ call = [c \in Callers |-> Idle]

Pending(t) == slot[t] # NoSlot

-----------------------------------------------------------------------------
(* The callers *)

\* No pending timer, and no request for one, has key k.
KeyFree(k) == /\ \A t \in Tasks : Pending(t) => key[t] # UserKey(k)
              /\ \A c \in Callers : call[c].op = "add" => call[c].key # k

\* The bound MaxTasks: the loop can still add every task asked for.
RoomForTask == added + Cardinality({c \in Callers : call[c].op = "add"}) < MaxTasks

Ask(c, r) == /\ call[c] = Idle
             /\ call' = [call EXCEPT ![c] = r]
             /\ UNCHANGED <<loop, wheel>>

AddTimer(c, d) == RoomForTask /\ Ask(c, Request("add", NoKey, d))

AddTimerCustom(c, k, d) == /\ RoomForTask
                           /\ UniqueKeys => KeyFree(k)
                           /\ Ask(c, Request("add", k, d))

RemoveTimer(c, k) == Ask(c, Request("remove", k, 0))

Stop(c) == Ask(c, Request("stop", NoKey, 0))

-----------------------------------------------------------------------------
(* The loop *)

\* The loop takes the request of c and the caller goes on.
Take(c, op) == /\ loop = "running"
               /\ call[c].op = op
               /\ call' = [call EXCEPT ![c] = Idle]

\* The accumulator starts again when it has reached the largest int64.
NextAcc == (IF accumulator >= MaxAcc THEN 0 ELSE accumulator) + 1

\* Mutant of PositionOf: counted from slot 0, not from the current one.
PositionOf_FromZero(d) == d % SlotNum

\* getPositionAndCircle
PositionOf(d) == (currentPos + d) % SlotNum
CircleOf(d) == d \div SlotNum

addTask(c) ==
    /\ Take(c, "add")
    /\ added < MaxTasks
    /\ LET t == added + 1
           k == IF call[c].key = NoKey THEN AutoKey(NextAcc) ELSE UserKey(call[c].key)
           d == call[c].delay
       IN  /\ accumulator' = IF call[c].key = NoKey THEN NextAcc ELSE accumulator
           /\ key' = [key EXCEPT ![t] = k]
           /\ slot' = [slot EXCEPT ![t] = PositionOf(d)]
           /\ circle' = [circle EXCEPT ![t] = CircleOf(d)]
           /\ timer' = [timer EXCEPT ![k] = PositionOf(d)]
           /\ added' = t
    /\ UNCHANGED <<loop, currentPos, ran>>

\* The task removeTask takes out: the first one with key k in the list of the
\* slot the index names.  l.Remove(e) unlinks e, so e.Next() is nil and the scan
\* ends there.
Cancelled(k) ==
    LET found == {t \in Tasks : slot[t] = timer[k] /\ Pending(t) /\ key[t] = k}
    IN  {t \in found : \A u \in found : t <= u}

removeTask(c) ==
    /\ Take(c, "remove")
    /\ LET k == UserKey(call[c].key)
       IN  /\ slot' = [t \in Tasks |-> IF t \in Cancelled(k) THEN NoSlot ELSE slot[t]]
           /\ timer' = IF Cancelled(k) = {} THEN timer ELSE [timer EXCEPT ![k] = NoSlot]
    /\ UNCHANGED <<loop, currentPos, accumulator, circle, key, added, ran>>

\* case <-tw.stopChannel
StopLoop(c) == /\ Take(c, "stop")
               /\ loop' = "stopped"
               /\ UNCHANGED wheel

\* case <-closeSig: the module is told to stop.
CloseSig == /\ loop = "running"
            /\ loop' = "stopped"
            /\ UNCHANGED <<wheel, call>>

NextPos == IF currentPos = SlotNum - 1 THEN 0 ELSE currentPos + 1

\* Tasks of the current slot that run now
Due == {t \in Tasks : slot[t] = currentPos /\ circle[t] = 0}

\* Mutant of tickHandler: circles are not counted down.
tickHandler_NoCount ==
    /\ loop = "running"
    /\ currentPos' = NextPos
    /\ slot' = [t \in Tasks |-> IF t \in Due THEN NoSlot ELSE slot[t]]
    /\ timer' = [k \in AllKeys |-> IF \E t \in Due : key[t] = k THEN NoSlot ELSE timer[k]]
    /\ ran' = [t \in Tasks |-> IF t \in Due THEN ran[t] + 1 ELSE ran[t]]
    /\ UNCHANGED <<loop, accumulator, circle, key, added, call>>

\* tickHandler and scanAndRunTask: the current slot is scanned, tasks with
\* circles left lose one, the others are removed and their jobs started.
tickHandler ==
    /\ loop = "running"
    /\ currentPos' = NextPos
    /\ circle' = [t \in Tasks |-> IF slot[t] = currentPos /\ circle[t] > 0
                                  THEN circle[t] - 1 ELSE circle[t]]
    /\ slot' = [t \in Tasks |-> IF t \in Due THEN NoSlot ELSE slot[t]]
    /\ timer' = [k \in AllKeys |-> IF \E t \in Due : key[t] = k THEN NoSlot ELSE timer[k]]
    /\ ran' = [t \in Tasks |-> IF t \in Due THEN ran[t] + 1 ELSE ran[t]]
    /\ UNCHANGED <<loop, accumulator, key, added, call>>

-----------------------------------------------------------------------------
CallerNext(c) == \/ \E d \in Delays : AddTimer(c, d)
                 \/ \E k \in Keys, d \in Delays : AddTimerCustom(c, k, d)
                 \/ \E k \in Keys : RemoveTimer(c, k)
                 \/ Stop(c)

Serve(c) == addTask(c) \/ removeTask(c) \/ StopLoop(c)

Next == \/ \E c \in Callers : CallerNext(c) \/ Serve(c)
        \/ CloseSig
        \/ tickHandler

Spec == Init /\ [][Next]_vars

\* select chooses at random between the channels that are ready: a tick and a
\* waiting request are both served sooner or later.
Fairness == /\ WF_vars(tickHandler)
            /\ \A c \in Callers : SF_vars(Serve(c))

FairSpec == Spec /\ Fairness

-----------------------------------------------------------------------------
(* Properties *)

\* Slots the hand still has to pass before it reaches position p
Distance(p) == IF p >= currentPos THEN p - currentPos ELSE p + SlotNum - currentPos

\* Ticks until t runs
Remaining(t) == IF Pending(t) THEN Distance(slot[t]) + circle[t] * SlotNum + 1 ELSE 0

\* The wheel keeps what a set of timers promises, slots and circles
\* notwithstanding: a task runs exactly at the tick its delay asks for, once, and
\* RemoveTimer removes the timer of its key ("revoke a timer not yet executed
\* through its key", timingwheel.go:116).
C == INSTANCE Countdown
        WITH remaining <- [t \in Tasks |-> Remaining(t)], Keys <- AllKeys
Refines == C!Spec

\* tw.timer leads to the pending timer of every key a caller chose, so that it
\* can be removed; firing or removing another timer never takes the entry away.
IndexFinds == \A t \in Tasks : Pending(t) /\ key[t] \in {UserKey(k) : k \in Keys}
                                   => timer[key[t]] = slot[t]

\* While the wheel turns every timer runs or is removed.
TimersExpire == \A t \in Tasks : Pending(t) ~> (~Pending(t) \/ loop = "stopped")
=============================================================================
