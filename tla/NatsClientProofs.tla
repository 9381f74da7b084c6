-------------------------- MODULE NatsClientProofs --------------------------
(***************************************************************************)
(* Proofs about NatsClient for any set of calls and closers, any channel   *)
(* capacity and any number of re-subscriptions and replies.                *)
(***************************************************************************)
EXTENDS NatsClient, TLAPS

-----------------------------------------------------------------------------
(* The inductive invariant *)

Delivering == loop \in {"deliver", "close"}

\* The loop holds a reply exactly between NextMsg and CloseFch.
HeldInv == loop \in {"got", "deliver", "close"} => held \in Calls

\* A registered callback is untouched and its caller has not returned.
RegisteredInv ==
    \A c \in callinfos : /\ caller[c] \in {"waiting", "deleting"}
                         /\ closes[c] = 0
                         /\ chan[c] = 0

\* The callback the loop has taken is its own, and empty until it sends.
OwnerInv == Delivering => /\ held \notin callinfos
                          /\ closes[held] = 0
                          /\ caller[held] \notin {"idle", "error", "sent"}
                          /\ loop = "deliver" => chan[held] = 0

\* A call that was never registered has a fresh channel.
FreshInv == \A c \in Calls : caller[c] \in {"idle", "error", "sent"} =>
                                /\ closes[c] = 0
                                /\ chan[c] = 0

\* A waiter that sees, or is about to see, a closed empty channel belongs to a
\* closed client.
ClosedEmptyInv ==
    \A c \in Calls : /\ caller[c] = "waiting"
                     /\ chan[c] = 0
                     /\ closes[c] > 0 \/ (loop = "close" /\ held = c)
                     => isClose

\* Results come from replies.
AnsweredInv == /\ \A c \in Calls : inbox[c] > 0 \/ chan[c] > 0 => replies[c] > 0
               /\ loop \in {"got", "deliver", "close"} => replies[held] > 0

\* finish runs on a closed client and empties the map before it ends.
StopInv == /\ loop \in {"release", "exit", "stopped"} => isClose
           /\ loop \in {"exit", "stopped"} => callinfos = {}

IInv == /\ TypeOK
        /\ HeldInv
        /\ RegisteredInv
        /\ OwnerInv
        /\ FreshInv
        /\ ClosedEmptyInv
        /\ AnsweredInv
        /\ StopInv
        /\ CallbackClosedOnce
        /\ WaiterAccounted
        /\ OneSubscription
-----------------------------------------------------------------------------
(* IInv is inductive *)

\* The state NewNatsClient returns satisfies the invariant.
LEMMA InitInv == Init => IInv
<1> SUFFICES ASSUME Init PROVE IInv
  OBVIOUS
<1> USE DEF Init
<1>1. TypeOK
  <2>1. subs \in 0..MaxSubs /\ active \subseteq 0..MaxSubs
    BY ConstAssumption DEF ConstAssumption
  <2>2. /\ inbox \in [Calls -> Nat] /\ closes \in [Calls -> Nat]
        /\ chan \in [Calls -> 0..ChanCap] /\ replies \in [Calls -> 0..MaxReplies]
    BY ConstAssumption DEF ConstAssumption
  <2>3. /\ caller \in [Calls -> {"idle", "waiting", "deleting"} \cup Finished]
        /\ closer \in [Closers -> {"idle", "waiting", "returned"}]
    OBVIOUS
  <2> QED
    BY <2>1, <2>2, <2>3 DEF TypeOK, LoopStates, Errors
<1>2. HeldInv /\ OwnerInv /\ StopInv
  BY DEF HeldInv, OwnerInv, Delivering, StopInv
<1>3. RegisteredInv /\ FreshInv /\ ClosedEmptyInv
  BY DEF RegisteredInv, FreshInv, ClosedEmptyInv
<1>4. AnsweredInv /\ CallbackClosedOnce /\ WaiterAccounted /\ OneSubscription
  BY DEF AnsweredInv, CallbackClosedOnce, WaiterAccounted, OneSubscription
<1> QED
  BY <1>1, <1>2, <1>3, <1>4 DEF IInv

\* Every step of a caller, a closer, the receive loop, NATS or the remote side
\* preserves the invariant.
LEMMA NextInv == IInv /\ [Next]_vars => IInv'
<1> SUFFICES ASSUME IInv, [Next]_vars PROVE IInv'
  OBVIOUS
<1> USE ConstAssumption
        DEF ConstAssumption, transport, IInv, TypeOK, LoopStates, Errors, Finished,
            HeldInv, RegisteredInv, OwnerInv, Delivering, FreshInv, ClosedEmptyInv,
            AnsweredInv, StopInv, CallbackClosedOnce, WaiterAccounted, OneSubscription
<1>1. ASSUME NEW c \in Calls, CallPublished(c) PROVE IInv'
  BY <1>1 DEF CallPublished
<1>2. ASSUME NEW c \in Calls, CallRefused(c) PROVE IInv'
  BY <1>2 DEF CallRefused
<1>3. ASSUME NEW c \in Calls, CallNR(c) PROVE IInv'
  BY <1>3 DEF CallNR
<1>4. ASSUME NEW c \in Calls, CallerResult(c) PROVE IInv'
  BY <1>4 DEF CallerResult
<1>5. ASSUME NEW c \in Calls, CallerClosed(c) PROVE IInv'
  BY <1>5 DEF CallerClosed
<1>6. ASSUME NEW c \in Calls, CallerTimeout(c) PROVE IInv'
  BY <1>6 DEF CallerTimeout
<1>7. ASSUME NEW c \in Calls, CallerDelete(c) PROVE IInv'
  BY <1>7 DEF CallerDelete
<1>8. ASSUME NEW d \in Closers, DoneStop(d) PROVE IInv'
  BY <1>8 DEF DoneStop, Stop
<1>9. ASSUME NEW d \in Closers, DoneReturn(d) PROVE IInv'
  BY <1>9 DEF DoneReturn
<1>10. CASE LoopTop
  BY <1>10 DEF LoopTop
<1>11. ASSUME NEW c \in Calls, LoopReceive(c) PROVE IInv'
  BY <1>11 DEF LoopReceive
<1>12. ASSUME NEW c \in Calls, LoopGarbage(c) PROVE IInv'
  BY <1>12 DEF LoopGarbage
<1>13. ASSUME NEW e \in {"timeout", "other"}, LoopFail(e) PROVE IInv'
  BY <1>13 DEF LoopFail
<1>14. CASE ErrorReturn
  BY <1>14 DEF ErrorReturn
<1>15. CASE ErrorValid
  BY <1>15 DEF ErrorValid
<1>16. CASE ErrorResubscribe
  BY <1>16 DEF ErrorResubscribe
<1>17. CASE ErrorSubscribeFail
  BY <1>17 DEF ErrorSubscribeFail
<1>18. CASE BackoffClosed
  BY <1>18 DEF BackoffClosed
<1>19. CASE BackoffTimer
  BY <1>19 DEF BackoffTimer
<1>20. CASE TakeCallback
  BY <1>20 DEF TakeCallback
<1>21. CASE DeliverBuffer
  BY <1>21 DEF DeliverBuffer
<1>22. CASE DeliverDirect
  BY <1>22 DEF DeliverDirect
<1>23. CASE DeliverDone
  BY <1>23 DEF DeliverDone
<1>24. CASE CloseFch
  BY <1>24 DEF CloseFch
<1>25. CASE FinishStop
  BY <1>25 DEF FinishStop, Stop
<1>26. CASE FinishRelease
  BY <1>26 DEF FinishRelease
<1>27. CASE FinishStopped
  BY <1>27 DEF FinishStopped
<1>28. ASSUME NEW c \in Calls, Reply(c) PROVE IInv'
  BY <1>28 DEF Reply
<1>29. CASE SubscriptionLost
  BY <1>29 DEF SubscriptionLost
<1>30. CASE ConnClose
  BY <1>30 DEF ConnClose
<1>31. CASE UNCHANGED vars
  BY <1>31 DEF vars
<1> QED
  BY <1>1, <1>2, <1>3, <1>4, <1>5, <1>6, <1>7, <1>8, <1>9, <1>10, <1>11,
     <1>12, <1>13, <1>14, <1>15, <1>16, <1>17, <1>18, <1>19, <1>20,
     <1>21, <1>22, <1>23, <1>24, <1>25, <1>26, <1>27, <1>28, <1>29,
     <1>30, <1>31
  DEF Next, CallerStep, LoopStep, Environment

\* The invariant holds in every reachable state.
LEMMA Invariance == Spec => []IInv
  BY InitInv, NextInv, PTL DEF Spec

-----------------------------------------------------------------------------
(* Theorems *)

\* The variables keep their types; a callback channel never holds more results
\* than the buffer CallArgs gives it.
THEOREM TypeCorrect == Spec => []TypeOK
<1>1. IInv => TypeOK
  BY DEF IInv
<1> QED
  BY Invariance, <1>1, PTL

\* A callback channel is closed at most once (nats_client.go:71).
THEOREM ClosedOnce == Spec => []CallbackClosedOnce
<1>1. IInv => CallbackClosedOnce
  BY DEF IInv
<1> QED
  BY Invariance, <1>1, PTL

\* The receive loop delivers to a channel only it can reach (nats_client.go:240).
THEOREM LoopOwnsCallback == Spec => []DeliveryOwnsCallback
<1>1. IInv => DeliveryOwnsCallback
  BY DEF IInv, OwnerInv, Delivering, DeliveryOwnsCallback
<1> QED
  BY Invariance, <1>1, PTL

\* Every waiting caller is registered, being served, or released.
THEOREM WaitersAccounted == Spec => []WaiterAccounted
<1>1. IInv => WaiterAccounted
  BY DEF IInv
<1> QED
  BY Invariance, <1>1, PTL

\* At most the current subscription is served, none once the client is closed.
THEOREM SingleSubscription == Spec => []OneSubscription
<1>1. IInv => OneSubscription
  BY DEF IInv
<1> QED
  BY Invariance, <1>1, PTL

\* When Done returns, no call, subscription or waiter is left behind.
THEOREM StopReleases == Spec => []ReleasedOnStop
<1>1. IInv => ReleasedOnStop
  BY DEF IInv, StopInv, OneSubscription, WaiterAccounted, ReleasedOnStop
<1> QED
  BY Invariance, <1>1, PTL

\* Nothing is registered, sent, closed or subscribed after the loop stopped
\* (nats_client.go:95).
THEOREM QuietnessAfterStop == Spec => QuietAfterStop
<1> DEFINE Quiet == loop = "stopped" => /\ UNCHANGED <<callinfos, closes, active>>
                                        /\ \A c \in Calls : chan'[c] <= chan[c]
<1>1. IInv /\ [Next]_vars => [Quiet]_vars
  <2> SUFFICES ASSUME IInv, [Next]_vars, loop = "stopped"
               PROVE  Quiet
    BY DEF Quiet
  <2> USE DEF transport
  <2>1. /\ isClose /\ callinfos = {} /\ active = {}
        /\ chan \in [Calls -> 0..ChanCap]
    BY DEF IInv, TypeOK, StopInv, OneSubscription
  <2>9. ASSUME chan' = chan PROVE \A c \in Calls : chan'[c] <= chan[c]
    BY <2>1, <2>9, ConstAssumption DEF ConstAssumption
  <2>2. ASSUME NEW c \in Calls, CallPublished(c) PROVE Quiet
    BY <2>1, <2>2 DEF CallPublished
  <2>3. ASSUME NEW c \in Calls,
               CallRefused(c) \/ CallNR(c) \/ CallerClosed(c) \/ CallerTimeout(c) \/ CallerDelete(c)
        PROVE  Quiet
    BY <2>1, <2>3, <2>9
       DEF CallRefused, CallNR, CallerClosed, CallerTimeout, CallerDelete
  <2>4. ASSUME NEW c \in Calls, CallerResult(c) PROVE Quiet
    BY <2>1, <2>4, ConstAssumption DEF ConstAssumption, CallerResult
  <2>5. ASSUME NEW d \in Closers, DoneStop(d) \/ DoneReturn(d) PROVE Quiet
    BY <2>1, <2>5, <2>9 DEF DoneStop, DoneReturn, Stop
  <2>6. CASE LoopStep
    BY <2>6 DEF LoopStep, LoopTop, LoopReceive, LoopGarbage, LoopFail, ErrorReturn,
          ErrorValid, ErrorResubscribe, ErrorSubscribeFail, BackoffClosed, BackoffTimer,
          TakeCallback, DeliverBuffer, DeliverDirect, DeliverDone, CloseFch, FinishStop,
          FinishRelease, FinishStopped
  <2>7. CASE Environment
    BY <2>1, <2>7, <2>9
       DEF Environment, Reply, SubscriptionLost, ConnClose
  <2>8. CASE UNCHANGED vars
    BY <2>1, <2>8, <2>9 DEF vars
  <2> QED
    BY <2>2, <2>3, <2>4, <2>5, <2>6, <2>7, <2>8 DEF Next, CallerStep
<1> QED
  BY Invariance, <1>1, PTL DEF Spec, QuietAfterStop

-----------------------------------------------------------------------------
(* NatsClient implements CallLifecycle *)

\* The outcome of every call follows the abstract life cycle.
THEOREM Refinement == Spec => RefinesLifecycle
<1>1. Init => Lifecycle!Init
  BY DEF Init, Lifecycle!Init
<1>2. IInv /\ [Next]_vars => [Lifecycle!Next]_Lifecycle!vars
  <2> SUFFICES ASSUME IInv, [Next]_vars PROVE [Lifecycle!Next]_Lifecycle!vars
    OBVIOUS
  <2> DEFINE st == [c \in Calls |-> IF caller[c] \in {"waiting", "deleting"}
                                    THEN "pending" ELSE caller[c]]
             answered == {c \in Calls : replies[c] > 0}
  <2> USE DEF transport
  <2>t. TypeOK
    BY DEF IInv
  <2>f. ASSUME UNCHANGED <<isClose, replies, caller>>
        PROVE  UNCHANGED Lifecycle!vars
    BY <2>f DEF Lifecycle!vars
  <2>m. ASSUME NEW c \in Calls, NEW to, caller' = [caller EXCEPT ![c] = to]
        PROVE  st' = [st EXCEPT ![c] = IF to \in {"waiting", "deleting"}
                                       THEN "pending" ELSE to]
    BY <2>m, <2>t DEF TypeOK
  <2>1. ASSUME NEW c \in Calls, CallPublished(c) PROVE Lifecycle!Begin(c)
    BY <2>1, <2>m DEF CallPublished, Lifecycle!Begin, Lifecycle!Move
  <2>2. ASSUME NEW c \in Calls, CallRefused(c) PROVE Lifecycle!Reject(c)
    BY <2>2, <2>m DEF CallRefused, Lifecycle!Reject, Lifecycle!Move
  <2>3. ASSUME NEW c \in Calls, CallNR(c) PROVE Lifecycle!Send(c)
    BY <2>3, <2>m DEF CallNR, Lifecycle!Send, Lifecycle!Move
  <2>4. ASSUME NEW c \in Calls, CallerResult(c) PROVE Lifecycle!Result(c)
    BY <2>4, <2>m DEF CallerResult, Lifecycle!Result, Lifecycle!Move, IInv, AnsweredInv
  <2>5. ASSUME NEW c \in Calls, CallerClosed(c) PROVE Lifecycle!Release(c)
    BY <2>5, <2>m DEF CallerClosed, Lifecycle!Release, Lifecycle!Move, IInv, ClosedEmptyInv
  <2>6. ASSUME NEW c \in Calls, CallerTimeout(c) PROVE UNCHANGED Lifecycle!vars
    BY <2>6, <2>m, <2>t DEF CallerTimeout, Lifecycle!vars, TypeOK
  <2>7. ASSUME NEW c \in Calls, CallerDelete(c) PROVE Lifecycle!Expire(c)
    BY <2>7, <2>m DEF CallerDelete, Lifecycle!Expire, Lifecycle!Move
  <2>8. CASE DeliverDirect
    <3>1. PICK c \in Calls : c = held
      BY <2>8 DEF DeliverDirect, IInv, HeldInv
    <3>2. c \in answered /\ caller[c] = "waiting"
      BY <2>8, <3>1 DEF DeliverDirect, IInv, AnsweredInv
    <3>3. Lifecycle!Result(c)
      BY <2>8, <3>1, <3>2, <2>m DEF DeliverDirect, Lifecycle!Result, Lifecycle!Move
    <3> QED
      BY <3>3 DEF Lifecycle!Next
  <2>9. CASE FinishStop \/ \E d \in Closers : DoneStop(d)
    <3>1. Lifecycle!Close
      BY <2>9 DEF FinishStop, DoneStop, Stop, Lifecycle!Close
    <3> QED
      BY <3>1 DEF Lifecycle!Next
  <2>10. ASSUME NEW c \in Calls, Reply(c) PROVE Lifecycle!Answer(c)
    BY <2>10, <2>t, ConstAssumption DEF ConstAssumption, Reply, Lifecycle!Answer, TypeOK
  <2>11. CASE \/ \E d \in Closers : DoneReturn(d)
              \/ LoopStep /\ ~DeliverDirect /\ ~FinishStop
              \/ SubscriptionLost \/ ConnClose \/ UNCHANGED vars
    <3>1. UNCHANGED <<isClose, replies, caller>>
      BY <2>11 DEF DoneReturn, LoopStep, LoopTop, LoopReceive, LoopGarbage, LoopFail,
            ErrorReturn, ErrorValid, ErrorResubscribe, ErrorSubscribeFail, BackoffClosed,
            BackoffTimer, TakeCallback, DeliverBuffer, DeliverDone, CloseFch,
            FinishRelease, FinishStopped, SubscriptionLost, ConnClose, vars
    <3> QED
      BY <3>1, <2>f
  <2> QED
    BY <2>1, <2>2, <2>3, <2>4, <2>5, <2>6, <2>7, <2>8, <2>9, <2>10, <2>11
    DEF Next, CallerStep, Environment, Lifecycle!Next
<1> QED
  BY Invariance, <1>1, <1>2, PTL DEF Spec, RefinesLifecycle, Lifecycle!Spec
=============================================================================
