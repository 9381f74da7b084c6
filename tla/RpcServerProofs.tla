-------------------------- MODULE RpcServerProofs --------------------------
(* Type correctness, AnsweredOnce, what the wait group and the tokens count, *)
(* and that nothing is taken after Done, for any number of requests, any     *)
(* limit and any number of subscriptions.                                    *)
EXTENDS RpcServer, FiniteSetTheorems, TLAPS

\* The handlings wg counts, and those that hold a token they give back
Counted == {r \in Requests : work[r] \in {"running", "replied", "panicking"}}
Holding == {r \in Requests : work[r] \in {"spawned", "running", "replied", "panicking"}}

\* Where the loop is says whether it has a request, and one that waits, in the
\* subscription or in the loop, has not been handled.
QueueInv ==
    /\ loop \in {"call", "sync"} <=> cur # None
    /\ loop = "call" => work[cur] = "none"
    /\ cur # None => cur \in sent
    /\ \A r \in Requests : r \in pending \/ r \notin sent => work[r] = "none" /\ r # cur

\* Replies so far, by where the handling is
RepliesInv ==
    \A r \in Requests :
        /\ work[r] \in {"none", "spawned", "running"} => replies[r] = 0
        /\ work[r] = "replied" => replies[r] = 1
        /\ work[r] \in {"panicking", "recovering"} =>
              replies[r] \in (IF r \in LatePanics THEN 0..1 ELSE {0})
        /\ work[r] = "finished" => replies[r] \in (IF r \in LatePanics THEN 1..2 ELSE {1})

\* wg.Wait waits for exactly the handlers that have begun and not returned.
WgCounts == IsFiniteSet(Counted) /\ wg = Cardinality(Counted)

\* Every handling in progress holds a token, and no more are taken than there are.
TokensCover == /\ IsFiniteSet(Holding) /\ Cardinality(Holding) <= tokens
               /\ limit # 0 => tokens <= limit

StopInv == closer = "returned" => loop = "stopped"

IInv == TypeOK /\ QueueInv /\ RepliesInv /\ WgCounts /\ TokensCover /\ StopInv

USE ConstAssumption DEF ConstAssumption, setup, nats, closing, vars

LEMMA InitInv == Init => IInv
<1> SUFFICES ASSUME Init PROVE IInv
  OBVIOUS
<1>1. TypeOK
  <2>1. done \in BOOLEAN /\ isClose \in BOOLEAN /\ unsub \in BOOLEAN
    BY Zenon DEF Init
  <2>2. kind \in [Requests -> HandlerKinds]
    BY DEF Init
  <2>3. subs \in 0..MaxSubs \cup {None} /\ created \in 0..MaxSubs /\ active \subseteq 0..MaxSubs
    BY DEF Init
  <2>4. wg \in Nat /\ tokens \in Nat /\ replies \in [Requests -> 0..2]
    BY DEF Init
  <2> QED  BY <2>1, <2>2, <2>3, <2>4, Zenon DEF Init, TypeOK
<1>2. QueueInv /\ RepliesInv /\ StopInv
  BY DEF Init, QueueInv, RepliesInv, StopInv
<1>3. Counted = {} /\ Holding = {}
  BY DEF Init, Counted, Holding
<1>4. WgCounts /\ TokensCover
  BY <1>3, FS_EmptySet DEF Init, WgCounts, TokensCover
<1> QED  BY <1>1, <1>2, <1>4 DEF IInv

-----------------------------------------------------------------------------
(* Steps that leave the handling of requests alone *)

\* What is counted depends on the handling of requests only.
LEMMA CountsKept ==
    ASSUME IInv, UNCHANGED <<work, wg, tokens, limit>>
    PROVE  WgCounts' /\ TokensCover'
<1>1. Counted' = Counted /\ Holding' = Holding
  BY DEF Counted, Holding
<1> QED  BY <1>1 DEF IInv, WgCounts, TokensCover

LEMMA LoopInv ==
    ASSUME IInv,
           \/ LoopCheck \/ LoopFail \/ LoopResubscribe \/ LoopSubscribeFail \/ LoopExit
           \/ CallReturn \/ \E r \in Requests : LoopReceive(r) \/ LoopGarbage(r)
    PROVE  IInv'
<1> USE DEF LoopCheck, LoopFail, LoopResubscribe, LoopSubscribeFail, LoopExit, CallReturn,
            LoopReceive, LoopGarbage
<1>1. UNCHANGED <<kind, limit, sent, done, isClose, unsub, closer, work, wg, tokens, replies>>
  OBVIOUS
<1>2. TypeOK'
  <2>1. pending' \subseteq sent
    BY DEF IInv, TypeOK
  <2>2. subs' \in 0..MaxSubs \cup {None} /\ created' \in 0..MaxSubs /\ active' \subseteq 0..MaxSubs
    <3>1. CASE LoopResubscribe
      <4>1. created + 1 \in 0..MaxSubs
        BY <3>1 DEF IInv, TypeOK
      <4> QED  BY <3>1, <4>1 DEF IInv, TypeOK
    <3>2. CASE LoopSubscribeFail
      BY <3>2 DEF IInv, TypeOK
    <3>3. CASE UNCHANGED nats
      BY <3>3 DEF IInv, TypeOK
    <3> QED  BY <3>1, <3>2, <3>3
  <2>3. /\ loop' \in {"check", "next", "call", "sync", "exit", "stopped"}
        /\ cur' \in Requests \cup {None}
    BY DEF IInv, TypeOK
  <2> QED  BY <1>1, <2>1, <2>2, <2>3 DEF IInv, TypeOK
<1>3. QueueInv'
  BY <1>1 DEF IInv, TypeOK, QueueInv
<1>4. RepliesInv'
  BY <1>1 DEF IInv, RepliesInv
<1>5. StopInv'
  BY <1>1 DEF IInv, StopInv
<1> QED  BY <1>1, <1>2, <1>3, <1>4, <1>5, CountsKept DEF IInv

LEMMA OutsideInv ==
    ASSUME IInv, Unsubscribe \/ SubscriptionLost \/ DoneCall \/ CloserStep
                 \/ \E r \in Requests : Send(r)
    PROVE  IInv'
<1> USE DEF Unsubscribe, SubscriptionLost, DoneCall, CloserStep, DoneDrained, ShutdownDone,
            ShutdownClose, ShutdownReturn, Send
<1>1. UNCHANGED <<kind, limit, loop, cur, work, wg, tokens, replies>>
  OBVIOUS
<1>2. TypeOK'
  <2>1. done' \in BOOLEAN /\ isClose' \in BOOLEAN /\ unsub' \in BOOLEAN
    BY Zenon DEF IInv, TypeOK
  <2>2. /\ sent' \subseteq Requests /\ pending' \subseteq sent' /\ active' \subseteq 0..MaxSubs
        /\ subs' \in 0..MaxSubs \cup {None} /\ created' \in 0..MaxSubs
        /\ closer' \in {"idle", "waiting", "drained", "done", "closed", "returned"}
    BY DEF IInv, TypeOK
  <2> QED  BY <1>1, <2>1, <2>2 DEF IInv, TypeOK
<1>3. QueueInv'
  BY <1>1 DEF IInv, TypeOK, QueueInv
<1>4. RepliesInv'
  BY <1>1 DEF IInv, RepliesInv
<1>5. StopInv'
  BY <1>1 DEF IInv, StopInv
<1> QED  BY <1>1, <1>2, <1>3, <1>4, <1>5, CountsKept DEF IInv

-----------------------------------------------------------------------------
(* The handling of a request *)

\* The request of the loop is answered, with its token kept for good, or handed to a
\* handler: it was not handled before.
LEMMA CallInv == ASSUME IInv, CallMissing \/ CallHandler PROVE IInv'
<1> USE DEF CallMissing, CallHandler, TokenFree
<1>1. cur \in Requests /\ work[cur] = "none"
  BY DEF IInv, QueueInv, TypeOK
<1>2. TypeOK'
  <2>1. replies' \in [Requests -> 0..2]
    BY <1>1 DEF IInv, TypeOK, RepliesInv
  <2>2. tokens' \in Nat /\ wg' = wg
    BY DEF IInv, TypeOK
  <2>3. /\ loop' \in {"check", "next", "call", "sync", "exit", "stopped"}
        /\ cur' \in Requests \cup {None}
        /\ work' \in [Requests -> {"none", "spawned", "running", "replied",
                                  "panicking", "recovering", "finished"}]
    BY <1>1 DEF IInv, TypeOK
  <2>4. UNCHANGED <<setup, sent, pending, nats, closing, unsub>>
    OBVIOUS
  <2> QED  BY <2>1, <2>2, <2>3, <2>4 DEF IInv, TypeOK
<1>3. QueueInv'
  BY <1>1 DEF IInv, TypeOK, QueueInv
<1>4. RepliesInv'
  BY <1>1 DEF IInv, TypeOK, RepliesInv
<1>5. WgCounts'
  <2>1. Counted' = Counted
    BY <1>1 DEF IInv, TypeOK, Counted
  <2> QED  BY <2>1 DEF IInv, WgCounts
<1>6. TokensCover'
  <2>1. cur \notin Holding /\ Holding' \subseteq Holding \cup {cur}
    BY <1>1 DEF IInv, TypeOK, Holding
  <2>2. IsFiniteSet(Holding \cup {cur}) /\ Cardinality(Holding \cup {cur}) = Cardinality(Holding) + 1
    BY <2>1, FS_AddElement DEF IInv, TokensCover
  <2>3. IsFiniteSet(Holding') /\ Cardinality(Holding') <= Cardinality(Holding) + 1
    BY <2>1, <2>2, FS_Subset
  <2>4. Cardinality(Holding) \in Nat /\ Cardinality(Holding') \in Nat
    BY <2>3, FS_CardinalityType DEF IInv, TokensCover
  <2>5. limit \in Nat /\ tokens \in Nat /\ tokens' = tokens + 1 /\ limit' = limit
    BY DEF IInv, TypeOK
  <2> QED  BY <2>3, <2>4, <2>5 DEF IInv, TokensCover
<1>7. StopInv'
  BY DEF IInv, StopInv
<1> QED  BY <1>2, <1>3, <1>4, <1>5, <1>6, <1>7 DEF IInv

\* A step within a handling that neither begins nor ends its part under wg
LEMMA WithinInv ==
    ASSUME IInv, NEW r \in Requests, Answer(r) \/ Panic(r) \/ RecoverReply(r)
    PROVE  IInv'
<1> USE DEF Answer, Panic, RecoverReply
<1>1. TypeOK'
  <2>1. replies' \in [Requests -> 0..2]
    BY DEF IInv, TypeOK, RepliesInv
  <2>2. work' \in [Requests -> {"none", "spawned", "running", "replied",
                               "panicking", "recovering", "finished"}]
    BY DEF IInv, TypeOK
  <2>3. UNCHANGED <<setup, sent, pending, nats, closing, unsub, loop, cur, wg, tokens>>
    OBVIOUS
  <2> QED  BY <2>1, <2>2, <2>3 DEF IInv, TypeOK
<1>2. QueueInv'
  BY DEF IInv, TypeOK, QueueInv
<1>3. RepliesInv'
  BY DEF IInv, TypeOK, RepliesInv
<1>4. Counted' = Counted /\ Holding' = Holding
  BY DEF IInv, TypeOK, Counted, Holding
<1>5. WgCounts' /\ TokensCover'
  BY <1>4 DEF IInv, WgCounts, TokensCover
<1>6. StopInv'
  BY DEF IInv, StopInv
<1> QED  BY <1>1, <1>2, <1>3, <1>5, <1>6 DEF IInv

\* A wrong number of parameters ends a handling that wg never counted.
LEMMA ArityInv == ASSUME IInv, NEW r \in Requests, ArityError(r) PROVE IInv'
<1> USE DEF ArityError
<1>1. TypeOK'
  BY DEF IInv, TypeOK, RepliesInv
<1>2. QueueInv'
  BY DEF IInv, TypeOK, QueueInv
<1>3. RepliesInv'
  BY DEF IInv, TypeOK, RepliesInv
<1>4. Counted' = Counted /\ Holding' \subseteq Holding
  BY DEF IInv, TypeOK, Counted, Holding
<1>5. WgCounts'
  BY <1>4 DEF IInv, WgCounts
<1>6. TokensCover'
  <2>1. /\ IsFiniteSet(Holding') /\ Cardinality(Holding') <= Cardinality(Holding)
        /\ Cardinality(Holding) \in Nat /\ Cardinality(Holding') \in Nat
    BY <1>4, FS_Subset, FS_CardinalityType DEF IInv, TokensCover
  <2> QED  BY <2>1 DEF IInv, TypeOK, TokensCover
<1>7. StopInv'
  BY DEF IInv, StopInv
<1> QED  BY <1>1, <1>2, <1>3, <1>5, <1>6, <1>7 DEF IInv

LEMMA BeginInv == ASSUME IInv, NEW r \in Requests, Begin(r) PROVE IInv'
<1> USE DEF Begin
<1>1. TypeOK'
  BY DEF IInv, TypeOK
<1>2. QueueInv'
  BY DEF IInv, TypeOK, QueueInv
<1>3. RepliesInv'
  BY DEF IInv, TypeOK, RepliesInv
<1>4. r \notin Counted /\ Counted' = Counted \cup {r} /\ Holding' = Holding
  BY DEF IInv, TypeOK, Counted, Holding
<1>5. WgCounts'
  BY <1>4, FS_AddElement DEF IInv, WgCounts
<1>6. TokensCover'
  BY <1>4 DEF IInv, TokensCover
<1>7. StopInv'
  BY DEF IInv, StopInv
<1> QED  BY <1>1, <1>2, <1>3, <1>5, <1>6, <1>7 DEF IInv

\* The deferred function gives back what the handling has taken, after a return and
\* after a panic.
LEMMA DeferredInv ==
    ASSUME IInv, NEW r \in Requests, Return(r) \/ Recover(r)
    PROVE  IInv'
<1> USE DEF Return, Recover
<1>1. r \in Counted /\ Counted' = Counted \ {r}
  BY DEF IInv, TypeOK, Counted
<1>2. r \in Holding /\ Holding' = Holding \ {r}
  BY DEF IInv, TypeOK, Holding
<1>3. /\ IsFiniteSet(Counted') /\ Cardinality(Counted') = Cardinality(Counted) - 1
      /\ Cardinality(Counted') \in Nat
  BY <1>1, FS_RemoveElement, FS_CardinalityType DEF IInv, WgCounts
<1>4. /\ IsFiniteSet(Holding') /\ Cardinality(Holding') = Cardinality(Holding) - 1
      /\ Cardinality(Holding') \in Nat /\ Cardinality(Holding) \in Nat
  BY <1>2, FS_RemoveElement, FS_CardinalityType DEF IInv, TokensCover
<1>5. wg' = Cardinality(Counted') /\ wg' \in Nat
  BY <1>3 DEF IInv, WgCounts
<1>6. tokens \in Nat /\ tokens' = tokens - 1 /\ Cardinality(Holding) <= tokens
  BY DEF IInv, TypeOK, TokensCover
<1>7. tokens' \in Nat /\ Cardinality(Holding') <= tokens'
  BY <1>4, <1>6
<1>8. TypeOK'
  BY <1>5, <1>7 DEF IInv, TypeOK
<1>9. QueueInv'
  BY DEF IInv, TypeOK, QueueInv
<1>10. RepliesInv'
  BY DEF IInv, TypeOK, RepliesInv
<1>11. WgCounts'
  BY <1>3, <1>5 DEF WgCounts
<1>12. TokensCover'
  BY <1>4, <1>6, <1>7 DEF IInv, TypeOK, TokensCover
<1>13. StopInv'
  BY DEF IInv, StopInv
<1> QED  BY <1>8, <1>9, <1>10, <1>11, <1>12, <1>13 DEF IInv

LEMMA StepInv == IInv /\ [Next]_vars => IInv'
<1> SUFFICES ASSUME IInv, [Next]_vars PROVE IInv'
  OBVIOUS
<1>1. CASE LoopStep
  BY <1>1, LoopInv, CallInv DEF LoopStep
<1>2. CASE Unsubscribe \/ SubscriptionLost \/ DoneCall \/ CloserStep
           \/ \E r \in Requests : Send(r)
  BY <1>2, OutsideInv
<1>3. ASSUME NEW r \in Requests, HandlerStep(r) PROVE IInv'
  BY <1>3, ArityInv, BeginInv, WithinInv, DeferredInv DEF HandlerStep
<1>4. CASE UNCHANGED vars
  <2>1. TypeOK' /\ QueueInv' /\ RepliesInv' /\ StopInv'
    BY <1>4 DEF IInv, TypeOK, QueueInv, RepliesInv, StopInv
  <2> QED  BY <1>4, <2>1, CountsKept DEF IInv
<1> QED  BY <1>1, <1>2, <1>3, <1>4 DEF Next

-----------------------------------------------------------------------------
\* The inductive invariant holds in every state of the server.
THEOREM Invariance == Spec => []IInv
<1> QED  BY InitInv, StepInv, PTL DEF Spec

\* The variables keep their types; in particular neither wg nor the tokens of the
\* GoroutineControl ever become negative (WaitGroup.Add would panic).
THEOREM TypeCorrect == Spec => []TypeOK
<1>1. IInv => TypeOK
  BY DEF IInv
<1> QED  BY <1>1, Invariance, PTL

\* Whatever becomes of a request the server took, its caller is answered when the
\* handling has ended, and no caller twice unless a hook panics after the reply.
THEOREM CallersAnswered == Spec => []AnsweredOnce
<1>1. IInv => AnsweredOnce
  BY DEF IInv, TypeOK, RepliesInv, AnsweredOnce
<1> QED  BY <1>1, Invariance, PTL

\* When s.wg.Wait() of Done passes, no handler is running or about to return.
THEOREM WaitIsForHandlers ==
    Spec => [][closer = "waiting" /\ closer' = "drained" => Counted = {}]_vars
<1>1. IInv /\ [Next]_vars
        => [closer = "waiting" /\ closer' = "drained" => Counted = {}]_vars
  <2> SUFFICES ASSUME IInv, [Next]_vars, closer = "waiting", closer' = "drained"
               PROVE  Counted = {}
    OBVIOUS
  <2>1. wg = 0
    BY DEF Next, LoopStep, LoopCheck, LoopReceive, LoopGarbage, LoopFail, LoopResubscribe,
           LoopSubscribeFail, LoopExit, CallMissing, CallHandler, CallReturn, Unsubscribe,
           HandlerStep, ArityError, Begin, Answer, Panic, Return, Recover, RecoverReply, Send,
           DoneCall, CloserStep, DoneDrained, ShutdownDone, ShutdownClose, ShutdownReturn,
           SubscriptionLost
  <2> QED  BY <2>1, FS_EmptySet DEF IInv, WgCounts
<1> QED  BY <1>1, Invariance, PTL DEF Spec

\* With a GoroutineControl no more handlings are in progress than it has tokens.
THEOREM HandlersLimited == Spec => [](limit # 0 => Cardinality(Holding) <= limit)
<1>1. IInv => (limit # 0 => Cardinality(Holding) <= limit)
  <2> SUFFICES ASSUME IInv, limit # 0 PROVE Cardinality(Holding) <= limit
    OBVIOUS
  <2>1. Cardinality(Holding) \in Nat
    BY FS_CardinalityType DEF IInv, TokensCover
  <2> QED  BY <2>1 DEF IInv, TypeOK, TokensCover
<1> QED  BY <1>1, Invariance, PTL

\* Once Shutdown has returned, the loop takes no further request.
THEOREM StoppedTakesNothing == Spec => NothingTakenAfterDone
<1>1. IInv /\ [Next]_vars
        => [closer = "returned" =>
               \A r \in Requests : work[r] = "none" => work'[r] = "none"]_vars
  <2> SUFFICES ASSUME IInv, Next, closer = "returned",
                      NEW r \in Requests, work[r] = "none"
               PROVE  work'[r] = "none"
    OBVIOUS
  <2>1. loop = "stopped"
    BY DEF IInv, StopInv
  <2>2. work' = work \/ \E q \in Requests : work[q] # "none" /\ \E l : work' = [work EXCEPT ![q] = l]
    BY <2>1 DEF Next, LoopStep, LoopCheck, LoopReceive, LoopGarbage, LoopFail, LoopResubscribe,
           LoopSubscribeFail, LoopExit, CallMissing, CallHandler, CallReturn, Unsubscribe,
           HandlerStep, ArityError, Begin, Answer, Panic, Return, Recover, RecoverReply, Send,
           DoneCall, CloserStep, DoneDrained, ShutdownDone, ShutdownClose, ShutdownReturn,
           SubscriptionLost
  <2> QED  BY <2>2 DEF IInv, TypeOK
<1> QED  BY <1>1, Invariance, PTL DEF Spec, NothingTakenAfterDone
=============================================================================
