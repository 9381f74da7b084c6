----------------------------- MODULE RpcServer -----------------------------
(***************************************************************************)
(* The serving side of an RPC: rpc/base/nats_server.go (the request loop   *)
(* and its subscription) and rpc/base/rpc_server.go (running a handler and *)
(* answering).                                                             *)
(*                                                                         *)
(* One goroutine reads requests; a handler registered with Register runs   *)
(* on it, one registered with RegisterGO on a goroutine of its own.        *)
(* Another goroutine waits for done and unsubscribes.  None of them holds  *)
(* a lock: done, isClose, subs and the WaitGroup are touched by whoever    *)
(* comes first, so every access is an action of its own.                   *)
(***************************************************************************)
EXTENDS Naturals, FiniteSets

CONSTANTS Requests,    \* requests other applications send to this server
          Kinds,       \* kinds of request that occur, see HandlerKinds
          LatePanics,  \* requests whose hooks panic after the reply was sent
          Limits,      \* tokens a GoroutineControl may have; 0: no control is set
          MaxSubs,     \* bound: how often the subscription is re-created
          None         \* no request / no subscription

\* "go", "sync": a handler registered with RegisterGO, with Register; "missing":
\* there is none; "...Arity": it is called with the wrong number of parameters.
HandlerKinds == {"go", "sync", "missing", "goArity", "syncArity"}

ASSUME ConstAssumption == /\ Kinds \subseteq HandlerKinds
                          /\ LatePanics \subseteq Requests
                          /\ Limits \subseteq Nat
                          /\ MaxSubs \in Nat
                          /\ None \notin Requests
                          /\ None \notin 0..MaxSubs

VARIABLES
    kind,      \* kind[r]: what handler request r asks for
    sent,      \* requests published to this server's address
    pending,   \* requests queued in the current subscription
    subs,      \* NatsServer.subs, None after a failed SubscribeSync
    created,   \* number of subscriptions re-created so far
    active,    \* subscriptions NATS still serves
    done,      \* the channel done is closed
    isClose,   \* NatsServer.isClose
    unsub,     \* has the goroutine waiting for done unsubscribed?
    loop,      \* where the request loop is
    cur,       \* the request the loop is handling, or None
    work,      \* work[r]: where the handling of r is
    wg,        \* RPCServer.wg; executing is changed along with it
    limit,     \* tokens of the GoroutineControl set before the server runs
    tokens,    \* tokens taken from the GoroutineControl
    replies,   \* replies[r]: how often doCallback ran for r
    closer     \* where RPCServer.Done is

setup == <<kind, limit>>   \* never changes
nats == <<subs, created, active>>
closing == <<done, isClose, closer>>
vars == <<setup, sent, pending, nats, closing, unsub, loop, cur, work, wg, tokens,
          replies>>

Goroutine(r) == kind[r] \in {"go", "goArity"}
BadArity(r) == kind[r] \in {"goArity", "syncArity"}

TypeOK == /\ kind \in [Requests -> HandlerKinds]
          /\ limit \in Limits
          /\ sent \subseteq Requests
          /\ pending \subseteq sent
          /\ subs \in 0..MaxSubs \cup {None}
          /\ created \in 0..MaxSubs
          /\ active \subseteq 0..MaxSubs
          /\ done \in BOOLEAN /\ isClose \in BOOLEAN /\ unsub \in BOOLEAN
          /\ loop \in {"check", "next", "call", "sync", "exit", "stopped"}
          /\ cur \in Requests \cup {None}
          /\ work \in [Requests -> {"none", "spawned", "running", "replied",
                                    "panicking", "recovering", "finished"}]
          /\ wg \in Nat
          /\ tokens \in Nat
          /\ replies \in [Requests -> 0..2]
          /\ closer \in {"idle", "waiting", "drained", "done", "closed", "returned"}

\* NewNatsServer returned: subscribed, the loop and the goroutine started.
Init == /\ kind \in [Requests -> Kinds]
        /\ limit \in Limits
        /\ sent = {}
        /\ pending = {}
        /\ subs = 0
        /\ created = 0
        /\ active = {0}
        /\ done = FALSE
        /\ isClose = FALSE
        /\ unsub = FALSE
        /\ loop = "check"
        /\ cur = None
        /\ work = [r \in Requests |-> "none"]
        /\ wg = 0
        /\ tokens = 0
        /\ replies = [r \in Requests |-> 0]
        /\ closer = "idle"

-----------------------------------------------------------------------------
(* The request loop: NatsServer.on_request_handle *)

\* for !s.isClose
LoopCheck ==
    /\ loop = "check"
    /\ loop' = IF isClose THEN "exit" ELSE "next"
    /\ UNCHANGED <<setup, sent, pending, nats, closing, unsub, cur, work, wg, tokens,
                   replies>>

\* NextMsg returns a request; Unmarshal accepts it: on to RPCServer.Call
LoopReceive(r) ==
    /\ loop = "next"
    /\ r \in pending
    /\ pending' = pending \ {r}
    /\ cur' = r
    /\ loop' = "call"
    /\ UNCHANGED <<setup, sent, nats, closing, unsub, work, wg, tokens, replies>>

\* NextMsg returns a message Unmarshal rejects: printed and dropped
LoopGarbage(r) ==
    /\ loop = "next"
    /\ r \in pending
    /\ pending' = pending \ {r}
    /\ loop' = "check"
    /\ UNCHANGED <<setup, sent, nats, closing, unsub, cur, work, wg, tokens, replies>>

\* NextMsg fails and the subscription is valid: round again
LoopFail ==
    /\ loop = "next"
    /\ subs \in active
    /\ loop' = "check"
    /\ UNCHANGED <<setup, sent, pending, nats, closing, unsub, cur, work, wg, tokens,
                   replies>>

\* NextMsg fails, the subscription is invalid: SubscribeSync, whoever closed it
LoopResubscribe ==
    /\ loop = "next"
    /\ subs \notin active
    /\ created < MaxSubs
    /\ created' = created + 1
    /\ subs' = created + 1
    /\ active' = active \cup {created + 1}
    /\ pending' = {}
    /\ loop' = "check"
    /\ UNCHANGED <<setup, sent, closing, unsub, cur, work, wg, tokens, replies>>

\* ... and SubscribeSync fails: s.subs is overwritten with nil
LoopSubscribeFail ==
    /\ loop = "next"
    /\ subs \notin active
    /\ subs' = None
    /\ pending' = {}
    /\ loop' = "check"
    /\ UNCHANGED <<setup, sent, created, active, closing, unsub, cur, work, wg, tokens,
                   replies>>

\* on_request_handle returned: safeClose(server.stopeds)
LoopExit ==
    /\ loop = "exit"
    /\ loop' = "stopped"
    /\ UNCHANGED <<setup, sent, pending, nats, closing, unsub, cur, work, wg, tokens,
                   replies>>

\* The goroutine that waits for done: s.subs.Unsubscribe()
Unsubscribe ==
    /\ done
    /\ ~unsub
    /\ unsub' = TRUE
    /\ active' = active \ {subs}
    /\ UNCHANGED <<setup, sent, pending, subs, created, closing, loop, cur, work, wg,
                   tokens, replies>>

-----------------------------------------------------------------------------
(* Handling a request: RPCServer.runFunc and _runFunc *)

\* control.Wait(): blocks while all tokens are taken
TokenFree == limit = 0 \/ tokens < limit

\* runFunc with no handler: NoFoundFunction fails (or the nil handler panics and
\* is recovered): an error reply and return, without control.Finish()
CallMissing ==
    /\ loop = "call"
    /\ TokenFree
    /\ kind[cur] = "missing"
    /\ tokens' = tokens + 1
    /\ replies' = [replies EXCEPT ![cur] = @ + 1]
    /\ work' = [work EXCEPT ![cur] = "finished"]
    /\ cur' = None
    /\ loop' = "check"
    /\ UNCHANGED <<setup, sent, pending, nats, closing, unsub, wg>>

\* runFunc with a handler: _runFunc on a goroutine of its own or on the loop
CallHandler ==
    /\ loop = "call"
    /\ TokenFree
    /\ kind[cur] # "missing"
    /\ tokens' = tokens + 1
    /\ work' = [work EXCEPT ![cur] = "spawned"]
    /\ loop' = IF Goroutine(cur) THEN "check" ELSE "sync"
    /\ cur' = IF Goroutine(cur) THEN None ELSE cur
    /\ UNCHANGED <<setup, sent, pending, nats, closing, unsub, wg, replies>>

\* The synchronous _runFunc returned to the loop
CallReturn ==
    /\ loop = "sync"
    /\ work[cur] = "finished"
    /\ loop' = "check"
    /\ cur' = None
    /\ UNCHANGED <<setup, sent, pending, nats, closing, unsub, work, wg, tokens, replies>>

\* _runFunc with the wrong number of parameters: an error reply and return,
\* before wg.Add(1) and the defer that calls control.Finish()
ArityError(r) ==
    /\ work[r] = "spawned"
    /\ BadArity(r)
    /\ replies' = [replies EXCEPT ![r] = @ + 1]
    /\ work' = [work EXCEPT ![r] = "finished"]
    /\ UNCHANGED <<setup, sent, pending, nats, closing, unsub, loop, cur, wg, tokens>>

\* wg.Add(1), executing++
Begin(r) ==
    /\ work[r] = "spawned"
    /\ ~BadArity(r)
    /\ wg' = wg + 1
    /\ work' = [work EXCEPT ![r] = "running"]
    /\ UNCHANGED <<setup, sent, pending, nats, closing, unsub, loop, cur, tokens, replies>>

\* The arguments are decoded, BeforeHandle and the handler run, and doCallback
\* sends the result, or the error of whichever of them failed
Answer(r) ==
    /\ work[r] = "running"
    /\ replies' = [replies EXCEPT ![r] = @ + 1]
    /\ work' = [work EXCEPT ![r] = "replied"]
    /\ UNCHANGED <<setup, sent, pending, nats, closing, unsub, loop, cur, wg, tokens>>

\* The handler (or the decoding of its arguments) panics before any reply, or a
\* hook (ServerRPCHandler, OnComplete, OnError) after it
Panic(r) ==
    /\ \/ work[r] = "running"
       \/ work[r] = "replied" /\ r \in LatePanics
    /\ work' = [work EXCEPT ![r] = "panicking"]
    /\ UNCHANGED <<setup, sent, pending, nats, closing, unsub, loop, cur, wg, tokens,
                   replies>>

\* The deferred function after a normal return: wg.Add(-1), control.Finish()
Return(r) ==
    /\ work[r] = "replied"
    /\ wg' = wg - 1
    /\ tokens' = tokens - 1
    /\ work' = [work EXCEPT ![r] = "finished"]
    /\ UNCHANGED <<setup, sent, pending, nats, closing, unsub, loop, cur, replies>>

\* Mutant of Recover: a panic skips wg.Add(-1).
Recover_NoWgDone(r) ==
    /\ work[r] = "panicking"
    /\ tokens' = tokens - 1
    /\ work' = [work EXCEPT ![r] = "recovering"]
    /\ UNCHANGED <<setup, sent, pending, nats, closing, unsub, loop, cur, wg, replies>>

\* Mutant of Recover: the panic is swallowed, nobody is answered.
Recover_Silent(r) ==
    /\ work[r] = "panicking"
    /\ wg' = wg - 1
    /\ tokens' = tokens - 1
    /\ work' = [work EXCEPT ![r] = "finished"]
    /\ UNCHANGED <<setup, sent, pending, nats, closing, unsub, loop, cur, replies>>

\* The deferred function after a panic: the same first, then recover()
Recover(r) ==
    /\ work[r] = "panicking"
    /\ wg' = wg - 1
    /\ tokens' = tokens - 1
    /\ work' = [work EXCEPT ![r] = "recovering"]
    /\ UNCHANGED <<setup, sent, pending, nats, closing, unsub, loop, cur, replies>>

\* ... and _errorCallback tells the caller about the panic
RecoverReply(r) ==
    /\ work[r] = "recovering"
    /\ replies' = [replies EXCEPT ![r] = @ + 1]
    /\ work' = [work EXCEPT ![r] = "finished"]
    /\ UNCHANGED <<setup, sent, pending, nats, closing, unsub, loop, cur, wg, tokens>>

-----------------------------------------------------------------------------
(* RPCServer.Done and NatsServer.Shutdown *)

DoneCall ==
    /\ closer = "idle"
    /\ closer' = "waiting"
    /\ UNCHANGED <<setup, sent, pending, nats, done, isClose, unsub, loop, cur, work, wg,
                   tokens, replies>>

\* s.wg.Wait()
DoneDrained ==
    /\ closer = "waiting"
    /\ wg = 0
    /\ closer' = "drained"
    /\ UNCHANGED <<setup, sent, pending, nats, done, isClose, unsub, loop, cur, work, wg,
                   tokens, replies>>

\* Shutdown: safeClose(s.done) ...
ShutdownDone ==
    /\ closer = "drained"
    /\ done' = TRUE
    /\ closer' = "done"
    /\ UNCHANGED <<setup, sent, pending, nats, isClose, unsub, loop, cur, work, wg, tokens,
                   replies>>

\* ... s.isClose = true ...
ShutdownClose ==
    /\ closer = "done"
    /\ isClose' = TRUE
    /\ closer' = "closed"
    /\ UNCHANGED <<setup, sent, pending, nats, done, unsub, loop, cur, work, wg, tokens,
                   replies>>

\* Mutant of ShutdownReturn: does not wait for stopeds.
ShutdownReturn_NoWait ==
    /\ closer = "closed"
    /\ closer' = "returned"
    /\ UNCHANGED <<setup, sent, pending, nats, done, isClose, unsub, loop, cur, work, wg,
                   tokens, replies>>

\* ... <-s.stopeds
ShutdownReturn ==
    /\ closer = "closed"
    /\ loop = "stopped"
    /\ closer' = "returned"
    /\ UNCHANGED <<setup, sent, pending, nats, done, isClose, unsub, loop, cur, work, wg,
                   tokens, replies>>

-----------------------------------------------------------------------------
(* NATS and the callers (external) *)

Send(r) ==
    /\ r \notin sent
    /\ sent' = sent \cup {r}
    /\ pending' = IF subs \in active THEN pending \cup {r} ELSE pending
    /\ UNCHANGED <<setup, nats, closing, unsub, loop, cur, work, wg, tokens, replies>>

\* The subscription becomes invalid under the server.
SubscriptionLost ==
    /\ subs \in active
    /\ active' = active \ {subs}
    /\ UNCHANGED <<setup, sent, pending, subs, created, closing, unsub, loop, cur, work,
                   wg, tokens, replies>>

-----------------------------------------------------------------------------
LoopStep == \/ LoopCheck
            \/ \E r \in Requests : LoopReceive(r) \/ LoopGarbage(r)
            \/ LoopFail \/ LoopResubscribe \/ LoopSubscribeFail \/ LoopExit
            \/ CallMissing \/ CallHandler \/ CallReturn

HandlerStep(r) == \/ ArityError(r) \/ Begin(r) \/ Answer(r) \/ Panic(r)
                  \/ Return(r) \/ Recover(r) \/ RecoverReply(r)

CloserStep == DoneDrained \/ ShutdownDone \/ ShutdownClose \/ ShutdownReturn

Next == \/ LoopStep
        \/ Unsubscribe
        \/ \E r \in Requests : HandlerStep(r) \/ Send(r)
        \/ DoneCall \/ CloserStep
        \/ SubscriptionLost

Spec == Init /\ [][Next]_vars

\* Goroutines run, NextMsg returns within a minute, and handlers return: the
\* framework gives no handler a time limit, so all its promises rest on that.
Fairness == /\ WF_vars(LoopStep)
            /\ WF_vars(Unsubscribe)
            /\ WF_vars(CloserStep)
            /\ \A r \in Requests : WF_vars(HandlerStep(r))

FairSpec == Spec /\ Fairness

-----------------------------------------------------------------------------
(* Properties *)

\* Whatever happens to a request the server took (no handler, wrong parameters,
\* an error, a panic), its caller is answered, and exactly once unless a hook
\* panics after the reply.
AnsweredOnce ==
    \A r \in Requests :
        /\ work[r] = "finished" => replies[r] >= 1
        /\ r \notin LatePanics => replies[r] <= 1

\* Once Shutdown has returned, the loop takes no further request.
NothingTakenAfterDone ==
    [][closer = "returned" =>
        \A r \in Requests : work[r] = "none" => work'[r] = "none"]_vars

\* Without a control, a request the loop has taken is handled to the end and Done
\* returns: every path of a handler gives its wg count back and the loop sees isClose.
DoneReturns ==
    /\ \A r \in Requests :
          (limit = 0 /\ (work[r] # "none" \/ cur = r)) ~> (work[r] = "finished")
    /\ (limit = 0 /\ closer = "waiting") ~> (closer = "returned")

\* "The number of goroutines has reached the limit" (rpc_server.go:411), said of
\* the wait for a token: the loop waits only while handlers use the tokens.
WaitsOnlyAtLimit ==
    loop = "call" /\ ~TokenFree =>
        \E r \in Requests : work[r] \notin {"none", "finished"}
=============================================================================
