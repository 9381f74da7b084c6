----------------------------- MODULE NatsClient -----------------------------
(***************************************************************************)
(* The calling side of an RPC: rpc/base/nats_client.go (NatsClient, one    *)
(* per remote instance) and the callers of rpc/base/rpc_client.go that     *)
(* wait on it.                                                             *)
(*                                                                         *)
(* Any number of goroutines call, time out and close concurrently with ONE *)
(* receive loop (on_request_handle), which takes replies from the NATS     *)
(* reply subscription, hands them to the waiting caller and re-subscribes  *)
(* when the subscription is lost.  A critical section under cmutex is one  *)
(* action; whatever the code does outside the mutex is an action of its    *)
(* own.  A call is identified with its correlation id and with the channel *)
(* it waits on: CallArgs makes both afresh for every call.                 *)
(***************************************************************************)
EXTENDS Naturals

CONSTANTS Calls,       \* the calls made through this client (correlation ids)
          Closers,     \* the goroutines that call Done()
          ChanCap,     \* capacity of a callback channel (CallArgs makes 1)
          MaxSubs,     \* bound: how often the reply subscription is re-created
          MaxReplies,  \* bound: replies published for one request
          None         \* the receive loop holds no reply

ASSUME ConstAssumption == /\ ChanCap \in Nat
                          /\ MaxSubs \in Nat
                          /\ MaxReplies \in Nat
                          /\ None \notin Calls

VARIABLES
    callinfos,   \* calls registered in the callinfos map
    isClose,     \* isClose; the channel done is closed in the same section
    subs,        \* the current reply subscription (the n-th one created)
    active,      \* subscriptions of this client NATS still serves
    connClosed,  \* Transport().IsClosed()
    inbox,       \* inbox[c]: replies to c waiting in the subscription
    replies,     \* replies[c]: replies to c published by the remote side
    loop,        \* where the receive loop is
    held,        \* the call whose reply the receive loop holds, or None
    err,         \* the error NextMsg returned
    chan,        \* chan[c]: results buffered in the callback channel of c
    closes,      \* closes[c]: how often the channel of c has been closed
    caller,      \* where the goroutine that made call c is
    closer       \* where the goroutines that call Done() are

transport == <<active, connClosed, inbox, replies>>
vars == <<callinfos, isClose, subs, transport, loop, held, err, chan, closes,
          caller, closer>>

Finished == {"result", "closed", "deadline", "error", "sent"}
LoopStates == {"top", "next", "got", "error", "backoff", "deliver", "close",
               "finish", "release", "exit", "stopped"}
Errors == {"none", "timeout", "other"}

TypeOK == /\ callinfos \subseteq Calls
          /\ isClose \in BOOLEAN
          /\ subs \in 0..MaxSubs
          /\ active \subseteq 0..MaxSubs
          /\ connClosed \in BOOLEAN
          /\ inbox \in [Calls -> Nat]
          /\ replies \in [Calls -> 0..MaxReplies]
          /\ loop \in LoopStates
          /\ held \in Calls \cup {None}
          /\ err \in Errors
          /\ chan \in [Calls -> 0..ChanCap]
          /\ closes \in [Calls -> Nat]
          /\ caller \in [Calls -> {"idle", "waiting", "deleting"} \cup Finished]
          /\ closer \in [Closers -> {"idle", "waiting", "returned"}]

\* NewNatsClient returned without error: the first subscription is confirmed
\* by the server and the receive loop has been started.
Init == /\ callinfos = {}
        /\ isClose = FALSE
        /\ subs = 0
        /\ active = {0}
        /\ connClosed = FALSE
        /\ inbox = [c \in Calls |-> 0]
        /\ replies = [c \in Calls |-> 0]
        /\ loop = "top"
        /\ held = None
        /\ err = "none"
        /\ chan = [c \in Calls |-> 0]
        /\ closes = [c \in Calls |-> 0]
        /\ caller = [c \in Calls |-> "idle"]
        /\ closer = [d \in Closers |-> "idle"]

-----------------------------------------------------------------------------
(* Callers: CallArgs / Call / CallNR / Delete *)

\* Mutant of CallPublished: no test of isClose.
CallPublished_NoCloseTest(c) ==
    /\ caller[c] = "idle"
    /\ ~connClosed
    /\ callinfos' = callinfos \cup {c}
    /\ caller' = [caller EXCEPT ![c] = "waiting"]
    /\ UNCHANGED <<isClose, subs, transport, loop, held, err, chan, closes, closer>>

\* Call under cmutex: a closed client refuses; otherwise the callback is
\* registered first and then the request published.
CallPublished(c) ==
    /\ caller[c] = "idle"
    /\ ~isClose
    /\ ~connClosed
    /\ callinfos' = callinfos \cup {c}
    /\ caller' = [caller EXCEPT ![c] = "waiting"]
    /\ UNCHANGED <<isClose, subs, transport, loop, held, err, chan, closes, closer>>

\* Call that returns an error: the client is closed, the request cannot be
\* marshalled, or Publish fails and the callback is taken out again.
CallRefused(c) ==
    /\ caller[c] = "idle"
    /\ caller' = [caller EXCEPT ![c] = "error"]
    /\ callinfos' = callinfos \ {c}
    /\ UNCHANGED <<isClose, subs, transport, loop, held, err, chan, closes, closer>>

\* CallNR: published without registering anything (no reply is expected).
CallNR(c) ==
    /\ caller[c] = "idle"
    /\ ~isClose
    /\ ~connClosed
    /\ caller' = [caller EXCEPT ![c] = "sent"]
    /\ UNCHANGED <<callinfos, isClose, subs, transport, loop, held, err, chan,
                   closes, closer>>

\* select: resultInfo, ok := <-callback with ok
CallerResult(c) ==
    /\ caller[c] = "waiting"
    /\ chan[c] > 0
    /\ chan' = [chan EXCEPT ![c] = @ - 1]
    /\ caller' = [caller EXCEPT ![c] = "result"]
    /\ UNCHANGED <<callinfos, isClose, subs, transport, loop, held, err, closes, closer>>

\* select: the channel is closed and empty, CallArgs fails "client closed"
CallerClosed(c) ==
    /\ caller[c] = "waiting"
    /\ chan[c] = 0
    /\ closes[c] > 0
    /\ caller' = [caller EXCEPT ![c] = "closed"]
    /\ UNCHANGED <<callinfos, isClose, subs, transport, loop, held, err, chan,
                   closes, closer>>

\* select: <-ctx.Done(), at any moment, even when a result is ready too
CallerTimeout(c) ==
    /\ caller[c] = "waiting"
    /\ caller' = [caller EXCEPT ![c] = "deleting"]
    /\ UNCHANGED <<callinfos, isClose, subs, transport, loop, held, err, chan,
                   closes, closer>>

\* Delete(rpcInfo.Cid) under cmutex, then "deadline exceeded"
CallerDelete(c) ==
    /\ caller[c] = "deleting"
    /\ callinfos' = callinfos \ {c}
    /\ caller' = [caller EXCEPT ![c] = "deadline"]
    /\ UNCHANGED <<isClose, subs, transport, loop, held, err, chan, closes, closer>>

-----------------------------------------------------------------------------
(* Done: stop under cmutex, then wait for the receive loop *)

\* stop(): nothing when already closed, else isClose, close(done), Unsubscribe
Stop == /\ isClose' = TRUE
        /\ active' = IF isClose THEN active ELSE active \ {subs}

DoneStop(d) ==
    /\ closer[d] = "idle"
    /\ Stop
    /\ closer' = [closer EXCEPT ![d] = "waiting"]
    /\ UNCHANGED <<callinfos, subs, connClosed, inbox, replies, loop, held, err,
                   chan, closes, caller>>

DoneReturn(d) ==
    /\ closer[d] = "waiting"
    /\ loop = "stopped"
    /\ closer' = [closer EXCEPT ![d] = "returned"]
    /\ UNCHANGED <<callinfos, isClose, subs, transport, loop, held, err, chan,
                   closes, caller>>

-----------------------------------------------------------------------------
(* The receive loop: on_request_handle and finish *)

\* The test of done at the head of the loop, and sub := c.subs
LoopTop ==
    /\ loop = "top"
    /\ loop' = IF isClose THEN "finish" ELSE "next"
    /\ UNCHANGED <<callinfos, isClose, subs, transport, held, err, chan, closes,
                   caller, closer>>

\* NextMsg returns a reply that can be decoded.  Messages buffered before the
\* subscription was closed may still be returned.
LoopReceive(c) ==
    /\ loop = "next"
    /\ inbox[c] > 0
    /\ inbox' = [inbox EXCEPT ![c] = @ - 1]
    /\ held' = c
    /\ loop' = "got"
    /\ UNCHANGED <<callinfos, isClose, subs, active, connClosed, replies, err,
                   chan, closes, caller, closer>>

\* NextMsg returns a message UnmarshalResult rejects: logged and skipped.
LoopGarbage(c) ==
    /\ loop = "next"
    /\ inbox[c] > 0
    /\ inbox' = [inbox EXCEPT ![c] = @ - 1]
    /\ loop' = "top"
    /\ UNCHANGED <<callinfos, isClose, subs, active, connClosed, replies, held,
                   err, chan, closes, caller, closer>>

\* NextMsg fails: a minute without a message, or any other error (the
\* subscription or the connection is gone, a slow consumer, ...).
LoopFail(e) ==
    /\ loop = "next"
    /\ e = "timeout" => subs \in active
    /\ err' = e
    /\ loop' = "error"
    /\ UNCHANGED <<callinfos, isClose, subs, transport, held, chan, closes,
                   caller, closer>>

\* The error branch under cmutex, client or connection closed: return.
ErrorReturn ==
    /\ loop = "error"
    /\ isClose \/ connClosed
    /\ loop' = "finish"
    /\ UNCHANGED <<callinfos, isClose, subs, transport, held, err, chan, closes,
                   caller, closer>>

\* The error branch, subscription still valid: only a timeout goes straight on.
ErrorValid ==
    /\ loop = "error"
    /\ ~isClose /\ ~connClosed
    /\ subs \in active
    /\ loop' = IF err = "timeout" THEN "top" ELSE "backoff"
    /\ UNCHANGED <<callinfos, isClose, subs, transport, held, err, chan, closes,
                   caller, closer>>

\* The error branch, subscription lost: subscribeNatsReady succeeds.  Replies
\* still queued in the old subscription are dropped with it.
ErrorResubscribe ==
    /\ loop = "error"
    /\ ~isClose /\ ~connClosed
    /\ subs \notin active
    /\ subs < MaxSubs
    /\ subs' = subs + 1
    /\ active' = active \cup {subs + 1}
    /\ inbox' = [c \in Calls |-> 0]
    /\ loop' = "top"
    /\ UNCHANGED <<callinfos, isClose, connClosed, replies, held, err, chan,
                   closes, caller, closer>>

\* The error branch, subscription lost: subscribeNatsReady fails.
ErrorSubscribeFail ==
    /\ loop = "error"
    /\ ~isClose /\ ~connClosed
    /\ subs \notin active
    /\ err' = "other"
    /\ loop' = "backoff"
    /\ UNCHANGED <<callinfos, isClose, subs, transport, held, chan, closes,
                   caller, closer>>

\* 100ms back-off; closing interrupts it.
BackoffClosed ==
    /\ loop = "backoff"
    /\ isClose
    /\ loop' = "finish"
    /\ UNCHANGED <<callinfos, isClose, subs, transport, held, err, chan, closes,
                   caller, closer>>

BackoffTimer ==
    /\ loop = "backoff"
    /\ loop' = "top"
    /\ UNCHANGED <<callinfos, isClose, subs, transport, held, err, chan, closes,
                   caller, closer>>

\* Mutant of TakeCallback: the callback is read but stays registered.
TakeCallback_NoDelete ==
    /\ loop = "got"
    /\ IF held \in callinfos
       THEN loop' = "deliver" /\ UNCHANGED held
       ELSE loop' = "top" /\ held' = None
    /\ UNCHANGED <<callinfos, isClose, subs, transport, err, chan, closes, caller,
                   closer>>

\* Take the callback out of callinfos under cmutex; a reply nobody waits for
\* any more is dropped.
TakeCallback ==
    /\ loop = "got"
    /\ callinfos' = callinfos \ {held}
    /\ IF held \in callinfos
       THEN loop' = "deliver" /\ UNCHANGED held
       ELSE loop' = "top" /\ held' = None
    /\ UNCHANGED <<isClose, subs, transport, err, chan, closes, caller, closer>>

\* Mutant of DeliverBuffer: CallArgs makes the channel without its buffer.
DeliverBuffer_NoBuffer ==
    /\ loop = "deliver"
    /\ chan[held] + 1 < ChanCap
    /\ chan' = [chan EXCEPT ![held] = @ + 1]
    /\ loop' = "close"
    /\ UNCHANGED <<callinfos, isClose, subs, transport, held, err, closes,
                   caller, closer>>

\* callback <- resultInfo into the buffer
DeliverBuffer ==
    /\ loop = "deliver"
    /\ chan[held] < ChanCap
    /\ chan' = [chan EXCEPT ![held] = @ + 1]
    /\ loop' = "close"
    /\ UNCHANGED <<callinfos, isClose, subs, transport, held, err, closes,
                   caller, closer>>

\* callback <- resultInfo handed straight to a caller blocked in its select
DeliverDirect ==
    /\ loop = "deliver"
    /\ caller[held] = "waiting"
    /\ chan[held] = 0
    /\ caller' = [caller EXCEPT ![held] = "result"]
    /\ loop' = "close"
    /\ UNCHANGED <<callinfos, isClose, subs, transport, held, err, chan, closes,
                   closer>>

\* Mutant of DeliverDone: the select has a default branch instead of <-c.done.
DeliverDone_Default ==
    /\ loop = "deliver"
    /\ loop' = "close"
    /\ UNCHANGED <<callinfos, isClose, subs, transport, held, err, chan, closes,
                   caller, closer>>

\* <-c.done instead of the delivery: the result is discarded
DeliverDone ==
    /\ loop = "deliver"
    /\ isClose
    /\ loop' = "close"
    /\ UNCHANGED <<callinfos, isClose, subs, transport, held, err, chan, closes,
                   caller, closer>>

\* CloseFch(callback)
CloseFch ==
    /\ loop = "close"
    /\ closes' = [closes EXCEPT ![held] = @ + 1]
    /\ held' = None
    /\ loop' = "top"
    /\ UNCHANGED <<callinfos, isClose, subs, transport, err, chan, caller, closer>>

\* finish: stop() ...
FinishStop ==
    /\ loop = "finish"
    /\ Stop
    /\ loop' = "release"
    /\ UNCHANGED <<callinfos, subs, connClosed, inbox, replies, held, err, chan,
                   closes, caller, closer>>

\* Mutant of FinishRelease: the calls are deleted, their channels not closed.
FinishRelease_NoClose ==
    /\ loop = "release"
    /\ callinfos' = {}
    /\ loop' = "exit"
    /\ UNCHANGED <<isClose, subs, transport, held, err, chan, closes, caller, closer>>

\* Mutant of FinishRelease: only stop() and close(stopped).
FinishRelease_Missing ==
    /\ loop = "release"
    /\ loop' = "exit"
    /\ UNCHANGED <<callinfos, isClose, subs, transport, held, err, chan, closes,
                   caller, closer>>

\* ... then, under cmutex, close the channel of every call still registered ...
FinishRelease ==
    /\ loop = "release"
    /\ closes' = [c \in Calls |-> IF c \in callinfos THEN closes[c] + 1 ELSE closes[c]]
    /\ callinfos' = {}
    /\ loop' = "exit"
    /\ UNCHANGED <<isClose, subs, transport, held, err, chan, caller, closer>>

\* ... and close(stopped).
FinishStopped ==
    /\ loop = "exit"
    /\ loop' = "stopped"
    /\ UNCHANGED <<callinfos, isClose, subs, transport, held, err, chan, closes,
                   caller, closer>>

-----------------------------------------------------------------------------
(* NATS and the remote side (external) *)

\* The remote side publishes a reply (once or, when a listener panics after
\* the first reply, again); NATS drops it unless a subscription is served.
Reply(c) ==
    /\ caller[c] \notin {"idle", "error", "sent"}
    /\ replies[c] < MaxReplies
    /\ replies' = [replies EXCEPT ![c] = @ + 1]
    /\ inbox' = IF subs \in active THEN [inbox EXCEPT ![c] = @ + 1] ELSE inbox
    /\ UNCHANGED <<callinfos, isClose, subs, active, connClosed, loop, held, err,
                   chan, closes, caller, closer>>

\* The subscription becomes invalid under the client.
SubscriptionLost ==
    /\ subs \in active
    /\ active' = active \ {subs}
    /\ UNCHANGED <<callinfos, isClose, subs, connClosed, inbox, replies, loop,
                   held, err, chan, closes, caller, closer>>

\* The connection is closed for good: all its subscriptions are.
ConnClose ==
    /\ ~connClosed
    /\ connClosed' = TRUE
    /\ active' = {}
    /\ UNCHANGED <<callinfos, isClose, subs, inbox, replies, loop, held, err,
                   chan, closes, caller, closer>>

-----------------------------------------------------------------------------
CallerStep(c) == \/ CallerResult(c) \/ CallerClosed(c) \/ CallerDelete(c)

LoopStep == \/ LoopTop
            \/ \E c \in Calls : LoopReceive(c) \/ LoopGarbage(c)
            \/ \E e \in {"timeout", "other"} : LoopFail(e)
            \/ ErrorReturn \/ ErrorValid \/ ErrorResubscribe \/ ErrorSubscribeFail
            \/ BackoffClosed \/ BackoffTimer
            \/ TakeCallback
            \/ DeliverBuffer \/ DeliverDirect \/ DeliverDone \/ CloseFch
            \/ FinishStop \/ FinishRelease \/ FinishStopped

Environment == \/ \E c \in Calls : Reply(c)
               \/ SubscriptionLost
               \/ ConnClose

Next == \/ \E c \in Calls : \/ CallPublished(c) \/ CallRefused(c) \/ CallNR(c)
                            \/ CallerStep(c) \/ CallerTimeout(c)
        \/ \E d \in Closers : DoneStop(d) \/ DoneReturn(d)
        \/ LoopStep
        \/ Environment

Spec == Init /\ [][Next]_vars

\* Goroutines that can run do run: the receive loop (NextMsg returns within a
\* minute), a caller whose channel is ready, a closer once stopped is closed.
\* Nothing obliges a caller to time out, Done to be called, or NATS to fail.
Fairness == /\ WF_vars(LoopStep)
            /\ \A c \in Calls : WF_vars(CallerStep(c))
            /\ \A d \in Closers : WF_vars(DoneReturn(d))

FairSpec == Spec /\ Fairness

-----------------------------------------------------------------------------
(* Properties *)

\* CloseFch "closes only once because of callback ownership" (nats_client.go:71):
\* no callback channel is ever closed twice, so the recover() in CloseFch is
\* never needed, whichever of reply, duplicate reply, timeout and finish meet.
CallbackClosedOnce == \A c \in Calls : closes[c] <= 1

\* The receive loop owns the callback it took ("exclusive", nats_client.go:240):
\* while it delivers, no finish or second reply can reach that channel, and it
\* is not closed yet, so the send cannot panic.
DeliveryOwnsCallback ==
    loop \in {"deliver", "close"} => /\ held \notin callinfos
                                     /\ closes[held] = 0

\* No waiting caller is forgotten: its callback is registered, in the hands of
\* the receive loop, or already closed.  Otherwise only its deadline frees it.
WaiterAccounted ==
    \A c \in Calls : caller[c] = "waiting" =>
        \/ c \in callinfos
        \/ loop \in {"deliver", "close"} /\ held = c
        \/ closes[c] = 1

\* When the receive loop has stopped (Done returns), nothing is left behind: no
\* registered call, no subscription NATS still serves, no waiter whose channel
\* is open (the client lifecycle tests assert exactly these).
ReleasedOnStop ==
    loop = "stopped" => /\ callinfos = {}
                        /\ active = {}
                        /\ \A c \in Calls : caller[c] = "waiting" => closes[c] = 1

\* At most the current subscription is served, and none once the client is
\* closed: stop() and the re-subscription exclude each other under cmutex
\* ("forbid the loop to rebuild the subscription on exit", nats_client.go:77).
OneSubscription == active \subseteq (IF isClose THEN {} ELSE {subs})

\* "After Done returns there is no callback write" (nats_client.go:95): no step
\* after the loop stopped registers a call, sends to or closes a channel, or
\* brings a subscription back.
QuietAfterStop ==
    [][loop = "stopped" => /\ UNCHANGED <<callinfos, closes, active>>
                           /\ \A c \in Calls : chan'[c] <= chan[c]]_vars

\* The callers see the abstract life cycle of a call.
Lifecycle == INSTANCE CallLifecycle
             WITH open <- ~isClose,
                  answered <- {c \in Calls : replies[c] > 0},
                  status <- [c \in Calls |->
                      IF caller[c] \in {"waiting", "deleting"} THEN "pending"
                                                              ELSE caller[c]]

\* What CallArgs tells its caller follows CallLifecycle: a result only for a
\* call that was answered, "client closed" only when the client was closed, no
\* call accepted after that, one outcome per call.
RefinesLifecycle == Lifecycle!Spec

\* Once the client is closed, or its connection for good, its receive loop ends and
\* every Done returns: the loop cannot get stuck in NextMsg, backing off,
\* re-subscribing or delivering, even to a caller that has given up (holds for
\* ChanCap >= 1).
DoneCompletes == /\ (isClose \/ connClosed) ~> (loop = "stopped")
                 /\ \A d \in Closers : (closer[d] = "waiting") ~> (closer[d] = "returned")

\* A caller whose reply the loop has taken, or whose client is closed, stops
\* waiting without the help of its deadline.
WaiterFreed ==
    \A c \in Calls :
        (caller[c] = "waiting" /\ (isClose \/ c \notin callinfos)) ~> (caller[c] # "waiting")
=============================================================================
