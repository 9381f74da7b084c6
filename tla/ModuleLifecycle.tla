-------------------------- MODULE ModuleLifecycle --------------------------
(***************************************************************************)
(* One process from app.Run to its end: the module manager initialises,    *)
(* publishes, runs and destroys its modules (module/base/module_manager.go *)
(* and module_agent.go); every RPC module keeps its entry in the service   *)
(* registry alive with a renewal goroutine and takes it out when it is     *)
(* destroyed (module/base/base_module.go, service/service.go,              *)
(* server/rpc_server.go).                                                  *)
(*                                                                         *)
(* Modules are numbered in the order of runMods; the first ones are the    *)
(* bootstrap modules (the Timer), which have no service.  Done of the RPC  *)
(* server is one step here; module RpcServer models it.                    *)
(***************************************************************************)
EXTENDS Naturals

CONSTANTS N,          \* modules that run in this process
          B,          \* the first B are bootstrap modules
          CanCrash    \* the process may die at any time

ASSUME LifecycleAssumption == /\ N \in Nat /\ B \in Nat /\ B < N
                              /\ CanCrash \in BOOLEAN

VARIABLES
    main,       \* where app.Run is
    at,         \* the module Init or Destroy works on
    destroyer,  \* where the goroutine that runs Destroy is
    closeSig,   \* tokens in closeSig of each module (capacity 1)
    runner,     \* the goroutine of each module's Run
    rpc,        \* the RPC server of each module: "none", "open", "closed"
    cancelled,  \* the context of the service was cancelled by exit()
    keeper,     \* the goroutine in service.Wait
    renewer,    \* its renewal loop service.run
    entry,      \* is the instance in the registry
    lost,       \* Deregister failed
    panicked    \* OnDestroy of the module panicked

progress == <<main, at, destroyer>>
service == <<cancelled, keeper, renewer, lost, panicked>>
vars == <<progress, closeSig, runner, rpc, service, entry>>

Modules == 1..N
Bootstrap == 1..B
Services == Modules \ Bootstrap

TypeOK == /\ main \in {"init", "ready", "start", "up", "closing", "ended", "crashed"}
          /\ at \in 0..(N + 1)
          /\ destroyer \in {"none", "send", "wait", "exit", "join", "done"}
          /\ closeSig \in [Modules -> 0..1]
          /\ runner \in [Modules -> {"none", "running", "returned"}]
          /\ rpc \in [Modules -> {"none", "open", "closed"}]
          /\ cancelled \in [Modules -> BOOLEAN]
          /\ keeper \in [Modules -> {"none", "waiting", "drain", "deregister", "stop", "ended"}]
          /\ renewer \in [Modules -> {"none", "idle", "sending", "stopped"}]
          /\ entry \in [Modules -> BOOLEAN] /\ lost \in [Modules -> BOOLEAN]
          /\ panicked \in [Modules -> BOOLEAN]

Init == /\ main = "init"
        /\ at = 1
        /\ destroyer = "none"
        /\ closeSig = [m \in Modules |-> 0]
        /\ runner = [m \in Modules |-> "none"]
        /\ rpc = [m \in Modules |-> "none"]
        /\ cancelled = [m \in Modules |-> FALSE]
        /\ keeper = [m \in Modules |-> "none"]
        /\ renewer = [m \in Modules |-> "none"]
        /\ entry = [m \in Modules |-> FALSE]
        /\ lost = [m \in Modules |-> FALSE]
        /\ panicked = [m \in Modules |-> FALSE]

alive == main \notin {"ended", "crashed"}

-----------------------------------------------------------------------------
(* ModuleManager.Init *)

\* OnInit: BaseModule creates the RPC server, which subscribes.
OnInit ==
    /\ main = "init"
    /\ main' = "ready"
    /\ rpc' = IF at \in Services THEN [rpc EXCEPT ![at] = "open"] ELSE rpc
    /\ UNCHANGED <<at, destroyer, closeSig, runner, service, entry>>

\* Mutant of AfterReady: a module runs as soon as it is ready itself.
AfterReady_RunAll == [runner EXCEPT ![at] = "running"]

\* Only bootstrap modules run before all others are ready.
AfterReady == IF at \in Bootstrap THEN [runner EXCEPT ![at] = "running"] ELSE runner

\* OnReady: service.Start registers the instance before it returns (a failure
\* panics, see Crash), and service.Wait starts with its renewal loop.
OnReady ==
    /\ main = "ready"
    /\ IF at \in Services
       THEN /\ entry' = [entry EXCEPT ![at] = TRUE]
            /\ keeper' = [keeper EXCEPT ![at] = "waiting"]
            /\ renewer' = [renewer EXCEPT ![at] = "idle"]
       ELSE UNCHANGED <<entry, keeper, renewer>>
    /\ runner' = AfterReady
    /\ main' = IF at < N THEN "init" ELSE "start"
    /\ at' = IF at < N THEN at + 1 ELSE B + 1
    /\ UNCHANGED <<destroyer, closeSig, rpc, cancelled, lost, panicked>>

\* All modules are ready: the others run.
StartRun ==
    /\ main = "start"
    /\ runner' = [runner EXCEPT ![at] = "running"]
    /\ main' = IF at < N THEN "start" ELSE "up"
    /\ at' = at + 1
    /\ UNCHANGED <<destroyer, closeSig, rpc, service, entry>>

-----------------------------------------------------------------------------
(* The end of app.Run and ModuleManager.Destroy *)

\* SIGTERM: the kill timer is armed and Destroy started, from the last module on.
Signal ==
    /\ main = "up"
    /\ main' = "closing"
    /\ destroyer' = "send"
    /\ at' = N
    /\ UNCHANGED <<closeSig, runner, rpc, service, entry>>

\* Mutant of SendClose: closeSig has no buffer; the send waits for Run to receive.
SendClose_Unbuffered ==
    /\ alive /\ destroyer = "send"
    /\ runner[at] = "running"
    /\ runner' = [runner EXCEPT ![at] = "returned"]
    /\ destroyer' = "wait"
    /\ UNCHANGED <<main, at, closeSig, rpc, service, entry>>

\* m.closeSig <- true
SendClose ==
    /\ alive /\ destroyer = "send"
    /\ closeSig[at] = 0
    /\ closeSig' = [closeSig EXCEPT ![at] = 1]
    /\ destroyer' = "wait"
    /\ UNCHANGED <<main, at, runner, rpc, service, entry>>

\* m.wg.Wait()
WaitRun ==
    /\ alive /\ destroyer = "wait"
    /\ runner[at] # "running"
    /\ destroyer' = "exit"
    /\ UNCHANGED <<main, at, closeSig, runner, rpc, service, entry>>

\* The module after at, counting down, or the end of Destroy
NextDown == /\ destroyer' = IF at > 1 THEN "send" ELSE "done"
            /\ at' = at - 1

\* OnDestroy: m.exit() cancels the context; the Timer has nothing to do.
OnDestroy ==
    /\ alive /\ destroyer = "exit"
    /\ IF at \in Services
       THEN /\ cancelled' = [cancelled EXCEPT ![at] = TRUE]
            /\ destroyer' = "join"
            /\ UNCHANGED at
       ELSE NextDown /\ UNCHANGED cancelled
    /\ UNCHANGED <<main, closeSig, runner, rpc, keeper, renewer, lost, entry, panicked>>

\* The module's own OnDestroy panics before it calls BaseModule's.  destroy recovers and
\* Destroy goes on, while the module's service is renewed and its RPC server answers.
\* (After BaseModule's a panic changes nothing.)
OnDestroyPanics ==
    /\ alive /\ destroyer = "exit"
    /\ panicked' = [panicked EXCEPT ![at] = TRUE]
    /\ NextDown
    /\ UNCHANGED <<main, closeSig, runner, rpc, cancelled, keeper, renewer, lost, entry>>

\* Mutant of OnDestroyed: the end of service.Wait is not awaited.
OnDestroyed_NoJoin ==
    /\ alive /\ destroyer = "join"
    /\ rpc' = [rpc EXCEPT ![at] = "closed"]
    /\ NextDown
    /\ UNCHANGED <<main, closeSig, runner, service, entry>>

\* OnDestroy goes on when serviceStopped is closed, and stops the RPC server if
\* service.Stop has not.
OnDestroyed ==
    /\ alive /\ destroyer = "join"
    /\ keeper[at] = "ended"
    /\ rpc' = [rpc EXCEPT ![at] = "closed"]
    /\ NextDown
    /\ UNCHANGED <<main, closeSig, runner, service, entry>>

\* case <-wait
MainEnd ==
    /\ main = "closing" /\ destroyer = "done"
    /\ main' = "ended"
    /\ UNCHANGED <<at, destroyer, closeSig, runner, rpc, service, entry>>

\* case <-timeout.C
KillTimeout ==
    /\ main = "closing" /\ destroyer # "done"
    /\ main' = "ended"
    /\ UNCHANGED <<at, destroyer, closeSig, runner, rpc, service, entry>>

-----------------------------------------------------------------------------
(* The goroutines of a module *)

\* Run takes the signal and returns.
RunStop(m) ==
    /\ alive /\ runner[m] = "running"
    /\ closeSig[m] = 1
    /\ closeSig' = [closeSig EXCEPT ![m] = 0]
    /\ runner' = [runner EXCEPT ![m] = "returned"]
    /\ UNCHANGED <<progress, rpc, service, entry>>

\* Run returns by itself; closeSig is left alone.
RunReturn(m) ==
    /\ alive /\ runner[m] = "running"
    /\ runner' = [runner EXCEPT ![m] = "returned"]
    /\ UNCHANGED <<progress, closeSig, rpc, service, entry>>

\* run: the ticker fires and ServiceRegister sends to the registry ...
RenewSend(m) ==
    /\ alive /\ renewer[m] = "idle"
    /\ renewer' = [renewer EXCEPT ![m] = "sending"]
    /\ UNCHANGED <<progress, closeSig, runner, rpc, cancelled, keeper, lost, entry, panicked>>

\* ... which renews the entry, or creates it again when it had expired ...
RenewOK(m) ==
    /\ alive /\ renewer[m] = "sending"
    /\ entry' = [entry EXCEPT ![m] = TRUE]
    /\ renewer' = [renewer EXCEPT ![m] = "idle"]
    /\ UNCHANGED <<progress, closeSig, runner, rpc, cancelled, keeper, lost, panicked>>

\* ... or fails, which is logged.
RenewFail(m) ==
    /\ alive /\ renewer[m] = "sending"
    /\ renewer' = [renewer EXCEPT ![m] = "idle"]
    /\ UNCHANGED <<progress, closeSig, runner, rpc, cancelled, keeper, lost, entry, panicked>>

\* run: case <-exit
RenewStop(m) ==
    /\ alive /\ renewer[m] = "idle"
    /\ keeper[m] = "drain"
    /\ renewer' = [renewer EXCEPT ![m] = "stopped"]
    /\ UNCHANGED <<progress, closeSig, runner, rpc, cancelled, keeper, lost, entry, panicked>>

\* Wait: the context is done; close(ex)
WaitDone(m) ==
    /\ alive /\ keeper[m] = "waiting"
    /\ cancelled[m]
    /\ keeper' = [keeper EXCEPT ![m] = "drain"]
    /\ UNCHANGED <<progress, closeSig, runner, rpc, cancelled, renewer, lost, entry, panicked>>

\* Mutant of WaitStopped: the renewal loop is not awaited.
WaitStopped_NoWait(m) ==
    /\ alive /\ keeper[m] = "drain"
    /\ keeper' = [keeper EXCEPT ![m] = "deregister"]
    /\ UNCHANGED <<progress, closeSig, runner, rpc, cancelled, renewer, lost, entry, panicked>>

\* Wait: <-stopped
WaitStopped(m) ==
    /\ alive /\ keeper[m] = "drain"
    /\ renewer[m] = "stopped"
    /\ keeper' = [keeper EXCEPT ![m] = "deregister"]
    /\ UNCHANGED <<progress, closeSig, runner, rpc, cancelled, renewer, lost, entry, panicked>>

\* Stop: ServiceDeregister succeeds ...
DeregisterOK(m) ==
    /\ alive /\ keeper[m] = "deregister"
    /\ entry' = [entry EXCEPT ![m] = FALSE]
    /\ keeper' = [keeper EXCEPT ![m] = "stop"]
    /\ UNCHANGED <<progress, closeSig, runner, rpc, cancelled, renewer, lost, panicked>>

\* ... or fails, and Stop returns at once.
DeregisterFail(m) ==
    /\ alive /\ keeper[m] = "deregister"
    /\ lost' = [lost EXCEPT ![m] = TRUE]
    /\ keeper' = [keeper EXCEPT ![m] = "ended"]
    /\ UNCHANGED <<progress, closeSig, runner, rpc, cancelled, renewer, entry, panicked>>

\* Stop: Server.Stop; Wait returns and serviceStopped is closed.
ServerStop(m) ==
    /\ alive /\ keeper[m] = "stop"
    /\ rpc' = [rpc EXCEPT ![m] = "closed"]
    /\ keeper' = [keeper EXCEPT ![m] = "ended"]
    /\ UNCHANGED <<progress, closeSig, runner, cancelled, renewer, lost, entry, panicked>>

-----------------------------------------------------------------------------
(* The environment *)

\* A panic in OnInit, OnReady or Run, or a kill
Crash ==
    /\ CanCrash
    /\ alive
    /\ main' = "crashed"
    /\ UNCHANGED <<at, destroyer, closeSig, runner, rpc, service, entry>>

\* The registry drops an entry that was not renewed in time.
Expire(m) ==
    /\ entry[m]
    /\ entry' = [entry EXCEPT ![m] = FALSE]
    /\ UNCHANGED <<progress, closeSig, runner, rpc, service>>

-----------------------------------------------------------------------------
MainStep == OnInit \/ OnReady \/ StartRun \/ MainEnd
DestroyStep == SendClose \/ WaitRun \/ OnDestroy \/ OnDestroyPanics \/ OnDestroyed
RenewStep(m) == RenewOK(m) \/ RenewFail(m)
KeeperStep(m) == WaitDone(m) \/ WaitStopped(m) \/ DeregisterOK(m) \/ DeregisterFail(m)
                   \/ ServerStop(m)

Next == \/ MainStep \/ Signal \/ DestroyStep \/ KillTimeout \/ Crash
        \/ \E m \in Modules : \/ RunStop(m) \/ RunReturn(m)
                              \/ RenewSend(m) \/ RenewStep(m) \/ RenewStop(m)
                              \/ KeeperStep(m) \/ Expire(m)

Spec == Init /\ [][Next]_vars

\* Goroutines run; Run obeys closeSig; a registry call ends one way or the other;
\* select takes <-exit sooner or later although ticks keep coming (random choice).
\* No fairness for the signal, the kill timer or the registry's TTL.
Fairness == /\ WF_vars(MainStep) /\ WF_vars(DestroyStep)
            /\ \A m \in Modules : /\ WF_vars(RunStop(m)) /\ WF_vars(RenewStep(m))
                                  /\ SF_vars(RenewStop(m)) /\ WF_vars(KeeperStep(m))

FairSpec == Spec /\ Fairness

-----------------------------------------------------------------------------
(* Properties *)

\* Callers find an instance in the registry only while its RPC server answers:
\* it is entered after the server is up, taken out before the server stops, and
\* no renewal brings it back ("stop the renewal first, so that it does not
\* register again after deregistering", service.go:159).  A process that died or a
\* Deregister that failed leaves its entry to the TTL.
RegisteredIsServed ==
    \A m \in Services : alive /\ entry[m] /\ ~lost[m] => rpc[m] = "open"

\* "All modules are ready before an entry runs, so that the Gate does not accept
\* clients when a later module fails to initialise" (module_manager.go:94).
EntryAfterReady ==
    \A m \in Services : runner[m] # "none" => \A n \in Services : keeper[n] # "none"

\* Destroy goes backwards and waits: a module is told to stop only when the Run of every
\* module initialised after it has returned, and when that module is down altogether,
\* its renewal and its RPC server too, so a module may use those before it to the
\* end.  One whose OnDestroy panicked may serve on: it is the only exception, and it
\* does not keep the others from being down.
LaterModulesDown ==
    \A m, n \in Modules : m < n /\ at = m /\ destroyer \in {"send", "wait", "exit", "join"} =>
        /\ runner[n] = "returned"
        /\ n \in Services /\ ~panicked[n] =>
              keeper[n] = "ended" /\ renewer[n] = "stopped" /\ rpc[n] = "closed"

\* Destroy completes by itself, even when a Run had returned long before: the
\* buffer of closeSig takes the signal nobody receives.
DestroyCompletes == (main = "closing") ~> (destroyer = "done" \/ ~alive)
=============================================================================
