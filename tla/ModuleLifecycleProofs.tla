----------------------- MODULE ModuleLifecycleProofs -----------------------
EXTENDS ModuleLifecycle, TLAPS

(* The inductive invariant *)

Active == {"send", "wait", "exit", "join"}

\* How far app.Run is decides which modules are ready and which run.
ControlOK ==
    /\ main \in {"init", "ready"} =>
         /\ at \in Modules /\ destroyer = "none"
         /\ \A m \in Bootstrap : m < at => runner[m] # "none"
         /\ \A m \in Services : runner[m] = "none" /\ (m < at => keeper[m] # "none")
    /\ main = "ready" /\ at \in Services => rpc[at] = "open"
    /\ main \in {"init", "ready"} => \A m \in Modules : m >= at => keeper[m] = "none"
    /\ main = "start" => /\ at \in Services /\ destroyer = "none"
                         /\ \A m \in Modules : m < at => runner[m] # "none"
                         /\ \A m \in Services : keeper[m] # "none"
    /\ main = "up" => /\ destroyer = "none"
                      /\ \A m \in Modules : runner[m] # "none"
    /\ destroyer # "none" => \A m \in Modules : runner[m] # "none"
    /\ destroyer \in Active => at \in Modules
    /\ destroyer \in {"exit", "join"} => runner[at] = "returned"

\* The entry of a module, its renewal and its RPC server against the goroutine
\* that keeps them
ServiceOK ==
    \A m \in Modules :
        /\ keeper[m] = "none" => ~entry[m] /\ renewer[m] = "none"
        /\ keeper[m] = "waiting" => renewer[m] \in {"idle", "sending"}
        /\ keeper[m] = "drain" => renewer[m] # "none"
        /\ keeper[m] \in {"deregister", "stop", "ended"} => renewer[m] = "stopped"
        /\ keeper[m] \in {"waiting", "drain", "deregister", "stop"} => rpc[m] = "open"
        /\ keeper[m] = "stop" => ~entry[m]
        /\ keeper[m] = "ended" => lost[m] \/ ~entry[m]

\* Module n is down altogether, or its OnDestroy panicked.
Down(n) == /\ runner[n] = "returned"
           /\ n \in Services /\ ~panicked[n] =>
                 keeper[n] = "ended" /\ renewer[n] = "stopped" /\ rpc[n] = "closed"

DownOK == destroyer \in Active => \A n \in Modules : at < n => Down(n)

IInv == TypeOK /\ ControlOK /\ ServiceOK /\ EntryAfterReady /\ DownOK

USE LifecycleAssumption DEF Modules, Bootstrap, Services

\* A process starts with nothing ready and nothing running.
LEMMA InitInv == Init => IInv
  BY DEF Init, IInv, TypeOK, ControlOK, ServiceOK, EntryAfterReady, DownOK, Active

\* OnInit opens the RPC server of the next module.
LEMMA OnInitInv == ASSUME IInv, OnInit PROVE IInv'
<1> USE DEF IInv, OnInit, service
<1>1. TypeOK'
  BY DEF TypeOK, ControlOK
<1>2. ControlOK'
  BY DEF ControlOK, TypeOK, Active
<1>3. ServiceOK'
  BY DEF ServiceOK, ControlOK, TypeOK
<1>4. EntryAfterReady'
  BY DEF EntryAfterReady
<1>5. DownOK'
  BY DEF DownOK, ControlOK, Active
<1> QED BY <1>1, <1>2, <1>3, <1>4, <1>5

\* OnReady publishes the module, or runs it when it is a bootstrap module.
LEMMA OnReadyInv == ASSUME IInv, OnReady PROVE IInv'
<1> USE DEF IInv
<1>0. /\ main = "ready" /\ at \in Modules /\ destroyer = "none"
      /\ main' = IF at < N THEN "init" ELSE "start"
      /\ at' = IF at < N THEN at + 1 ELSE B + 1
      /\ UNCHANGED <<destroyer, closeSig, rpc, cancelled, lost, panicked>>
  BY DEF OnReady, ControlOK
<1>1. CASE at \in Services
  <2>1. /\ entry' = [entry EXCEPT ![at] = TRUE]
        /\ keeper' = [keeper EXCEPT ![at] = "waiting"]
        /\ renewer' = [renewer EXCEPT ![at] = "idle"]
        /\ UNCHANGED runner
    BY <1>1 DEF OnReady, AfterReady
  <2>2. TypeOK'
    BY <1>0, <2>1 DEF TypeOK
  <2>3. ControlOK'
    <3>1. CASE at < N
      BY <1>0, <1>1, <2>1, <3>1 DEF ControlOK, TypeOK, Active
    <3>2. CASE ~(at < N)
      BY <1>0, <1>1, <2>1, <3>2 DEF ControlOK, TypeOK, Active
    <3> QED BY <3>1, <3>2
  <2>4. ServiceOK'
    BY <1>0, <1>1, <2>1 DEF ServiceOK, ControlOK, TypeOK
  <2>5. EntryAfterReady'
    BY <1>0, <2>1 DEF EntryAfterReady, ControlOK, TypeOK
  <2>6. DownOK'
    BY <1>0 DEF DownOK, Active
  <2> QED BY <2>2, <2>3, <2>4, <2>5, <2>6
<1>2. CASE at \notin Services
  <2>1. /\ runner' = [runner EXCEPT ![at] = "running"]
        /\ UNCHANGED <<entry, keeper, renewer>>
    BY <1>0, <1>2 DEF OnReady, AfterReady
  <2>2. TypeOK'
    BY <1>0, <2>1 DEF TypeOK
  <2>3. ControlOK'
    BY <1>0, <1>2, <2>1 DEF ControlOK, TypeOK, Active
  <2>4. ServiceOK'
    BY <1>0, <2>1 DEF ServiceOK
  <2>5. EntryAfterReady'
    BY <1>0, <1>2, <2>1 DEF EntryAfterReady, TypeOK
  <2>6. DownOK'
    BY <1>0 DEF DownOK, Active
  <2> QED BY <2>2, <2>3, <2>4, <2>5, <2>6
<1> QED BY <1>1, <1>2

\* StartRun runs the next module when all are ready.
LEMMA StartRunInv == ASSUME IInv, StartRun PROVE IInv'
<1> USE DEF IInv, StartRun, service
<1>1. TypeOK'
  BY DEF TypeOK, ControlOK
<1>2. ControlOK'
  <2>1. CASE at < N
    BY <2>1 DEF ControlOK, TypeOK, Active
  <2>2. CASE ~(at < N)
    BY <2>2 DEF ControlOK, TypeOK, Active
  <2> QED BY <2>1, <2>2
<1>3. ServiceOK'
  BY DEF ServiceOK
<1>4. EntryAfterReady'
  BY DEF EntryAfterReady, ControlOK, TypeOK
<1>5. DownOK'
  BY DEF DownOK, ControlOK, Active
<1> QED BY <1>1, <1>2, <1>3, <1>4, <1>5

\* The steps of app.Run that touch no module: the signal, the end, the kill timer
\* and a crash
LEMMA MainInv ==
    ASSUME IInv, Signal \/ MainEnd \/ KillTimeout \/ Crash
    PROVE  IInv'
<1> USE DEF IInv, Signal, MainEnd, KillTimeout, Crash, service
<1>1. TypeOK'
  BY DEF TypeOK
<1>2. ControlOK'
  BY DEF ControlOK, TypeOK, Active, alive
<1>3. ServiceOK'
  BY DEF ServiceOK
<1>4. EntryAfterReady'
  BY DEF EntryAfterReady
<1>5. DownOK'
  BY DEF DownOK, Down, Active, TypeOK
<1> QED BY <1>1, <1>2, <1>3, <1>4, <1>5

\* Destroy: telling the module to stop, waiting for its Run and cancelling its
\* service, or the recovered panic of its OnDestroy
LEMMA DestroyInv ==
    ASSUME IInv, SendClose \/ WaitRun \/ OnDestroy \/ OnDestroyPanics
    PROVE  IInv'
<1> USE DEF IInv, service
<1>0. at \in Modules /\ destroyer \in Active /\ main \notin {"init", "ready", "start", "up"}
  BY DEF SendClose, WaitRun, OnDestroy, OnDestroyPanics, ControlOK, Active
<1>1. TypeOK'
  <2>1. CASE SendClose \/ WaitRun
    BY <2>1, <1>0 DEF TypeOK, SendClose, WaitRun
  <2>2. CASE OnDestroy /\ at \in Services
    BY <2>2, <1>0 DEF TypeOK, OnDestroy
  <2>3. CASE OnDestroy /\ at \notin Services
    BY <2>3, <1>0 DEF TypeOK, OnDestroy, NextDown
  <2>4. CASE OnDestroyPanics
    BY <2>4, <1>0 DEF TypeOK, OnDestroyPanics, NextDown
  <2> QED BY <2>1, <2>2, <2>3, <2>4
<1>2. ControlOK'
  BY <1>0 DEF ControlOK, TypeOK, Active, SendClose, WaitRun, OnDestroy, OnDestroyPanics, NextDown
<1>3. ServiceOK'
  BY DEF ServiceOK, SendClose, WaitRun, OnDestroy, OnDestroyPanics
<1>4. EntryAfterReady'
  BY DEF EntryAfterReady, SendClose, WaitRun, OnDestroy, OnDestroyPanics
<1>5. DownOK'
  <2>1. CASE SendClose \/ WaitRun
    BY <2>1, <1>0 DEF DownOK, Down, Active, SendClose, WaitRun
  <2>2. CASE OnDestroy
    BY <2>2, <1>0 DEF DownOK, Down, Active, OnDestroy, NextDown, ControlOK, TypeOK
  <2>3. CASE OnDestroyPanics
    BY <2>3, <1>0 DEF DownOK, Down, Active, OnDestroyPanics, NextDown, ControlOK, TypeOK
  <2> QED BY <2>1, <2>2, <2>3
<1> QED BY <1>1, <1>2, <1>3, <1>4, <1>5

\* Destroy: the service has ended and the next module is taken up.
LEMMA OnDestroyedInv == ASSUME IInv, OnDestroyed PROVE IInv'
<1> USE DEF IInv, service, OnDestroyed, NextDown
<1>0. at \in Modules /\ destroyer \in Active /\ main \notin {"init", "ready", "start", "up"}
  BY DEF ControlOK, Active
<1>1. TypeOK'
  BY <1>0 DEF TypeOK
<1>2. ControlOK'
  BY <1>0 DEF ControlOK, TypeOK, Active
<1>3. ServiceOK'
  BY <1>0 DEF ServiceOK, TypeOK
<1>4. EntryAfterReady'
  BY DEF EntryAfterReady
<1>5. DownOK'
  BY <1>0 DEF DownOK, Down, Active, ControlOK, ServiceOK, TypeOK
<1> QED BY <1>1, <1>2, <1>3, <1>4, <1>5

\* The goroutines of Run
LEMMA RunInv ==
    ASSUME IInv, NEW m \in Modules, RunStop(m) \/ RunReturn(m)
    PROVE  IInv'
<1> USE DEF IInv, service, progress, RunStop, RunReturn
<1>1. TypeOK'
  BY DEF TypeOK
<1>2. ControlOK'
  BY DEF ControlOK, TypeOK, Active
<1>3. ServiceOK'
  BY DEF ServiceOK
<1>4. EntryAfterReady'
  BY DEF EntryAfterReady, TypeOK
<1>5. DownOK'
  BY DEF DownOK, Down, Active, TypeOK
<1> QED BY <1>1, <1>2, <1>3, <1>4, <1>5

\* The renewal loop and the registry's TTL
LEMMA RenewInv ==
    ASSUME IInv, NEW m \in Modules,
           RenewSend(m) \/ RenewOK(m) \/ RenewFail(m) \/ RenewStop(m) \/ Expire(m)
    PROVE  IInv'
<1> USE DEF IInv, service, progress, RenewSend, RenewOK, RenewFail, RenewStop, Expire
<1>1. TypeOK'
  BY DEF TypeOK
<1>2. ControlOK'
  BY DEF ControlOK
<1>3. ServiceOK'
  BY DEF ServiceOK, TypeOK
<1>4. EntryAfterReady'
  BY DEF EntryAfterReady
<1>5. DownOK'
  BY DEF DownOK, Down, Active, TypeOK
<1> QED BY <1>1, <1>2, <1>3, <1>4, <1>5

\* The goroutine of service.Wait
LEMMA KeeperInv ==
    ASSUME IInv, NEW m \in Modules, KeeperStep(m)
    PROVE  IInv'
<1> USE DEF IInv
<1>1. /\ UNCHANGED <<main, at, destroyer, closeSig, runner, cancelled, renewer, panicked>>
      /\ keeper[m] \in {"waiting", "drain", "deregister", "stop"}
      /\ keeper'[m] # "none"
      /\ \A n \in Modules : n # m => /\ keeper'[n] = keeper[n] /\ entry'[n] = entry[n]
                                     /\ rpc'[n] = rpc[n] /\ lost'[n] = lost[n]
  BY DEF TypeOK, KeeperStep, WaitDone, WaitStopped, DeregisterOK, DeregisterFail, ServerStop,
         progress
<1>2. TypeOK'
  BY DEF TypeOK, KeeperStep, WaitDone, WaitStopped, DeregisterOK, DeregisterFail, ServerStop,
         progress
<1>3. ControlOK'
  <2>1. main # "ready" \/ at # m
    BY <1>1 DEF KeeperStep, WaitDone, WaitStopped, DeregisterOK, DeregisterFail, ServerStop,
                ControlOK
  <2> QED BY <1>1, <2>1 DEF ControlOK, TypeOK
<1>4. ServiceOK'
  <2>1. \A n \in Modules : n # m => renewer'[n] = renewer[n]
    BY <1>1
  <2>2. CASE WaitDone(m)
    <3>1. keeper[m] = "waiting" /\ keeper'[m] = "drain" /\ UNCHANGED <<rpc, lost, entry, renewer>>
      BY <2>2 DEF WaitDone, TypeOK
    <3> QED BY <1>1, <3>1 DEF ServiceOK
  <2>3. CASE WaitStopped(m)
    BY <2>3, <1>1 DEF ServiceOK, TypeOK, WaitStopped
  <2>4. CASE DeregisterOK(m)
    BY <2>4, <1>1 DEF ServiceOK, TypeOK, DeregisterOK
  <2>5. CASE DeregisterFail(m)
    BY <2>5, <1>1 DEF ServiceOK, TypeOK, DeregisterFail
  <2>6. CASE ServerStop(m)
    BY <2>6, <1>1 DEF ServiceOK, TypeOK, ServerStop
  <2> QED BY <2>2, <2>3, <2>4, <2>5, <2>6 DEF KeeperStep
<1>5. EntryAfterReady'
  BY <1>1 DEF EntryAfterReady
<1>6. DownOK'
  BY <1>1 DEF DownOK, Down, Active
<1> QED BY <1>2, <1>3, <1>4, <1>5, <1>6

\* Every step keeps the invariant.
LEMMA StepInv == IInv /\ [Next]_vars => IInv'
<1> SUFFICES ASSUME IInv, [Next]_vars PROVE IInv'
  OBVIOUS
<1>1. CASE UNCHANGED vars
  BY <1>1 DEF vars, progress, service, IInv, TypeOK, ControlOK, ServiceOK, EntryAfterReady,
              DownOK, Down
<1>2. CASE Next
  BY <1>2, OnInitInv, OnReadyInv, StartRunInv, MainInv, DestroyInv, OnDestroyedInv, RunInv,
     RenewInv, KeeperInv DEF Next, MainStep, DestroyStep, RenewStep
<1> QED BY <1>1, <1>2

\* The invariant holds in every reachable state.
THEOREM Invariance == Spec => []IInv
  BY InitInv, StepInv, PTL DEF Spec

\* The process, its modules and their services keep their types (module_manager.go,
\* service.go): Init and Destroy never step past the modules.
THEOREM TypeCorrect == Spec => []TypeOK
<1>1. IInv => TypeOK
  BY DEF IInv
<1> QED BY <1>1, Invariance, PTL

\* For any number of modules: an instance in the registry is served, from OnReady
\* to the end of service.Stop.
THEOREM NoDeadEntries == Spec => []RegisteredIsServed
<1>1. IInv => RegisteredIsServed
  BY DEF IInv, ServiceOK, RegisteredIsServed, TypeOK
<1> QED BY <1>1, Invariance, PTL

\* For any number of modules: no entry module runs before all modules are
\* published (module_manager.go:94).
THEOREM EntriesWait == Spec => []EntryAfterReady
<1>1. IInv => EntryAfterReady
  BY DEF IInv
<1> QED BY <1>1, Invariance, PTL

\* For any number of modules: Destroy stops a module when the later ones are down, but for
\* those whose OnDestroy panicked, whose Run alone has returned (module_agent.go:52-65).
THEOREM ReverseOrder == Spec => []LaterModulesDown
<1>1. IInv => LaterModulesDown
  BY DEF IInv, DownOK, Down, Active, LaterModulesDown
<1> QED BY <1>1, Invariance, PTL
=============================================================================
