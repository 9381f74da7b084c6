--------------------------- MODULE ConsulRegistry ---------------------------
(***************************************************************************)
(* Registration of one service's instances with Consul                     *)
(* (registry/consul_registry.go).  Every instance registers itself again   *)
(* and again: the client keeps a hash of what it registered, and when that *)
(* is what it shall register now it only passes the TTL check of the       *)
(* instance, which keeps it healthy.  The agent, its checks and its        *)
(* catalogue are Consul's (external): a check that is not passed in time   *)
(* becomes critical, a critical instance is reaped, an agent may lose what *)
(* it knew, and every call of it may fail.                                 *)
(*                                                                         *)
(* Register and Deregister of an instance are called by one goroutine, and *)
(* only that reads or writes the instance's hash: what happens between two *)
(* calls of the agent is one step with the call that follows.              *)
(***************************************************************************)
EXTENDS Naturals, Sequences, FiniteSets

CONSTANTS Instances,  \* instances (node ids) of the service
          Versions,   \* what an instance registers: its content, with its version
          None,       \* not registered
          MaxChanges  \* bound: changes of the catalogue

ASSUME RegistryAssumption == MaxChanges \in Nat /\ None \notin Versions

VARIABLES
    catalogue, \* catalogue[i]: what the agent holds of i: version and health, or None
    register,  \* register[i]: the client's hash of i's registration, or None
    passing,   \* passing[i]: Register has yet to pass the check of i
    unsure,    \* (ghost) instances a failed registration changed since their hash was saved
    changes    \* changes of the catalogue so far

registryVars == <<catalogue, register, passing, unsure, changes>>

Entry(v, h) == [version |-> v, health |-> h]
Entries == [version : Versions, health : {"passing", "critical"}]
\* An instance the agent does not hold is told apart from every one it holds.
ASSUME EntryAssumption == None \notin Entries

RegistryTypeOK == /\ catalogue \in [Instances -> Entries \cup {None}]
                  /\ register \in [Instances -> Versions \cup {None}]
                  /\ passing \in [Instances -> BOOLEAN]
                  /\ unsure \subseteq Instances
                  /\ changes \in 0..MaxChanges

RegistryInit == /\ catalogue = [i \in Instances |-> None]
                /\ register = [i \in Instances |-> None]
                /\ passing = [i \in Instances |-> FALSE]
                /\ unsure = {}
                /\ changes = 0

\* The agent's record of i becomes e.
Holds(i, e) == /\ catalogue' = [catalogue EXCEPT ![i] = e]
               /\ IF e = catalogue[i] THEN UNCHANGED changes
                  ELSE changes < MaxChanges /\ changes' = changes + 1

\* PassTTL: the check of i passes if the agent has one.
PassTTL(i) == /\ catalogue[i] # None
              /\ Holds(i, [catalogue[i] EXCEPT !.health = "passing"])

\* The hash is that of what shall be registered: passing the check is enough.
RegisterPasses(i) ==
    /\ ~passing[i]
    /\ register[i] # None
    /\ PassTTL(i)
    /\ UNCHANGED <<register, passing, unsure>>

\* The agent registers i with content v and, if a TTL is set, a check that is critical
\* unless the agent knew it as passing.
Registered(i, v, ttl) ==
    \E h \in IF ~ttl THEN {"passing"}
             ELSE {"critical"} \cup (IF catalogue[i] = None THEN {} ELSE {catalogue[i].health}) :
       Holds(i, Entry(v, h))

\* Mutant of RegisterFails: the hash is saved before the agent has registered.
RegisterFails_Saved(i) ==
    /\ ~passing[i]
    /\ \E v \in Versions : register' = [register EXCEPT ![i] = v]
    /\ UNCHANGED <<catalogue, passing, unsure, changes>>

\* The registration fails, and Register returns the error.  The agent has refused it, or
\* has registered the instance and its answer is lost.
RegisterFails(i) ==
    /\ ~passing[i]
    /\ \/ UNCHANGED <<catalogue, unsure, changes>>
       \/ \E v \in Versions, ttl \in BOOLEAN :
             /\ Registered(i, v, ttl)
             /\ unsure' = IF register[i] \in {None, v} THEN unsure ELSE unsure \cup {i}
    /\ UNCHANGED <<register, passing>>

\* Another hash, none, or the check could not be passed: the instance is registered and
\* the hash saved. If a TTL is set, the check has to be passed.
ServiceRegister(i) ==
    /\ ~passing[i]
    /\ \E v \in Versions, ttl \in BOOLEAN :
          /\ Registered(i, v, ttl)
          /\ register' = [register EXCEPT ![i] = v]
          /\ passing' = [passing EXCEPT ![i] = ttl]
    /\ unsure' = unsure \ {i}

\* The check is passed, or Register returns the error.
PassCheck(i) ==
    /\ passing[i]
    /\ PassTTL(i) \/ UNCHANGED <<catalogue, changes>>
    /\ passing' = [passing EXCEPT ![i] = FALSE]
    /\ UNCHANGED <<register, unsure>>

\* Deregister forgets the hash, whether the agent deregisters the instance or not.
Deregister(i) ==
    /\ ~passing[i]
    /\ register' = [register EXCEPT ![i] = None]
    /\ Holds(i, None) \/ UNCHANGED <<catalogue, changes>>
    /\ unsure' = unsure \ {i}
    /\ UNCHANGED passing

\* The TTL lapses, or a TCP check the agent makes itself changes its mind.
CheckTurns(i) ==
    /\ catalogue[i] # None
    /\ \E h \in {"passing", "critical"} : Holds(i, Entry(catalogue[i].version, h))
    /\ UNCHANGED <<register, passing, unsure>>

\* A critical instance is reaped, or the agent loses an instance.
Forget(i) == /\ catalogue[i] # None
             /\ Holds(i, None)
             /\ UNCHANGED <<register, passing, unsure>>

RegistryNext == \E i \in Instances :
    \/ RegisterPasses(i) \/ RegisterFails(i) \/ ServiceRegister(i) \/ PassCheck(i)
    \/ Deregister(i) \/ CheckTurns(i) \/ Forget(i)

-----------------------------------------------------------------------------
\* The health query: the healthy nodes of a version, and the versions with a node
Healthy(v) == {i \in Instances : catalogue[i] = Entry(v, "passing")}
Known == {v \in Versions : \E i \in Instances :
             catalogue[i] # None /\ catalogue[i].version = v}

\* The shortcut of Register is sound: a hash the client keeps is that of what the
\* agent holds, if it still holds the instance, whichever calls failed before - unless a
\* registration with other content failed after the hash was saved and was made all the
\* same, which the client cannot know.
HashIsHeld ==
    \A i \in Instances \ unsure : register[i] # None /\ catalogue[i] # None =>
        catalogue[i].version = register[i]
=============================================================================
