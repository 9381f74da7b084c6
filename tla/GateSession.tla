---------------------------- MODULE GateSession ----------------------------
(***************************************************************************)
(* The sessions of a gate and the copies its back ends hold of them        *)
(* (gate/base/session.go, gate_handler.go).  A back end receives a copy    *)
(* with a call of the gate and operates on it: an operation calls the gate *)
(* instance that holds the session, whose handler runs on a goroutine of   *)
(* its own, changes the live session, has it stored under its user and     *)
(* answers with the live session, which is serialised only after the       *)
(* handler has returned.  The answer overwrites the whole copy; a call     *)
(* that reaches its deadline fails although its handler goes on.           *)
(*                                                                         *)
(* A section under the session's lock is one action; so is a call of the   *)
(* storage handler, which belongs to the application (external).           *)
(***************************************************************************)
EXTENDS Naturals

CONSTANTS Sessions,   \* the sessions of the gate
          Callers,    \* back end goroutines, each with the copy of one session
          Users, Keys, Values,
          NoUser,     \* the user "" of a guest
          None,       \* no value (a key that is not in a map), no data, no session
          HasStorage, \* the gate has a storage handler
          MaxCalls    \* bound: operations that reach the gate

Settings == [Keys -> Values \cup {None}]
Empty == [k \in Keys |-> None]
AnyUser == Users \cup {NoUser}
Snapshots == [user : AnyUser, settings : Settings]

ASSUME ConstAssumption == /\ MaxCalls \in Nat /\ HasStorage \in BOOLEAN
                          /\ NoUser \notin Users
                          /\ None \notin Values \cup Sessions \cup Snapshots

VARIABLES
    data,     \* data[s]: the live session: its user and settings
    inTable,  \* handler.sessions: the sessions in the table
    isclose,  \* the sessions whose agent is closed
    stored,   \* stored[u]: what the storage handler has under u
    owner,    \* owner[u]: whose storing under u was the last, None if it failed
    copy,     \* copy[c]: the session caller c has a copy of, its user, its settings
    pc,       \* pc[c]: where the operation of c, or its handler, is
    arg,      \* arg[c]: the operation
    query,    \* query[c]: Bind: what Query returned
    answer,   \* answer[c]: the session answered, on its way
    result,   \* result[c]: what IsConnect answered, "yes" or "no"
    fresh,    \* fresh[c]: the session was not changed since it was serialised for c
    calls     \* operations so far

gateVars == <<data, inTable, isclose>>
storage == <<stored, owner>>
handling == <<arg, query, answer, result>>
vars == <<gateVars, storage, copy, pc, handling, fresh, calls>>

\* The operations of a copy. A map of settings holds the keys that have a value;
\* With(m) are the maps m can become when a value is put.
Op(op, user, put, key) == [op |-> op, user |-> user, put |-> put, key |-> key]
With(m) == {n \in Settings : \E k \in Keys, v \in Values : n = [m EXCEPT ![k] = v]}
NoOp == Op("None", NoUser, Empty, None)
UpdateOps == {Op("Update", NoUser, Empty, None)}
BindOps == {Op("Bind", u, Empty, None) : u \in AnyUser}
UnBindOps == {Op("UnBind", NoUser, Empty, None)}
PushOps(c) == {Op("Push", NoUser, copy[c].settings, None)}
SetOps == {Op("Set", NoUser, m, None) : m \in With(Empty)}
SetPushOps(c) == {Op("SetPush", NoUser, m, None) : m \in With(copy[c].settings)}
SetBatchOps == {Op("SetBatch", NoUser, m, None) : m \in Settings}
RemoveOps == {Op("Remove", NoUser, Empty, k) : k \in Keys}
SendOps == {Op("Send", NoUser, Empty, None)}
SendBatchOps == {Op("SendBatch", NoUser, Empty, None)}
BroadCastOps == {Op("BroadCast", NoUser, Empty, None)}
IsConnectOps == {Op("IsConnect", u, Empty, None) : u \in AnyUser}
CloseOps == {Op("Close", NoUser, Empty, None)}

Ops(c) == UpdateOps \cup BindOps \cup UnBindOps \cup PushOps(c) \cup SetOps
          \cup SetPushOps(c) \cup SetBatchOps \cup RemoveOps \cup SendOps
          \cup SendBatchOps \cup BroadCastOps \cup IsConnectOps \cup CloseOps

AnyOp == [op : {"None", "Update", "UnBind", "Send", "SendBatch", "BroadCast", "Close", "Bind", "IsConnect",
                "Remove", "Set", "Push", "SetBatch", "SetPush"},
          user : AnyUser, put : Settings, key : Keys \cup {None}]

TypeOK ==
    /\ data \in [Sessions -> Snapshots]
    /\ inTable \subseteq Sessions /\ isclose \subseteq Sessions
    /\ stored \in [AnyUser -> Settings \cup {None}]
    /\ owner \in [AnyUser -> Sessions \cup {None}]
    /\ copy \in [Callers -> [of : Sessions, user : AnyUser, settings : Settings]]
    /\ pc \in [Callers -> {"idle", "load", "handle", "check", "query", "import",
                           "storage", "serialize", "answer"}]
    /\ arg \in [Callers -> AnyOp]
    /\ fresh \in [Callers -> BOOLEAN]
    /\ query \in [Callers -> Settings \cup {None}]
    /\ answer \in [Callers -> Snapshots \cup {None}]
    /\ result \in [Callers -> {None, "yes", "no"}]
    /\ calls \in 0..MaxCalls

\* The sessions are connected and have no settings; some are bound, and storing them
\* failed. Every caller has a copy.
Init == /\ data \in [Sessions -> [user : AnyUser, settings : {Empty}]]
        /\ inTable = Sessions
        /\ isclose = {}
        /\ stored = [u \in AnyUser |-> None]
        /\ owner = [u \in AnyUser |-> None]
        /\ \E f \in [Callers -> Sessions] :
              copy = [c \in Callers |-> [of |-> f[c], user |-> data[f[c]].user,
                                         settings |-> Empty]]
        /\ pc = [c \in Callers |-> "idle"]
        /\ arg = [c \in Callers |-> NoOp]
        /\ query = [c \in Callers |-> None]
        /\ answer = [c \in Callers |-> None]
        /\ result = [c \in Callers |-> None]
        /\ fresh = [c \in Callers |-> TRUE]
        /\ calls = 0

Goto(c, l) == pc' = [pc EXCEPT ![c] = l]

-----------------------------------------------------------------------------
(* The caller's side: session.go *)

\* SetPush has put the value into the copy before it calls Push.
LocalPut(c, o) ==
    IF o.op = "SetPush" THEN copy' = [copy EXCEPT ![c].settings = o.put]
                        ELSE UNCHANGED copy

\* An operation calls the gate instance of the copy.
Invoke(c) ==
    /\ pc[c] = "idle" /\ calls < MaxCalls
    /\ \E o \in Ops(c) : arg' = [arg EXCEPT ![c] = o] /\ LocalPut(c, o)
    /\ calls' = calls + 1
    /\ fresh' = [fresh EXCEPT ![c] = @ /\ copy' = copy]
    /\ Goto(c, "load")
    /\ UNCHANGED <<gateVars, storage, query, answer, result>>

\* Or fails: no gate instance, or one that is gone; no other instance is tried.
gateServerFails(c) ==
    /\ pc[c] = "idle"
    /\ \E o \in Ops(c) : LocalPut(c, o)
    /\ copy' # copy
    /\ fresh' = [fresh EXCEPT ![c] = FALSE]
    /\ UNCHANGED <<gateVars, storage, pc, handling, calls>>

\* Mutant of update: settings that were removed stay in the copy.
update_Merges(c, a) ==
    copy' = [copy EXCEPT ![c].user = a.user,
                         ![c].settings = [k \in Keys |->
                             IF a.settings[k] = None THEN @[k] ELSE a.settings[k]]]

\* The answer overwrites the copy.
update(c, a) ==
    copy' = [copy EXCEPT ![c] = [of |-> @.of, user |-> a.user, settings |-> a.settings]]

\* The answer arrives: a session updates the copy, an error or a plain result not.
Return(c) ==
    /\ pc[c] = "answer"
    /\ Goto(c, "idle")
    /\ arg' = [arg EXCEPT ![c] = NoOp]
    /\ answer' = [answer EXCEPT ![c] = None]
    /\ result' = [result EXCEPT ![c] = None]
    /\ UNCHANGED <<gateVars, storage, query, calls>>

Deliver(c) ==
    /\ Return(c)
    /\ IF answer[c] = None THEN UNCHANGED copy ELSE update(c, answer[c])
    /\ UNCHANGED fresh

\* The answer arrives after the call's deadline, or not at all: the operation has
\* failed, its handler has run. (A caller starts no other operation before that.)
Timeout(c) ==
    /\ Return(c)
    /\ fresh' = [fresh EXCEPT ![c] = FALSE]
    /\ UNCHANGED copy

\* A call of the gate brings c the copy (Clone) of a session.
Receive(c, s) ==
    /\ pc[c] = "idle" /\ s \in inTable
    /\ copy' = [copy EXCEPT ![c] = [of |-> s, user |-> data[s].user,
                                    settings |-> data[s].settings]]
    /\ fresh' = [fresh EXCEPT ![c] = TRUE]
    /\ UNCHANGED <<gateVars, storage, pc, handling, calls>>

-----------------------------------------------------------------------------
(* The gate's side: gate_handler.go *)

\* The live session of c's copy becomes d; copies made before are no longer fresh.
Change(c, d) ==
    LET s == copy[c].of
    IN  /\ data' = [data EXCEPT ![s] = d]
        /\ fresh' = [e \in Callers |-> fresh[e] /\ (copy[e].of # s \/ d = data[s])]
        /\ UNCHANGED <<inTable, isclose>>

Live(c) == data[copy[c].of]

\* The handlers that are given a user or a list of sessions, or walk through the table.
OfTable == {"IsConnect", "SendBatch", "BroadCast"}

\* The others find the agent of the session, or answer that there is none.
Load(c) ==
    /\ pc[c] = "load"
    /\ Goto(c, IF copy[c].of \in inTable \/ arg[c].op \in OfTable THEN "handle" ELSE "answer")
    /\ UNCHANGED <<gateVars, storage, copy, handling, fresh, calls>>

HandleUpdate(c) ==
    /\ pc[c] = "handle" /\ arg[c].op = "Update"
    /\ Goto(c, "serialize")
    /\ UNCHANGED <<gateVars, storage, copy, handling, fresh, calls>>

HandleBind(c) ==
    /\ pc[c] = "handle" /\ arg[c].op = "Bind"
    /\ Change(c, [Live(c) EXCEPT !.user = arg[c].user])
    /\ Goto(c, "check")
    /\ UNCHANGED <<storage, copy, handling, calls>>

HandleUnBind(c) ==
    /\ pc[c] = "handle" /\ arg[c].op = "UnBind"
    /\ Change(c, [Live(c) EXCEPT !.user = NoUser])
    /\ Goto(c, "serialize")
    /\ UNCHANGED <<storage, copy, handling, calls>>

\* Push and Set put one key after the other, in any order.
HandlePut(c) ==
    /\ pc[c] = "handle" /\ arg[c].op \in {"Set", "Push", "SetBatch", "SetPush"}
    /\ \/ \E k \in Keys :
             /\ arg[c].put[k] # None
             /\ Change(c, [Live(c) EXCEPT !.settings[k] = arg[c].put[k]])
             /\ arg' = [arg EXCEPT ![c].put[k] = None]
             /\ UNCHANGED pc
       \/ /\ arg[c].put = Empty
          /\ Goto(c, "check")
          /\ UNCHANGED <<gateVars, arg, fresh>>
    /\ UNCHANGED <<storage, copy, query, answer, result, calls>>

\* Mutant of HandleRemove: the removal is not stored.
HandleRemove_NotStored(c) ==
    /\ pc[c] = "handle" /\ arg[c].op = "Remove"
    /\ Change(c, [Live(c) EXCEPT !.settings[arg[c].key] = None])
    /\ Goto(c, "serialize")
    /\ UNCHANGED <<storage, copy, handling, calls>>

HandleRemove(c) ==
    /\ pc[c] = "handle" /\ arg[c].op = "Remove"
    /\ Change(c, [Live(c) EXCEPT !.settings[arg[c].key] = None])
    /\ Goto(c, "check")
    /\ UNCHANGED <<storage, copy, handling, calls>>

\* WriteMsg to the client; the answer is no session.
HandleSend(c) ==
    /\ pc[c] = "handle" /\ arg[c].op = "Send"
    /\ Goto(c, "answer")
    /\ UNCHANGED <<gateVars, storage, copy, handling, fresh, calls>>

\* WriteMsg to the clients of the sessions given that are in the table, or of all in the
\* table; the number of those that did not fail is the answer (the number is left out).
HandleSendBatch(c) ==
    /\ pc[c] = "handle" /\ arg[c].op \in {"SendBatch", "BroadCast"}
    /\ Goto(c, "answer")
    /\ UNCHANGED <<gateVars, storage, copy, handling, fresh, calls>>

\* Close of the agent; Disconnect follows in its own time.
HandleClose(c) ==
    /\ pc[c] = "handle" /\ arg[c].op = "Close"
    /\ Goto(c, "answer")
    /\ UNCHANGED <<gateVars, storage, copy, handling, fresh, calls>>

\* The first session of the user the range meets decides: its agent is closed or not.
HandleIsConnect(c) ==
    /\ pc[c] = "handle" /\ arg[c].op = "IsConnect"
    /\ Goto(c, "answer")
    /\ LET found == {s \in inTable : data[s].user = arg[c].user}
       IN  \/ found = {} /\ UNCHANGED result
           \/ \E s \in found :
                 result' = [result EXCEPT ![c] = IF s \in isclose THEN "no" ELSE "yes"]
    /\ UNCHANGED <<gateVars, storage, copy, arg, query, answer, fresh, calls>>

\* The session is stored if there is a storage handler and it has a user now.
CheckUser(c) ==
    /\ pc[c] = "check"
    /\ Goto(c, IF ~HasStorage \/ Live(c).user = NoUser THEN "serialize"
               ELSE IF arg[c].op = "Bind" THEN "query" ELSE "storage")
    /\ UNCHANGED <<gateVars, storage, copy, handling, fresh, calls>>

\* Bind asks for what is stored under the user it was called with, if that succeeds,
Query(c) ==
    /\ pc[c] = "query"
    /\ \E q \in {stored[arg[c].user], None} : query' = [query EXCEPT ![c] = q]
    /\ Goto(c, "import")
    /\ UNCHANGED <<gateVars, storage, copy, arg, answer, result, fresh, calls>>

\* and takes over the keys the session does not have.
ImportSettings(c) ==
    /\ pc[c] = "import"
    /\ Change(c, IF query[c] = None THEN Live(c)
                 ELSE [Live(c) EXCEPT !.settings = [k \in Keys |->
                          IF @[k] = None THEN query[c][k] ELSE @[k]]])
    /\ query' = [query EXCEPT ![c] = None]
    /\ Goto(c, "storage")
    /\ UNCHANGED <<storage, copy, arg, answer, result, calls>>

\* Storage stores the live session under the user it has by then, or fails.
Storage(c) ==
    /\ pc[c] = "storage"
    /\ LET u == Live(c).user
       IN  \/ /\ stored' = [stored EXCEPT ![u] = Live(c).settings]
              /\ owner' = [owner EXCEPT ![u] = copy[c].of]
           \/ /\ owner' = [owner EXCEPT ![u] = None]
              /\ UNCHANGED stored
    /\ Goto(c, "serialize")
    /\ UNCHANGED <<gateVars, copy, handling, fresh, calls>>

\* The server serialises the live session into the answer.
Serializable(c) ==
    /\ pc[c] = "serialize"
    /\ answer' = [answer EXCEPT ![c] = Live(c)]
    /\ fresh' = [fresh EXCEPT ![c] = TRUE]
    /\ Goto(c, "answer")
    /\ UNCHANGED <<gateVars, storage, copy, arg, query, result, calls>>

\* The connection ends: the agent is closed, then leaves the table.
Disconnect(s) ==
    /\ IF s \in isclose THEN /\ s \in inTable /\ inTable' = inTable \ {s}
                             /\ UNCHANGED isclose
                        ELSE isclose' = isclose \cup {s} /\ UNCHANGED inTable
    /\ UNCHANGED <<data, storage, copy, pc, handling, fresh, calls>>

Handler(c) == \/ Load(c) \/ HandleUpdate(c) \/ HandleBind(c) \/ HandleUnBind(c)
              \/ HandlePut(c) \/ HandleRemove(c) \/ HandleSend(c) \/ HandleSendBatch(c)
              \/ HandleClose(c)
              \/ HandleIsConnect(c) \/ CheckUser(c) \/ Query(c) \/ ImportSettings(c)
              \/ Storage(c) \/ Serializable(c)

Next == \/ \E c \in Callers : \/ Handler(c) \/ Invoke(c) \/ gateServerFails(c)
                              \/ Deliver(c) \/ Timeout(c)
                              \/ \E s \in Sessions : Receive(c, s)
        \/ \E s \in Sessions : Disconnect(s)

Spec == Init /\ [][Next]_vars

-----------------------------------------------------------------------------
(* Properties *)

Quiet(s) == \A c \in Callers : copy[c].of = s => pc[c] \in {"idle", "load", "answer"}

\* However Bind, UnBind, Push, Set and Remove of several back ends interleave: when
\* no handler works on a session, what is stored under its user is what the session
\* holds, if it was the last to be stored there.
StoredIsCurrent ==
    HasStorage => \A s \in inTable : LET u == data[s].user IN
        Quiet(s) /\ u # NoUser /\ owner[u] = s => stored[u] = data[s].settings

\* A copy that was answered, or received, is the live session until somebody changes
\* that: an operation whose deadline did not pass leaves nothing stale in the copy.
CopyIsSession ==
    \A c \in Callers : pc[c] = "idle" /\ fresh[c] =>
        /\ copy[c].user = data[copy[c].of].user
        /\ copy[c].settings = data[copy[c].of].settings
=============================================================================
