----------------------------- MODULE GateProofs -----------------------------
(***************************************************************************)
(* Proofs about the gate: its sessions, their copies and their storage     *)
(* (GateSession), its connections, table and count (GateAgents), and the   *)
(* requests of a client and their answers (GateRequest).                   *)
(***************************************************************************)
EXTENDS GateSession, GateAgents, GateRequest, FiniteSetTheorems, TLAPS

-----------------------------------------------------------------------------
(* The sessions *)

Puts == {"Set", "Push", "SetBatch", "SetPush"}

\* The handler of c has changed the session, or may yet do so, and will store it.
WillStore(c) == \/ pc[c] \in {"check", "query", "import", "storage"}
                \/ pc[c] = "handle" /\ arg[c].op \in Puts

\* What the session holds and what is stored under its user differ only while a
\* handler is on its way to storing the session.
StoredInv ==
    HasStorage => \A s \in Sessions :
        /\ data[s].user # NoUser
        /\ owner[data[s].user] = s
        /\ stored[data[s].user] # data[s].settings
        => \E c \in Callers : copy[c].of = s /\ WillStore(c)

\* A fresh answer on its way, or else a fresh copy, is the live session.
FreshInv ==
    \A c \in Callers :
        /\ answer[c] # None => pc[c] = "answer"
        /\ fresh[c] /\ answer[c] # None => answer[c] = data[copy[c].of]
        /\ fresh[c] /\ answer[c] = None =>
              /\ copy[c].user = data[copy[c].of].user
              /\ copy[c].settings = data[copy[c].of].settings

SessionInv == TypeOK /\ StoredInv /\ FreshInv

USE ConstAssumption DEF ConstAssumption, gateVars, storage, handling, vars, Puts

LEMMA SessionInitInv == Init => SessionInv
<1> SUFFICES ASSUME Init PROVE SessionInv
  OBVIOUS
<1>1. Empty \in Settings /\ NoOp \in AnyOp
  BY DEF Empty, Settings, NoOp, Op, AnyOp, AnyUser
<1>2. data \in [Sessions -> Snapshots]
  BY <1>1 DEF Init, Snapshots
<1>3. PICK f \in [Callers -> Sessions] :
          copy = [c \in Callers |-> [of |-> f[c], user |-> data[f[c]].user, settings |-> Empty]]
  BY DEF Init
<1>4. copy \in [Callers -> [of : Sessions, user : AnyUser, settings : Settings]]
  BY <1>1, <1>2, <1>3 DEF Snapshots
<1>5. fresh \in [Callers -> BOOLEAN]
  BY Zenon DEF Init
<1>6. TypeOK
  BY <1>1, <1>2, <1>4, <1>5 DEF Init, TypeOK
<1>7. StoredInv
  BY <1>2 DEF Init, StoredInv, Snapshots
<1>8. FreshInv
  BY <1>3 DEF Init, FreshInv
<1> QED  BY <1>6, <1>7, <1>8 DEF SessionInv

-----------------------------------------------------------------------------
(* What keeps the parts of the invariant *)

\* The sessions and the storage stay as they are, and so do the handlers that will store.
LEMMA StoredKept ==
    ASSUME SessionInv, UNCHANGED <<data, stored, owner>>,
           \A c \in Callers : WillStore(c) => copy'[c].of = copy[c].of /\ WillStore(c)'
    PROVE  StoredInv'
<1> QED  BY DEF SessionInv, StoredInv

\* A handler changes its session and will store it, unless the session has no user.
LEMMA StoredChanged ==
    ASSUME SessionInv, NEW c \in Callers, NEW d \in Snapshots,
           data' = [data EXCEPT ![copy[c].of] = d],
           UNCHANGED <<copy, stored, owner>>,
           \A e \in Callers : WillStore(e) => WillStore(e)',
           d.user = NoUser \/ WillStore(c)'
    PROVE  StoredInv'
<1> SUFFICES ASSUME HasStorage, NEW s \in Sessions, data'[s].user # NoUser,
                    owner[data'[s].user] = s, stored[data'[s].user] # data'[s].settings
             PROVE  \E e \in Callers : copy[e].of = s /\ WillStore(e)'
  BY DEF StoredInv
<1>1. CASE s = copy[c].of
  BY <1>1 DEF SessionInv, TypeOK
<1>2. CASE s # copy[c].of
  <2>1. data'[s] = data[s]
    BY <1>2 DEF SessionInv, TypeOK
  <2>2. PICK e \in Callers : copy[e].of = s /\ WillStore(e)
    BY <2>1 DEF SessionInv, StoredInv
  <2> QED  BY <2>2
<1> QED  BY <1>1, <1>2

LEMMA FreshKept ==
    ASSUME SessionInv, UNCHANGED <<data, copy, answer, fresh>>,
           \A c \in Callers : pc[c] = "answer" => pc'[c] = "answer"
    PROVE  FreshInv'
<1> QED  BY DEF SessionInv, FreshInv

\* A session that changes leaves no copy and no answer of it fresh.
LEMMA FreshChanged ==
    ASSUME SessionInv, NEW c \in Callers, NEW d \in Snapshots, Change(c, d),
           UNCHANGED <<copy, answer>>,
           \A e \in Callers : pc[e] = "answer" => pc'[e] = "answer"
    PROVE  FreshInv' /\ fresh' \in [Callers -> BOOLEAN]
<1>1. fresh' \in [Callers -> BOOLEAN]
  <2>1. fresh' = [e \in Callers |-> fresh[e] /\ (copy[e].of # copy[c].of \/ d = data[copy[c].of])]
    BY DEF Change
  <2> QED  BY <2>1, Zenon
<1>2. ASSUME NEW e \in Callers, fresh'[e]
      PROVE  fresh[e] /\ data'[copy[e].of] = data[copy[e].of]
  BY <1>2 DEF Change, SessionInv, TypeOK
<1>3. FreshInv'
  BY <1>2 DEF SessionInv, FreshInv
<1> QED  BY <1>1, <1>3

\* The types after a step within the handler of c
LEMMA HandlerTypes ==
    ASSUME TypeOK, NEW c \in Callers,
           NEW l \in {"handle", "check", "query", "import", "storage", "serialize", "answer"},
           pc' = pc \/ pc' = [pc EXCEPT ![c] = l],
           data' \in [Sessions -> Snapshots], arg' \in [Callers -> AnyOp],
           query' \in [Callers -> Settings \cup {None}],
           answer' \in [Callers -> Snapshots \cup {None}],
           result' \in [Callers -> {None, "yes", "no"}],
           stored' \in [AnyUser -> Settings \cup {None}],
           owner' \in [AnyUser -> Sessions \cup {None}],
           fresh' \in [Callers -> BOOLEAN],
           UNCHANGED <<inTable, isclose, copy, calls>>
    PROVE  TypeOK'
<1>1. pc' \in [Callers -> {"idle", "load", "handle", "check", "query", "import",
                           "storage", "serialize", "answer"}]
  BY DEF TypeOK
<1> QED  BY <1>1 DEF TypeOK

-----------------------------------------------------------------------------
(* The handlers of the gate *)

\* The steps that only read the session
Reads(c) == \/ Load(c) \/ HandleUpdate(c) \/ HandleSend(c) \/ HandleSendBatch(c)
            \/ HandleClose(c) \/ HandleIsConnect(c)

LEMMA ReadsInv == ASSUME SessionInv, NEW c \in Callers, Reads(c) PROVE SessionInv'
<1> USE DEF Reads, Load, HandleUpdate, HandleSend, HandleSendBatch, HandleClose,
            HandleIsConnect, Goto
<1>1. PICK l \in {"handle", "serialize", "answer"} : pc' = [pc EXCEPT ![c] = l]
  OBVIOUS
<1>2. UNCHANGED <<data, inTable, isclose, stored, owner, copy, arg, query, answer, fresh, calls>>
  OBVIOUS
<1>3. result' \in [Callers -> {None, "yes", "no"}]
  BY DEF SessionInv, TypeOK
<1>4. pc[c] # "answer" /\ ~WillStore(c)
  BY DEF WillStore
<1>5. TypeOK'
  BY <1>1, <1>2, <1>3, HandlerTypes DEF SessionInv, TypeOK
<1>6. StoredInv'
  <2>1. ASSUME NEW e \in Callers, WillStore(e) PROVE WillStore(e)'
    BY <1>1, <1>2, <1>4, <2>1 DEF SessionInv, TypeOK, WillStore
  <2> QED  BY <1>2, <2>1, StoredKept
<1>7. FreshInv'
  BY <1>1, <1>2, <1>4, FreshKept DEF SessionInv, TypeOK
<1> QED  BY <1>5, <1>6, <1>7 DEF SessionInv

\* The steps that change the live session under its lock; what becomes of the handler
Changes(c) == HandleBind(c) \/ HandleUnBind(c) \/ HandleRemove(c) \/ ImportSettings(c)

LEMMA ChangesInv == ASSUME SessionInv, NEW c \in Callers, Changes(c) PROVE SessionInv'
<1> USE DEF Changes, Goto
<1>1. Live(c) \in Snapshots /\ copy[c].of \in Sessions /\ arg[c] \in AnyOp
  BY DEF SessionInv, TypeOK, Live
<1>2. PICK d \in Snapshots, l \in {"check", "storage", "serialize"} :
          Change(c, d) /\ pc' = [pc EXCEPT ![c] = l] /\ (l = "serialize" => d.user = NoUser)
  <2>1. CASE HandleBind(c)
    <3>1. [Live(c) EXCEPT !.user = arg[c].user] \in Snapshots
      BY <1>1 DEF Snapshots, AnyOp
    <3> QED  BY <2>1, <3>1 DEF HandleBind
  <2>2. CASE HandleUnBind(c)
    <3>1. /\ [Live(c) EXCEPT !.user = NoUser] \in Snapshots
          /\ [Live(c) EXCEPT !.user = NoUser].user = NoUser
      BY <1>1 DEF Snapshots, AnyUser
    <3> QED  BY <2>2, <3>1 DEF HandleUnBind
  <2>3. CASE HandleRemove(c)
    <3>1. [Live(c) EXCEPT !.settings[arg[c].key] = None] \in Snapshots
      BY <1>1 DEF Snapshots, Settings
    <3> QED  BY <2>3, <3>1 DEF HandleRemove
  <2>4. CASE ImportSettings(c)
    <3>1. query[c] \in Settings \cup {None}
      BY DEF SessionInv, TypeOK
    <3>2. ASSUME query[c] # None
          PROVE  [Live(c) EXCEPT !.settings = [k \in Keys |->
                      IF @[k] = None THEN query[c][k] ELSE @[k]]] \in Snapshots
      BY <1>1, <3>1, <3>2 DEF Snapshots, Settings
    <3> QED  BY <1>1, <2>4, <3>2 DEF ImportSettings
  <2> QED  BY <2>1, <2>2, <2>3, <2>4
<1>3. UNCHANGED <<stored, owner, copy, arg, answer, result, calls>>
  BY DEF HandleBind, HandleUnBind, HandleRemove, ImportSettings
<1>4. pc[c] \in {"handle", "import"} /\ (pc[c] = "handle" => arg[c].op \notin Puts)
  BY DEF HandleBind, HandleUnBind, HandleRemove, ImportSettings
<1>5. query' \in [Callers -> Settings \cup {None}]
  BY DEF HandleBind, HandleUnBind, HandleRemove, ImportSettings, SessionInv, TypeOK
<1>6. data' = [data EXCEPT ![copy[c].of] = d] /\ UNCHANGED <<inTable, isclose>>
  BY <1>2 DEF Change
<1>7. FreshInv' /\ fresh' \in [Callers -> BOOLEAN]
  BY <1>2, <1>3, <1>4, FreshChanged DEF SessionInv, TypeOK
<1>8. TypeOK'
  BY <1>1, <1>2, <1>3, <1>5, <1>6, <1>7, HandlerTypes DEF SessionInv, TypeOK
<1>9. StoredInv'
  <2>1. ASSUME l = "serialize" PROVE ~WillStore(c)
    BY <1>2, <2>1 DEF HandleBind, HandleUnBind, HandleRemove, ImportSettings, WillStore,
                      SessionInv, TypeOK
  <2>2. ASSUME NEW e \in Callers, WillStore(e) PROVE WillStore(e)'
    BY <1>2, <1>3, <2>1, <2>2 DEF SessionInv, TypeOK, WillStore
  <2>3. d.user = NoUser \/ WillStore(c)'
    BY <1>2 DEF SessionInv, TypeOK, WillStore
  <2> QED  BY <1>3, <1>6, <2>2, <2>3, StoredChanged
<1> QED  BY <1>7, <1>8, <1>9 DEF SessionInv

\* Push and Set change one key after the other and will store when they are through.
LEMMA PutInv == ASSUME SessionInv, NEW c \in Callers, HandlePut(c) PROVE SessionInv'
<1> USE DEF HandlePut, Goto
<1>1. Live(c) \in Snapshots /\ copy[c].of \in Sessions /\ arg[c] \in AnyOp
  BY DEF SessionInv, TypeOK, Live
<1>2. UNCHANGED <<stored, owner, copy, query, answer, result, calls>>
  OBVIOUS
<1>3. pc[c] = "handle" /\ arg[c].op \in Puts
  OBVIOUS
<1>4. ASSUME NEW k \in Keys, arg[c].put[k] # None,
             Change(c, [Live(c) EXCEPT !.settings[k] = arg[c].put[k]]),
             arg' = [arg EXCEPT ![c].put[k] = None], UNCHANGED pc
      PROVE  SessionInv'
  <2> DEFINE d == [Live(c) EXCEPT !.settings[k] = arg[c].put[k]]
  <2>1. d \in Snapshots
    BY <1>1, <1>4 DEF Snapshots, Settings, AnyOp
  <2>2. data' = [data EXCEPT ![copy[c].of] = d] /\ UNCHANGED <<inTable, isclose>>
    BY <1>4 DEF Change
  <2>3. arg' \in [Callers -> AnyOp] /\ \A e \in Callers : arg'[e].op = arg[e].op
    BY <1>1, <1>4 DEF SessionInv, TypeOK, AnyOp, Settings
  <2>4. FreshInv' /\ fresh' \in [Callers -> BOOLEAN]
    BY <1>2, <1>4, <2>1, FreshChanged
  <2>5. TypeOK'
    BY <1>1, <1>2, <1>4, <2>1, <2>2, <2>3, <2>4, HandlerTypes DEF SessionInv, TypeOK
  <2>6. \A e \in Callers : WillStore(e) => WillStore(e)'
    BY <1>4, <2>3 DEF WillStore
  <2>7. WillStore(c)'
    BY <1>3, <1>4, <2>3 DEF WillStore
  <2>8. StoredInv'
    BY <1>2, <2>1, <2>2, <2>6, <2>7, StoredChanged
  <2> QED  BY <2>4, <2>5, <2>8 DEF SessionInv
<1>5. CASE pc' = [pc EXCEPT ![c] = "check"] /\ UNCHANGED <<gateVars, arg, fresh>>
  <2>1. TypeOK'
    BY <1>2, <1>5, HandlerTypes DEF SessionInv, TypeOK
  <2>2. \A e \in Callers : WillStore(e) => WillStore(e)'
    BY <1>5 DEF SessionInv, TypeOK, WillStore
  <2>3. StoredInv'
    BY <1>2, <1>5, <2>2, StoredKept
  <2>4. FreshInv'
    BY <1>2, <1>3, <1>5, FreshKept DEF SessionInv, TypeOK
  <2> QED  BY <2>1, <2>3, <2>4 DEF SessionInv
<1> QED  BY <1>4, <1>5

\* A session without a user need not be stored.
LEMMA CheckInv == ASSUME SessionInv, NEW c \in Callers, CheckUser(c) PROVE SessionInv'
<1> USE DEF CheckUser, Goto
<1>1. PICK l \in {"serialize", "query", "storage"} : pc' = [pc EXCEPT ![c] = l]
  OBVIOUS
<1>2. UNCHANGED <<data, inTable, isclose, stored, owner, copy, arg, query, answer, result,
                  fresh, calls>>
  OBVIOUS
<1>3. TypeOK'
  BY <1>1, <1>2, HandlerTypes DEF SessionInv, TypeOK
<1>4. StoredInv'
  <2> SUFFICES ASSUME HasStorage, NEW s \in Sessions, data[s].user # NoUser,
                      owner[data[s].user] = s, stored[data[s].user] # data[s].settings
               PROVE  \E e \in Callers : copy[e].of = s /\ WillStore(e)'
    BY <1>2 DEF StoredInv
  <2>1. PICK e \in Callers : copy[e].of = s /\ WillStore(e)
    BY DEF SessionInv, StoredInv
  <2>2. WillStore(e)'
    BY <1>1, <1>2, <2>1 DEF SessionInv, TypeOK, WillStore, Live
  <2> QED  BY <2>1, <2>2
<1>5. FreshInv'
  BY <1>1, <1>2, FreshKept DEF SessionInv, TypeOK
<1> QED  BY <1>3, <1>4, <1>5 DEF SessionInv

LEMMA QueryInv == ASSUME SessionInv, NEW c \in Callers, Query(c) PROVE SessionInv'
<1> USE DEF Query, Goto
<1>1. query' \in [Callers -> Settings \cup {None}]
  BY DEF SessionInv, TypeOK, AnyOp
<1>2. UNCHANGED <<data, inTable, isclose, stored, owner, copy, arg, answer, result, fresh, calls>>
  OBVIOUS
<1>3. TypeOK'
  BY <1>1, <1>2, HandlerTypes DEF SessionInv, TypeOK
<1>4. \A e \in Callers : WillStore(e) => WillStore(e)'
  BY <1>2 DEF SessionInv, TypeOK, WillStore
<1>5. StoredInv'
  BY <1>2, <1>4, StoredKept
<1>6. FreshInv'
  BY <1>2, FreshKept DEF SessionInv, TypeOK
<1> QED  BY <1>3, <1>5, <1>6 DEF SessionInv

\* What is stored is what the session holds; after a failure nobody is the last to
\* have stored there.
LEMMA StorageInv == ASSUME SessionInv, NEW c \in Callers, Storage(c) PROVE SessionInv'
<1> USE DEF Storage, Goto
<1>1. /\ copy[c].of \in Sessions /\ Live(c) = data[copy[c].of]
      /\ Live(c).user \in AnyUser /\ Live(c).settings \in Settings
  BY DEF SessionInv, TypeOK, Live, Snapshots
<1>2. UNCHANGED <<data, inTable, isclose, copy, arg, query, answer, result, fresh, calls>>
  OBVIOUS
<1>3. TypeOK'
  BY <1>1, <1>2, HandlerTypes DEF SessionInv, TypeOK
<1>4. StoredInv'
  <2> SUFFICES ASSUME HasStorage, NEW s \in Sessions, data[s].user # NoUser,
                      owner'[data[s].user] = s, stored'[data[s].user] # data[s].settings
               PROVE  \E e \in Callers : copy[e].of = s /\ WillStore(e)'
    BY <1>2 DEF StoredInv
  <2>1. data[s].user \in AnyUser
    BY DEF SessionInv, TypeOK, Snapshots
  <2>2. data[s].user # Live(c).user
    BY <1>1, <2>1 DEF SessionInv, TypeOK
  <2>3. owner[data[s].user] = s /\ stored[data[s].user] # data[s].settings
    BY <2>1, <2>2 DEF SessionInv, TypeOK
  <2>4. PICK e \in Callers : copy[e].of = s /\ WillStore(e)
    BY <2>3 DEF SessionInv, StoredInv
  <2>5. e # c
    BY <1>1, <2>2, <2>4
  <2> QED  BY <1>2, <2>4, <2>5 DEF SessionInv, TypeOK, WillStore
<1>5. FreshInv'
  BY <1>2, FreshKept DEF SessionInv, TypeOK
<1> QED  BY <1>3, <1>4, <1>5 DEF SessionInv

\* The answer is the live session as it is now.
LEMMA SerializeInv == ASSUME SessionInv, NEW c \in Callers, Serializable(c) PROVE SessionInv'
<1> USE DEF Serializable, Goto
<1>1. Live(c) = data[copy[c].of] /\ Live(c) \in Snapshots
  BY DEF SessionInv, TypeOK, Live
<1>2. answer' \in [Callers -> Snapshots \cup {None}]
  BY <1>1 DEF SessionInv, TypeOK
<1>3. fresh' \in [Callers -> BOOLEAN]
  BY Zenon DEF SessionInv, TypeOK
<1>4. UNCHANGED <<data, inTable, isclose, stored, owner, copy, arg, query, result, calls>>
  OBVIOUS
<1>5. TypeOK'
  BY <1>2, <1>3, <1>4, HandlerTypes DEF SessionInv, TypeOK
<1>6. \A e \in Callers : WillStore(e) => WillStore(e)'
  BY <1>4 DEF SessionInv, TypeOK, WillStore
<1>7. StoredInv'
  BY <1>4, <1>6, StoredKept
<1>8. FreshInv'
  BY <1>1, <1>4 DEF SessionInv, TypeOK, FreshInv
<1> QED  BY <1>5, <1>7, <1>8 DEF SessionInv

-----------------------------------------------------------------------------
(* The callers, and the end of a connection *)

Copies == [of : Sessions, user : AnyUser, settings : Settings]

LEMMA OpsTyped == ASSUME TypeOK, NEW c \in Callers PROVE Ops(c) \subseteq AnyOp
<1>1. copy[c].settings \in Settings
  BY DEF TypeOK
<1>3. Empty \in Settings /\ NoUser \in AnyUser
  BY DEF Empty, Settings, AnyUser
<1>4. /\ UpdateOps \subseteq AnyOp /\ BindOps \subseteq AnyOp /\ UnBindOps \subseteq AnyOp
      /\ RemoveOps \subseteq AnyOp /\ SendOps \subseteq AnyOp /\ SendBatchOps \subseteq AnyOp
      /\ BroadCastOps \subseteq AnyOp /\ IsConnectOps \subseteq AnyOp /\ CloseOps \subseteq AnyOp
  BY <1>3 DEF UpdateOps, BindOps, UnBindOps, RemoveOps, SendOps, SendBatchOps, BroadCastOps,
              IsConnectOps, CloseOps, Op, AnyOp
<1>5. PushOps(c) \subseteq AnyOp /\ SetBatchOps \subseteq AnyOp
  BY <1>1, <1>3 DEF PushOps, SetBatchOps, Op, AnyOp
<1>6. SetOps \subseteq AnyOp /\ SetPushOps(c) \subseteq AnyOp
  BY <1>1, <1>3 DEF SetOps, SetPushOps, With, Op, AnyOp
<1> QED  BY <1>4, <1>5, <1>6 DEF Ops

\* Only SetPush writes to the copy, and only its settings.
LEMMA LocalPutTyped ==
    ASSUME TypeOK, NEW c \in Callers, NEW o \in Ops(c), LocalPut(c, o)
    PROVE  /\ copy' \in [Callers -> Copies]
           /\ \A e \in Callers : copy'[e].of = copy[e].of /\ (e # c => copy'[e] = copy[e])
<1>1. o.put \in Settings
  BY OpsTyped DEF AnyOp
<1>2. copy \in [Callers -> Copies]
  BY DEF TypeOK, Copies
<1>3. CASE o.op = "SetPush"
  <2>1. copy' = [copy EXCEPT ![c] = [copy[c] EXCEPT !.settings = o.put]]
    BY <1>3 DEF LocalPut
  <2>2. /\ [copy[c] EXCEPT !.settings = o.put] \in Copies
        /\ [copy[c] EXCEPT !.settings = o.put].of = copy[c].of
    BY <1>1, <1>2 DEF Copies
  <2> QED  BY <1>2, <2>1, <2>2
<1>4. CASE o.op # "SetPush"
  BY <1>2, <1>4 DEF LocalPut
<1> QED  BY <1>3, <1>4

LEMMA InvokeInv == ASSUME SessionInv, NEW c \in Callers, Invoke(c) PROVE SessionInv'
<1> USE DEF Invoke, Goto
<1>1. PICK o \in Ops(c) : arg' = [arg EXCEPT ![c] = o] /\ LocalPut(c, o)
  OBVIOUS
<1>2. o \in AnyOp
  BY OpsTyped DEF SessionInv
<1>3. /\ copy' \in [Callers -> Copies]
      /\ \A e \in Callers : copy'[e].of = copy[e].of /\ (e # c => copy'[e] = copy[e])
  BY <1>1, LocalPutTyped DEF SessionInv
<1>4. UNCHANGED <<data, inTable, isclose, stored, owner, query, answer, result>>
  OBVIOUS
<1>5. fresh' \in [Callers -> BOOLEAN]
  BY Zenon DEF SessionInv, TypeOK
<1>6. TypeOK'
  <2>1. arg' \in [Callers -> AnyOp] /\ calls' \in 0..MaxCalls
    BY <1>1, <1>2 DEF SessionInv, TypeOK
  <2>2. pc' \in [Callers -> {"idle", "load", "handle", "check", "query", "import",
                             "storage", "serialize", "answer"}]
    BY DEF SessionInv, TypeOK
  <2> QED  BY <1>3, <1>4, <1>5, <2>1, <2>2 DEF SessionInv, TypeOK, Copies
<1>7. StoredInv'
  <2>1. ASSUME NEW e \in Callers, WillStore(e) PROVE copy'[e].of = copy[e].of /\ WillStore(e)'
    BY <1>1, <1>3, <2>1 DEF SessionInv, TypeOK, WillStore
  <2> QED  BY <1>4, <2>1, StoredKept
<1>8. FreshInv'
  <2>1. ASSUME NEW e \in Callers, fresh'[e] PROVE fresh[e] /\ copy'[e] = copy[e]
    BY <1>3, <2>1 DEF SessionInv, TypeOK
  <2>2. answer[c] = None
    BY DEF SessionInv, FreshInv
  <2>3. \A e \in Callers : answer[e] # None => pc'[e] = "answer"
    BY <2>2 DEF SessionInv, TypeOK, FreshInv
  <2> QED  BY <1>4, <2>1, <2>3 DEF SessionInv, FreshInv
<1> QED  BY <1>6, <1>7, <1>8 DEF SessionInv

LEMMA FailsInv == ASSUME SessionInv, NEW c \in Callers, gateServerFails(c) PROVE SessionInv'
<1> USE DEF gateServerFails
<1>1. PICK o \in Ops(c) : LocalPut(c, o)
  OBVIOUS
<1>2. /\ copy' \in [Callers -> Copies]
      /\ \A e \in Callers : copy'[e].of = copy[e].of /\ (e # c => copy'[e] = copy[e])
  BY <1>1, LocalPutTyped DEF SessionInv
<1>3. fresh' \in [Callers -> BOOLEAN]
  BY Zenon DEF SessionInv, TypeOK
<1>4. UNCHANGED <<data, inTable, isclose, stored, owner, pc, arg, query, answer, result, calls>>
  OBVIOUS
<1>5. TypeOK'
  BY <1>2, <1>3, <1>4 DEF SessionInv, TypeOK, Copies
<1>6. StoredInv'
  BY <1>2, <1>4, StoredKept DEF WillStore
<1>7. FreshInv'
  BY <1>2, <1>4 DEF SessionInv, TypeOK, FreshInv
<1> QED  BY <1>5, <1>6, <1>7 DEF SessionInv

\* The answer is delivered, or comes too late: then the copy is not fresh.
LEMMA ReturnInv == ASSUME SessionInv, NEW c \in Callers, Deliver(c) \/ Timeout(c) PROVE SessionInv'
<1> USE DEF Deliver, Timeout, Return, Goto
<1>1. UNCHANGED <<data, inTable, isclose, stored, owner, query, calls>>
  OBVIOUS
<1>2. /\ copy' \in [Callers -> Copies]
      /\ \A e \in Callers : copy'[e].of = copy[e].of /\ (e # c => copy'[e] = copy[e])
  <2>1. CASE UNCHANGED copy
    BY <2>1 DEF SessionInv, TypeOK, Copies
  <2>2. CASE answer[c] # None /\ update(c, answer[c])
    <3>1. answer[c].user \in AnyUser /\ answer[c].settings \in Settings
      BY <2>2 DEF SessionInv, TypeOK, Snapshots
    <3>2. copy[c] \in Copies
      BY DEF SessionInv, TypeOK, Copies
    <3>3. copy' = [copy EXCEPT ![c] = [of |-> copy[c].of, user |-> answer[c].user,
                                       settings |-> answer[c].settings]]
      BY <2>2, <3>2 DEF SessionInv, TypeOK, Copies, update
    <3> QED  BY <3>1, <3>2, <3>3 DEF SessionInv, TypeOK, Copies
  <2> QED  BY <2>1, <2>2
<1>3. fresh' \in [Callers -> BOOLEAN]
  BY Zenon DEF SessionInv, TypeOK
<1>4. NoOp \in AnyOp
  BY DEF NoOp, Op, AnyOp, AnyUser, Empty, Settings
<1>5. TypeOK'
  <2>1. arg' \in [Callers -> AnyOp]
    BY <1>4 DEF SessionInv, TypeOK
  <2>3. answer' \in [Callers -> Snapshots \cup {None}]
    BY DEF SessionInv, TypeOK
  <2>4. result' \in [Callers -> {None, "yes", "no"}]
    BY DEF SessionInv, TypeOK
  <2>2. pc' \in [Callers -> {"idle", "load", "handle", "check", "query", "import",
                             "storage", "serialize", "answer"}]
    BY DEF SessionInv, TypeOK
  <2> QED  BY <1>1, <1>2, <1>3, <2>1, <2>2, <2>3, <2>4 DEF SessionInv, TypeOK, Copies
<1>6. StoredInv'
  <2>1. ASSUME NEW e \in Callers, WillStore(e) PROVE copy'[e].of = copy[e].of /\ WillStore(e)'
    BY <1>2, <2>1 DEF SessionInv, TypeOK, WillStore
  <2> QED  BY <1>1, <2>1, StoredKept
<1>7. FreshInv'
  <2>1. ASSUME NEW e \in Callers, e # c
        PROVE  /\ copy'[e] = copy[e] /\ answer'[e] = answer[e] /\ pc'[e] = pc[e]
               /\ fresh'[e] = fresh[e]
    BY <1>2, <2>1 DEF SessionInv, TypeOK
  <2>2. answer'[c] = None
    BY DEF SessionInv, TypeOK
  <2>3. ASSUME fresh'[c]
        PROVE  /\ copy'[c].user = data[copy[c].of].user
               /\ copy'[c].settings = data[copy[c].of].settings
    <3>1. Deliver(c) /\ fresh[c]
      BY <2>3 DEF SessionInv, TypeOK
    <3> QED  BY <3>1 DEF SessionInv, TypeOK, FreshInv, update
  <2> QED  BY <1>1, <1>2, <2>1, <2>2, <2>3 DEF SessionInv, FreshInv
<1> QED  BY <1>5, <1>6, <1>7 DEF SessionInv

LEMMA ReceiveInv ==
    ASSUME SessionInv, NEW c \in Callers, NEW s \in Sessions, Receive(c, s) PROVE SessionInv'
<1> USE DEF Receive
<1>1. UNCHANGED <<data, inTable, isclose, stored, owner, pc, arg, query, answer, result, calls>>
  OBVIOUS
<1>2. copy' \in [Callers -> Copies]
  BY DEF SessionInv, TypeOK, Snapshots, Copies
<1>3. fresh' \in [Callers -> BOOLEAN]
  BY Zenon DEF SessionInv, TypeOK
<1>4. TypeOK'
  BY <1>1, <1>2, <1>3 DEF SessionInv, TypeOK, Copies
<1>5. StoredInv'
  <2>1. ASSUME NEW e \in Callers, WillStore(e) PROVE copy'[e].of = copy[e].of /\ WillStore(e)'
    BY <1>1, <2>1 DEF SessionInv, TypeOK, WillStore
  <2> QED  BY <1>1, <2>1, StoredKept
<1>6. FreshInv'
  BY <1>1 DEF SessionInv, TypeOK, FreshInv
<1> QED  BY <1>4, <1>5, <1>6 DEF SessionInv

LEMMA DisconnectInv == ASSUME SessionInv, NEW s \in Sessions, Disconnect(s) PROVE SessionInv'
<1> USE DEF Disconnect
<1>1. UNCHANGED <<data, stored, owner, copy, pc, arg, query, answer, result, fresh, calls>>
  OBVIOUS
<1>2. TypeOK'
  BY <1>1 DEF SessionInv, TypeOK
<1>3. StoredInv' /\ FreshInv'
  BY <1>1, StoredKept, FreshKept DEF WillStore
<1> QED  BY <1>2, <1>3 DEF SessionInv

LEMMA SessionStepInv == SessionInv /\ [Next]_vars => SessionInv'
<1> SUFFICES ASSUME SessionInv, [Next]_vars PROVE SessionInv'
  OBVIOUS
<1>1. ASSUME NEW c \in Callers, Handler(c) PROVE SessionInv'
  BY <1>1, ReadsInv, ChangesInv, PutInv, CheckInv, QueryInv, StorageInv, SerializeInv
     DEF Handler, Reads, Changes
<1>2. ASSUME NEW c \in Callers,
             \/ Invoke(c) \/ gateServerFails(c) \/ Deliver(c) \/ Timeout(c)
             \/ \E s \in Sessions : Receive(c, s)
      PROVE  SessionInv'
  BY <1>2, InvokeInv, FailsInv, ReturnInv, ReceiveInv
<1>3. ASSUME NEW s \in Sessions, Disconnect(s) PROVE SessionInv'
  BY <1>3, DisconnectInv
<1>4. CASE UNCHANGED vars
  <2>1. TypeOK'
    BY <1>4 DEF SessionInv, TypeOK
  <2> QED  BY <1>4, <2>1, StoredKept, FreshKept DEF SessionInv, WillStore
<1> QED  BY <1>1, <1>2, <1>3, <1>4 DEF Next

\* The inductive invariant of the sessions
THEOREM SessionInvariance == Spec => []SessionInv
<1> QED  BY SessionInitInv, SessionStepInv, PTL DEF Spec

\* In every behaviour the variables of the sessions have their types.
THEOREM SessionTypeCorrect == Spec => []TypeOK
<1>1. SessionInv => TypeOK
  BY DEF SessionInv
<1> QED  BY <1>1, SessionInvariance, PTL

\* When no handler works on a session, what was stored for it last is what it holds,
\* however the operations of any number of back ends interleave.
THEOREM StorageCurrent == Spec => []StoredIsCurrent
<1>1. SessionInv => StoredIsCurrent
  BY DEF SessionInv, TypeOK, StoredInv, StoredIsCurrent, Quiet, WillStore
<1> QED  BY <1>1, SessionInvariance, PTL

\* A copy nobody's change and no deadline has made stale is the live session.
THEOREM CopiesCurrent == Spec => []CopyIsSession
<1>1. SessionInv => CopyIsSession
  BY DEF SessionInv, TypeOK, FreshInv, CopyIsSession
<1> QED  BY <1>1, SessionInvariance, PTL

-----------------------------------------------------------------------------
(* The connections *)

\* The connections agentNum counts
Online == {c \in Conns :
              /\ protocolOK[c]
              /\ place[c] \in {"listen", "stuck", "ran", "onclose", "delete", "uncount"}}

\* What the goroutine of a connection has done so far is in its agent.
AgentInv ==
    \A c \in Conns :
        /\ place[c] \in {"idle", "accepted", "handshake", "ack"} => ~protocolOK[c]
        /\ place[c] \in {"store", "count", "listen", "stuck", "uncount"} => protocolOK[c]
        /\ place[c] \in {"ack", "store", "count", "listen", "stuck"} => session[c]
        /\ protocolOK[c] => session[c]

EntriesInv ==
    /\ \A c \in sessions : place[c] \in Entered \cup Leaving /\ protocolOK[c]
    /\ main = "serve" => \A c \in Conns : place[c] \in Entered => c \in sessions

CountInv == IsFiniteSet(Online) /\ agentNum = Cardinality(Online)

AgentsInv == AgentsTypeOK /\ AgentInv /\ EntriesInv /\ CountInv

USE DEF agent, net, learner, table, gate, agentsVars,
        Entered, Leaving

LEMMA AgentsInitInv == AgentsInit => AgentsInv
<1> SUFFICES ASSUME AgentsInit PROVE AgentsInv
  OBVIOUS
<1> USE DEF AgentsInit
<1>1. AgentsTypeOK
  BY DEF AgentsTypeOK, Places, Mains
<1>2. AgentInv /\ EntriesInv
  BY DEF AgentInv, EntriesInv
<1>3. Online = {}
  BY DEF Online
<1> QED  BY <1>1, <1>2, <1>3, FS_EmptySet DEF AgentsInv, CountInv

\* Steps that move no goroutine of a connection and leave the table alone
LEMMA AsideInv ==
    ASSUME AgentsInv,
           UNCHANGED <<place, session, protocolOK, sessions, agentNum>>,
           main' = "serve" => main = "serve"
    PROVE  AgentInv' /\ EntriesInv' /\ CountInv'
<1>1. AgentInv' /\ EntriesInv'
  BY DEF AgentsInv, AgentInv, EntriesInv
<1>2. Online' = Online
  BY DEF Online
<1> QED  BY <1>1, <1>2 DEF AgentsInv, CountInv

LEMMA NetInv ==
    ASSUME AgentsInv, NEW c \in Conns,
           \/ Leave(c) \/ OverTime(c) \/ CloseConn(c)
           \/ HandlerClose(c) \/ LearnerConnect(c)
           \/ WriteBlocks(c) \/ WriteEnds(c)
    PROVE  AgentsInv'
<1> USE DEF Leave, OverTime, CloseConn, HandlerClose,
            LearnerConnect, WriteBlocks, WriteEnds, Close
<1>1. UNCHANGED <<place, session, protocolOK, sessions, agentNum, bye, main, sweep, swept, acceptor>>
  OBVIOUS
<1>2. closing' \in [Conns -> BOOLEAN] /\ blocked' \in [Conns -> BOOLEAN]
  BY Zenon DEF AgentsInv, AgentsTypeOK
<1>3. conn' \in [Conns -> {"open", "left", "closed"}]
      /\ hello' \in [Conns -> {"no", "pending", "told"}]
  BY DEF AgentsInv, AgentsTypeOK
<1>4. AgentsTypeOK'
  BY <1>1, <1>2, <1>3 DEF AgentsInv, AgentsTypeOK
<1> QED  BY <1>1, <1>4, AsideInv DEF AgentsInv

LEMMA MainInv ==
    ASSUME AgentsInv,
           \/ RunStarts \/ RunEnds \/ CloseSig \/ SweepEnds
           \/ WSClose \/ WSWait \/ TCPClose \/ LnWait
           \/ TCPWait
    PROVE  AgentsInv'
<1>1. UNCHANGED <<place, session, protocolOK, sessions, agentNum, bye, conn, closing, blocked, hello, swept>>
  BY DEF RunStarts, RunEnds, CloseSig, SweepEnds, WSClose,
         WSWait, TCPClose, LnWait, TCPWait, Advance
<1>2. /\ main' \in Mains /\ (main' = "serve" => main = "serve")
      /\ acceptor' \in {"starting", "accepting", "ended"} /\ sweep' \subseteq Conns
  BY DEF AgentsInv, AgentsTypeOK, Mains,
         RunStarts, RunEnds, CloseSig, SweepEnds, WSClose,
         WSWait, TCPClose, LnWait, TCPWait, Advance
<1>3. AgentsTypeOK'
  BY <1>1, <1>2 DEF AgentsInv, AgentsTypeOK
<1> QED  BY <1>1, <1>2, <1>3, AsideInv DEF AgentsInv

\* A goroutine before its agent is acknowledged
LEMMA HandshakeInv ==
    ASSUME AgentsInv, NEW c \in Conns,
           \/ TCPAccept(c) \/ WSAccept(c) \/ RunAgent(c)
           \/ NotUpgraded(c) \/ Handshake(c) \/ HandshakeFails(c)
           \/ AckFails(c)
    PROVE  AgentsInv'
<1> USE DEF TCPAccept, WSAccept, RunAgent, NotUpgraded,
            Handshake, HandshakeFails, AckFails, Returns,
            Close, GoesTo
<1>1. UNCHANGED <<protocolOK, sessions, agentNum, blocked, bye, hello, main, sweep, swept, acceptor>>
  OBVIOUS
<1>2. PICK l \in {"accepted", "handshake", "ack", "ran", "done"} :
         /\ place' = [place EXCEPT ![c] = l]
         /\ place[c] \in {"idle", "accepted", "handshake", "ack"}
         /\ l = "ack" => session' = [session EXCEPT ![c] = TRUE]
         /\ l # "ack" => session' = session
  OBVIOUS
<1>3. closing' \in [Conns -> BOOLEAN] /\ session' \in [Conns -> BOOLEAN]
  BY Zenon DEF AgentsInv, AgentsTypeOK
<1>4. conn' \in [Conns -> {"open", "left", "closed"}]
  BY DEF AgentsInv, AgentsTypeOK
<1>5. AgentsTypeOK'
  BY <1>1, <1>2, <1>3, <1>4 DEF AgentsInv, AgentsTypeOK, Places
<1>6. ~protocolOK[c] /\ c \notin sessions
  BY <1>2 DEF AgentsInv, AgentInv, EntriesInv
<1>7. AgentInv'
  BY <1>1, <1>2, <1>6 DEF AgentsInv, AgentsTypeOK, AgentInv
<1>8. EntriesInv'
  BY <1>1, <1>2, <1>6 DEF AgentsInv, AgentsTypeOK, EntriesInv
<1>9. Online' = Online
  BY <1>1, <1>2, <1>6 DEF AgentsInv, AgentsTypeOK, Online
<1> QED  BY <1>1, <1>5, <1>7, <1>8, <1>9 DEF AgentsInv, CountInv

LEMMA AckSentInv == ASSUME AgentsInv, NEW c \in Conns, AckSent(c) PROVE AgentsInv'
<1> USE DEF AckSent, GoesTo
<1>1. protocolOK' \in [Conns -> BOOLEAN]
  BY Zenon DEF AgentsInv, AgentsTypeOK
<1>2. AgentsTypeOK'
  BY <1>1 DEF AgentsInv, AgentsTypeOK, Places
<1>3. c \notin sessions
  BY DEF AgentsInv, EntriesInv
<1>4. AgentInv' /\ EntriesInv'
  BY <1>3 DEF AgentsInv, AgentsTypeOK, AgentInv, EntriesInv
<1>5. Online' = Online
  BY DEF AgentsInv, AgentsTypeOK, Online
<1> QED  BY <1>2, <1>4, <1>5 DEF AgentsInv, CountInv

LEMMA ConnectStoreInv ==
    ASSUME AgentsInv, NEW c \in Conns, ConnectStore(c) PROVE AgentsInv'
<1> USE DEF ConnectStore, GoesTo
<1>1. AgentsTypeOK'
  BY DEF AgentsInv, AgentsTypeOK, Places
<1>2. AgentInv' /\ EntriesInv'
  BY DEF AgentsInv, AgentsTypeOK, AgentInv, EntriesInv
<1>3. Online' = Online
  BY DEF AgentsInv, AgentsTypeOK, Online
<1> QED  BY <1>1, <1>2, <1>3 DEF AgentsInv, CountInv

LEMMA ConnectCountInv ==
    ASSUME AgentsInv, NEW c \in Conns, ConnectCount(c) PROVE AgentsInv'
<1> USE DEF ConnectCount, GoesTo
<1>1. AgentsTypeOK'
  BY DEF AgentsInv, AgentsTypeOK, Places
<1>2. AgentInv' /\ EntriesInv'
  BY DEF AgentsInv, AgentsTypeOK, AgentInv, EntriesInv
<1>3. Online' = Online \cup {c} /\ c \notin Online
  BY DEF AgentsInv, AgentsTypeOK, AgentInv, Online
<1> QED  BY <1>1, <1>2, <1>3, FS_AddElement DEF AgentsInv, CountInv

\* Run returns or is stuck, and the server closes the connection: the entry stays, and
\* counts.
LEMMA LeavingInv ==
    ASSUME AgentsInv, NEW c \in Conns, ListenEnds(c) \/ ListenStuck(c) \/ Cleanup(c)
    PROVE  AgentsInv'
<1> USE DEF ListenEnds, ListenStuck, Cleanup, Returns, Close, GoesTo
<1>1. closing' \in [Conns -> BOOLEAN] /\ blocked' \in [Conns -> BOOLEAN]
  BY Zenon DEF AgentsInv, AgentsTypeOK
<1>2. /\ conn' \in [Conns -> {"open", "left", "closed"}]
      /\ place' \in [Conns -> Places]
  BY DEF AgentsInv, AgentsTypeOK, Places
<1>3. AgentsTypeOK'
  BY <1>1, <1>2 DEF AgentsInv, AgentsTypeOK
<1>4. AgentInv' /\ EntriesInv'
  BY DEF AgentsInv, AgentsTypeOK, AgentInv, EntriesInv
<1>5. Online' = Online
  BY DEF AgentsInv, AgentsTypeOK, Online
<1> QED  BY <1>3, <1>4, <1>5 DEF AgentsInv, CountInv

\* An acknowledged agent has a session: it is deleted and uncounted.
LEMMA TellInv ==
    ASSUME AgentsInv, NEW c \in Conns, DisConnectTell(c) PROVE AgentsInv'
<1> USE DEF DisConnectTell, GoesTo
<1>1. bye' \in [Conns -> BOOLEAN]
  BY Zenon DEF AgentsInv, AgentsTypeOK
<1>2. place' \in [Conns -> Places]
  BY DEF AgentsInv, AgentsTypeOK, Places
<1>3. AgentsTypeOK'
  BY <1>1, <1>2 DEF AgentsInv, AgentsTypeOK
<1>4. AgentInv' /\ EntriesInv'
  BY DEF AgentsInv, AgentsTypeOK, AgentInv, EntriesInv
<1>5. Online' = Online
  BY DEF AgentsInv, AgentsTypeOK, AgentInv, Online
<1> QED  BY <1>3, <1>4, <1>5 DEF AgentsInv, CountInv

LEMMA DeleteInv ==
    ASSUME AgentsInv, NEW c \in Conns, DisConnectDelete(c) PROVE AgentsInv'
<1> USE DEF DisConnectDelete, GoesTo
<1>1. AgentsTypeOK'
  BY DEF AgentsInv, AgentsTypeOK, Places
<1>2. AgentInv' /\ EntriesInv'
  BY DEF AgentsInv, AgentsTypeOK, AgentInv, EntriesInv
<1>3. Online' = Online
  BY DEF AgentsInv, AgentsTypeOK, Online
<1> QED  BY <1>1, <1>2, <1>3 DEF AgentsInv, CountInv

LEMMA UncountInv ==
    ASSUME AgentsInv, NEW c \in Conns, DisConnectUncount(c) PROVE AgentsInv'
<1> USE DEF DisConnectUncount, GoesTo
<1>1. AgentsTypeOK'
  BY DEF AgentsInv, AgentsTypeOK, Places
<1>2. AgentInv' /\ EntriesInv'
  BY DEF AgentsInv, AgentsTypeOK, AgentInv, EntriesInv
<1>3. Online' = Online \ {c} /\ c \in Online
  BY DEF AgentsInv, AgentsTypeOK, AgentInv, Online
<1> QED  BY <1>1, <1>2, <1>3, FS_RemoveElement DEF AgentsInv, CountInv

LEMMA FinishInv == ASSUME AgentsInv, NEW c \in Conns, Finish(c) PROVE AgentsInv'
<1> USE DEF Finish, GoesTo
<1>1. main' \in Mains /\ (main' = "serve" => main = "serve")
  BY DEF AgentsInv, AgentsTypeOK, Woken, Mains
<1>2. AgentsTypeOK'
  BY <1>1 DEF AgentsInv, AgentsTypeOK, Places
<1>3. c \notin sessions
  BY DEF AgentsInv, EntriesInv
<1>4. AgentInv' /\ EntriesInv'
  BY <1>1, <1>3 DEF AgentsInv, AgentsTypeOK, AgentInv, EntriesInv
<1>5. Online' = Online
  BY DEF AgentsInv, AgentsTypeOK, Online
<1> QED  BY <1>2, <1>4, <1>5 DEF AgentsInv, CountInv

\* The sweep drops entries, and only when the gate serves no more.
LEMMA SweepVisitInv ==
    ASSUME AgentsInv, NEW c \in Conns, SweepVisit(c) PROVE AgentsInv'
<1> USE DEF SweepVisit, Close
<1>1. closing' \in [Conns -> BOOLEAN]
  BY Zenon DEF AgentsInv, AgentsTypeOK
<1>2. AgentsTypeOK'
  BY <1>1 DEF AgentsInv, AgentsTypeOK
<1>3. AgentInv' /\ EntriesInv'
  BY DEF AgentsInv, AgentInv, EntriesInv
<1>4. Online' = Online
  BY DEF Online
<1> QED  BY <1>2, <1>3, <1>4 DEF AgentsInv, CountInv

LEMMA AgentsStepInv == AgentsInv /\ [AgentsNext]_agentsVars => AgentsInv'
<1> SUFFICES ASSUME AgentsInv, [AgentsNext]_agentsVars PROVE AgentsInv'
  OBVIOUS
<1>1. ASSUME NEW c \in Conns, ConnStep(c) PROVE AgentsInv'
  BY <1>1, HandshakeInv, AckSentInv, ConnectStoreInv, ConnectCountInv, LeavingInv, TellInv,
     DeleteInv, UncountInv, FinishInv DEF ConnStep
<1>2. ASSUME NEW c \in Conns,
             \/ Environment(c) \/ LearnerConnect(c) \/ OverTime(c)
             \/ CloseConn(c)
      PROVE  AgentsInv'
  BY <1>2, HandshakeInv, NetInv, LeavingInv DEF Environment
<1>3. ASSUME RunStarts \/ RunEnds \/ CloseSig \/ MainStep
      PROVE  AgentsInv'
  BY <1>3, MainInv, SweepVisitInv DEF MainStep
<1>4. CASE UNCHANGED agentsVars
  <2>1. AgentsTypeOK'
    BY <1>4 DEF AgentsInv, AgentsTypeOK
  <2> QED  BY <1>4, <2>1, AsideInv DEF AgentsInv
<1> QED  BY <1>1, <1>2, <1>3, <1>4 DEF AgentsNext

\* The inductive invariant of the connections
THEOREM AgentsInvariance == AgentsSpec => []AgentsInv
<1> QED  BY AgentsInitInv, AgentsStepInv, PTL DEF AgentsSpec

\* In every behaviour the variables of the connections have their types.
THEOREM AgentsTypeCorrect == AgentsSpec => []AgentsTypeOK
<1>1. AgentsInv => AgentsTypeOK
  BY DEF AgentsInv
<1> QED  BY <1>1, AgentsInvariance, PTL

\* The table of the sessions and agentNum agree with the connections, for any
\* number of connections: failed handshakes, the cleanup of each connection and
\* OnDestroy may meet in any order.
THEOREM TableCounted == AgentsSpec => []TableAndCount
<1>1. AgentsInv => TableAndCount
  <2> SUFFICES ASSUME AgentsInv PROVE TableAndCount
    OBVIOUS
  <2>1. \A c \in sessions : place[c] \in Entered \cup Leaving
                              /\ protocolOK[c] /\ session[c]
    BY DEF AgentsInv, AgentsTypeOK, AgentInv, EntriesInv
  <2>2. main = "serve" => \A c \in Conns : place[c] \in Entered => c \in sessions
    BY DEF AgentsInv, EntriesInv
  <2>3. agentNum = Cardinality(Online)
    BY DEF AgentsInv, CountInv
  <2> QED  BY <2>1, <2>2, <2>3, Zenon
           DEF Online, TableAndCount
<1> QED  BY <1>1, AgentsInvariance, PTL

-----------------------------------------------------------------------------
(* The requests of a client.  The proofs use nothing of the bytes of the   *)
(* stream: they hold for whatever packs ReadPack makes of them.            *)

\* s is a sequence, of whatever it holds
IsSeq(s) == s \in Seq({s[i] : i \in DOMAIN s})

Workers == {"other", "route", "uri", "call", "done", "refused"}

\* Every pack that was read has a worker or needs none.
ReadInv == /\ IsSeq(read) /\ IsSeq(wrote)
           /\ work \in Seq(Workers) /\ Len(work) = Len(read)
           /\ phase = "handshake" => read = <<>> /\ wrote = <<>> /\ seen = <<>>

\* A worker that waits for a module has been asked for an answer.
Asked(k) == IF conf.uri THEN Topic(k).parsed /\ Topic(k).msg_id
                        ELSE Topic(k).parts = 3

WorkerInv ==
    \A k \in 1..Len(read) :
        /\ work[k] \in {"route", "uri", "call", "refused"} => read[k].type = PUBLISH
        /\ work[k] = "other" => read[k].type # PUBLISH
        /\ work[k] = "uri" => conf.uri /\ Topic(k).parsed
        /\ work[k] = "call" => Asked(k)

\* An answer is that of a worker that has ended and was asked for it, ...
IsAnswer(i, k) == wrote[i].to = k /\ wrote[i].pack.type = PUBLISH

AnswerInv ==
    \A i \in 1..Len(wrote), k \in 1..Len(read) : IsAnswer(i, k) =>
        /\ work[k] \in {"done", "refused"} /\ Needed(k)
        /\ wrote[i].pack.variable.topic_name = read[k].variable.topic_name

\* ... the only one, ...
OnlyAnswer ==
    /\ \A i \in 1..Len(wrote) : wrote[i].to \in 1..Len(read)
    /\ \A i, j \in 1..Len(wrote), k \in 1..Len(read) : IsAnswer(i, k) /\ IsAnswer(j, k) => i = j

\* ... and there is one if it was.
Answered ==
    \A k \in 1..Len(read) :
        /\ read[k].type = PUBLISH /\ (conf.uri \/ Topic(k).utf8)
        /\ work[k] \in {"done", "refused"} /\ Needed(k)
        => \E i \in 1..Len(wrote) : IsAnswer(i, k)

\* A handler is called once for a request, by a worker that has left the routing.
SeenInv ==
    /\ IsSeq(seen)
    /\ \A i \in 1..Len(seen) :
         /\ seen[i].of \in 1..Len(read)
         /\ work[seen[i].of] \in {"call", "done"}
         /\ seen[i].arg.bytes = read[seen[i].of].variable.msg
         /\ TopicIn(seen[i].session) = <<>>
    /\ \A i, j \in 1..Len(seen) : seen[i].of = seen[j].of => i = j

\* An answer is an error if no handler was called.
ErrorInv ==
    \A i \in 1..Len(wrote), k \in 1..Len(read) :
        IsAnswer(i, k) /\ ~Handled(k) => wrote[i].pack.variable.msg = Data(Error)

RequestInv == /\ ReadInv /\ WorkerInv /\ AnswerInv /\ OnlyAnswer /\ Answered
              /\ SeenInv /\ ErrorInv

LEMMA SeqLen == ASSUME NEW s, IsSeq(s) PROVE Len(s) \in Nat /\ DOMAIN s = 1..Len(s)
BY DEF IsSeq

LEMMA AppendIsSeq ==
    ASSUME NEW s, IsSeq(s), NEW x
    PROVE  /\ IsSeq(Append(s, x)) /\ Len(Append(s, x)) = Len(s) + 1
           /\ Append(s, x)[Len(s) + 1] = x
           /\ \A i \in 1..Len(s) : Append(s, x)[i] = s[i]
<1> DEFINE S == {s[i] : i \in DOMAIN s} \cup {x}
<1>1. s \in Seq(S) /\ x \in S
  BY DEF IsSeq
<1> HIDE DEF S
<1>2. Append(s, x) \in Seq(S) /\ Len(Append(s, x)) = Len(s) + 1
           /\ Append(s, x)[Len(s) + 1] = x
           /\ \A i \in 1..Len(s) : Append(s, x)[i] = s[i]
  BY <1>1
<1>3. IsSeq(Append(s, x))
  BY <1>2 DEF IsSeq
<1> QED  BY <1>2, <1>3

LEMMA FunIsSeq ==
    ASSUME NEW n \in Nat, NEW f, f = [i \in 1..n |-> f[i]]
    PROVE  IsSeq(f) /\ Len(f) = n
<1> DEFINE S == {f[i] : i \in 1..n}
<1>1. DOMAIN f = 1..n
  OBVIOUS
<1>2. \A i \in 1..n : f[i] \in S
  OBVIOUS
<1> HIDE DEF S
<1>3. f \in [1..n -> S]
  BY <1>2
<1>4. f \in Seq(S) /\ Len(f) = n
  BY <1>3
<1> QED  BY <1>1, <1>4 DEF IsSeq, S

LEMMA ConcatIsSeq ==
    ASSUME NEW s, IsSeq(s), NEW t, IsSeq(t)
    PROVE  /\ IsSeq(s \o t) /\ Len(s \o t) = Len(s) + Len(t)
           /\ \A i \in 1..Len(s) : (s \o t)[i] = s[i]
           /\ \A i \in 1..Len(t) : (s \o t)[Len(s) + i] = t[i]
<1> DEFINE S == {s[i] : i \in DOMAIN s} \cup {t[i] : i \in DOMAIN t}
           u == s \o t
<1>1. s \in Seq(S) /\ t \in Seq(S)
  BY DEF IsSeq
<1>2. Len(s) \in Nat /\ Len(t) \in Nat
  BY <1>1
<1> HIDE DEF S
<1>3. /\ u \in Seq(S) /\ Len(u) = Len(s) + Len(t)
      /\ \A i \in 1..Len(s) : u[i] = s[i]
      /\ \A i \in 1..Len(t) : u[Len(s) + i] = t[i]
  BY <1>1
<1> HIDE DEF u
<1>4. Len(u) \in Nat /\ u = [i \in 1..Len(u) |-> u[i]]
  BY <1>3
<1>5. IsSeq(u)
  BY <1>4, FunIsSeq
<1> QED  BY <1>3, <1>5 DEF u

\* The packs of packs, written as answers to the k-th
LEMMA WrittenIsSeq ==
    ASSUME NEW packs, IsSeq(packs), NEW k
    PROVE  /\ IsSeq(Written(packs, k)) /\ Len(Written(packs, k)) = Len(packs)
           /\ \A i \in 1..Len(packs) : /\ Written(packs, k)[i].pack = packs[i]
                                       /\ Written(packs, k)[i].to = k
<1> DEFINE w == Written(packs, k)
<1>1. Len(packs) \in Nat /\ DOMAIN packs = 1..Len(packs)
  BY SeqLen
<1>2. w = [i \in 1..Len(packs) |-> [pack |-> packs[i], to |-> k]]
  BY <1>1 DEF Written
<1>3. w = [i \in 1..Len(packs) |-> w[i]]
  BY <1>2
<1>4. \A i \in 1..Len(packs) : w[i].pack = packs[i] /\ w[i].to = k
  BY <1>2
<1> HIDE DEF w
<1>5. IsSeq(w) /\ Len(w) = Len(packs)
  BY <1>1, <1>3, FunIsSeq
<1> QED  BY <1>4, <1>5 DEF w

LEMMA TypesDiffer ==
    /\ PUBLISH = 3
    /\ CONNACK # 3 /\ PUBACK # 3 /\ PUBREC # 3 /\ PUBREL # 3 /\ PUBCOMP # 3
    /\ SUBACK # 3 /\ UNSUBACK # 3 /\ PINGRESP # 3 /\ CONNECT # 3
BY DEF PUBLISH, CONNACK, PUBACK, PUBREC, PUBREL, PUBCOMP, SUBACK,
       UNSUBACK, PINGRESP, CONNECT

LEMMA OneIsSeq ==
    ASSUME NEW x PROVE IsSeq(<<x>>) /\ Len(<<x>>) = 1 /\ <<x>>[1] = x
<1>1. <<x>> = [i \in 1..1 |-> <<x>>[i]]
  OBVIOUS
<1> QED  BY <1>1, FunIsSeq

LEMMA NoneIsSeq == IsSeq(<<>>) /\ Len(<<>>) = 0
BY DEF IsSeq

\* waitPack answers no pack with a PUBLISH
LEMMA RepliesAck ==
    ASSUME NEW p
    PROVE  /\ IsSeq(Replies(p))
           /\ \A i \in 1..Len(Replies(p)) : Replies(p)[i].type # PUBLISH
<1> DEFINE R == Replies(p)
           v == p.variable
           A == {GetConnAckPack(0), GetPubAckPack(v.mid), GetPubRECPack(v.mid),
                 GetPubRELPack(v.mid), GetPubCOMPPack(v.mid),
                 GetSubAckPack(v.mid), GetUNSubAckPack(v.mid), GetPingResp(0, p.dup)}
           J == {j \in 1..MaxPackLength : j \in DOMAIN v.topics /\ v.topics[j].Qos = 2}
           n == Cardinality(J)
<1>1. \A a \in A : a.type # PUBLISH
  BY TypesDiffer DEF GetConnAckPack, GetPubAckPack, GetPubRECPack,
     GetPubRELPack, GetPubCOMPPack, GetSubAckPack, GetUNSubAckPack,
     GetPingResp, Pack
<1>2. n \in Nat
  <2>1. IsFiniteSet(1..MaxPackLength)
    BY MaxPackAssumption, FS_Interval
  <2>2. IsFiniteSet(J)
    BY <2>1, FS_Subset
  <2> QED  BY <2>2, FS_CardinalityType
<1>3. \/ R = <<>> \/ \E a \in A : R = <<a>>
      \/ R = [i \in 1..n |-> GetSubAckPack(v.mid)]
  BY DEF Replies
<1> HIDE DEF n, J, R
<1>4. CASE R = <<>>
  BY <1>4, NoneIsSeq DEF R
<1>5. CASE \E a \in A : R = <<a>>
  <2> PICK a \in A : R = <<a>>
    BY <1>5
  <2> HIDE DEF A
  <2> QED  BY <1>1, OneIsSeq DEF R
<1>6. CASE R = [i \in 1..n |-> GetSubAckPack(v.mid)]
  <2>1. R = [i \in 1..n |-> R[i]] /\ \A i \in 1..n : R[i] \in A
    BY <1>6
  <2> HIDE DEF A
  <2>2. IsSeq(R) /\ Len(R) = n
    BY <2>1, <1>2, FunIsSeq
  <2> QED  BY <2>1, <2>2, <1>1 DEF R
<1> QED  BY <1>3, <1>4, <1>5, <1>6

\* toResult: one PUBLISH, with the topic of the request
LEMMA AnswerIsPublish ==
    ASSUME NEW p, NEW res
    PROVE  /\ IsSeq(Answer(p, res)) /\ Len(Answer(p, res)) = 1
           /\ Answer(p, res)[1].type = PUBLISH
           /\ Answer(p, res)[1].variable.topic_name = p.variable.topic_name
           /\ Answer(p, res)[1].variable.msg = Data(res)
<1> DEFINE a == GetPubPack(0, 0, 1, p.variable.topic_name, Data(res))
<1>1. Answer(p, res) = <<a>>
  BY DEF Answer
<1>2. /\ a.type = PUBLISH /\ a.variable.topic_name = p.variable.topic_name
      /\ a.variable.msg = Data(res)
  BY DEF GetPubPack, Pack
<1> HIDE DEF a
<1> QED  BY <1>1, <1>2, OneIsSeq

LEMMA AnswerWritten ==
    ASSUME IsSeq(wrote), NEW p, NEW res, NEW k
    PROVE  LET w == wrote \o Written(Answer(p, res), k)
               n == Len(wrote) + 1
           IN  /\ IsSeq(w) /\ Len(w) = n
               /\ \A i \in 1..Len(wrote) : w[i] = wrote[i]
               /\ w[n].to = k /\ w[n].pack.type = PUBLISH
               /\ w[n].pack.variable.topic_name = p.variable.topic_name
               /\ w[n].pack.variable.msg = Data(res)
<1> DEFINE a == Answer(p, res)
           v == Written(a, k)
<1>1. IsSeq(a) /\ Len(a) = 1 /\ a[1].type = PUBLISH
      /\ a[1].variable.topic_name = p.variable.topic_name
      /\ a[1].variable.msg = Data(res)
  BY AnswerIsPublish
<1> HIDE DEF a
<1>2. IsSeq(v) /\ Len(v) = 1 /\ v[1].pack = a[1] /\ v[1].to = k
  BY <1>1, WrittenIsSeq
<1> HIDE DEF v
<1>3. /\ IsSeq(wrote \o v)
      /\ Len(wrote \o v) = Len(wrote) + Len(v)
      /\ \A i \in 1..Len(wrote) : (wrote \o v)[i] = wrote[i]
      /\ \A i \in 1..Len(v) : (wrote \o v)[Len(wrote) + i] = v[i]
  <2>1. IsSeq(v)
    BY <1>2
  <2> QED  BY <2>1, ConcatIsSeq
<1> DEFINE w == wrote \o v
<1>4. IsSeq(w) /\ Len(w) = Len(wrote) + 1
      /\ (\A i \in 1..Len(wrote) : w[i] = wrote[i]) /\ w[Len(wrote) + 1] = v[1]
  <2> HIDE DEF w
  <2> QED  BY <1>2, <1>3 DEF w
<1> QED  BY <1>1, <1>2, <1>4 DEF v, a

\* A step that leaves the requests alone
LEMMA QuietStep ==
    ASSUME RequestInv, UNCHANGED <<conf, read, work, seen, wrote>>,
           phase' = phase \/ phase' = "closed"
    PROVE  RequestInv'
<1>1. ReadInv'
  BY DEF RequestInv, ReadInv, IsSeq
<1>2. WorkerInv'
  BY DEF RequestInv, WorkerInv, Asked, Topic
<1>3. AnswerInv'
  BY DEF RequestInv, AnswerInv, IsAnswer, Needed, Topic
<1>4. OnlyAnswer'
  BY DEF RequestInv, OnlyAnswer, IsAnswer
<1>5. Answered'
  BY DEF RequestInv, Answered, IsAnswer, Needed, Topic
<1>6. SeenInv'
  BY DEF RequestInv, SeenInv, IsSeq
<1>7. ErrorInv'
  BY DEF RequestInv, ErrorInv, IsAnswer, Handled
<1> QED  BY <1>1, <1>2, <1>3, <1>4, <1>5, <1>6, <1>7 DEF RequestInv

\* The calls of handlers stay, when requests are added and workers go on.
LEMMA SeenStays ==
    ASSUME SeenInv, seen' = seen,
           \A j \in 1..Len(read) :
              /\ j \in 1..Len(read') /\ read'[j] = read[j]
              /\ work[j] \in {"call", "done"} => work'[j] \in {"call", "done"}
    PROVE  SeenInv'
<1>1. IsSeq(seen)'
  BY DEF SeenInv, IsSeq
<1>2. ASSUME NEW i \in 1..Len(seen)
      PROVE  /\ seen[i].of \in 1..Len(read')
             /\ work'[seen[i].of] \in {"call", "done"}
             /\ seen[i].arg.bytes = read'[seen[i].of].variable.msg
             /\ TopicIn(seen[i].session) = <<>>
  <2> PICK j \in 1..Len(read) : j = seen[i].of
    BY DEF SeenInv
  <2>1. work[j] \in {"call", "done"} /\ seen[i].arg.bytes = read[j].variable.msg
        /\ TopicIn(seen[i].session) = <<>>
    BY DEF SeenInv
  <2> QED  BY <2>1
<1>3. \A i, j \in 1..Len(seen) : seen[i].of = seen[j].of => i = j
  BY DEF SeenInv
<1> QED  BY <1>1, <1>2, <1>3 DEF SeenInv, TopicIn

LEMMA GotoStep ==
    ASSUME RequestInv, NEW k \in 1..Len(read), NEW l \in Workers, WorkerGoto(k, l)
    PROVE  /\ work' \in Seq(Workers) /\ Len(work') = Len(work) /\ work'[k] = l
           /\ \A j \in 1..Len(read) : j # k => work'[j] = work[j]
           /\ phase # "handshake"
BY DEF RequestInv, ReadInv, WorkerGoto

\* Whether an answer is needed, but for the topics that are not UTF-8
Due(k) == Needed(k) /\ (conf.uri \/ Topic(k).utf8)

\* The worker of the k-th pack ends, and answers just when it has to.
LEMMA EndsStep ==
    ASSUME RequestInv, NEW k \in 1..Len(read), work[k] \in {"route", "uri", "call"},
           NEW needed, NEW res, Ends(k, needed, res),
           needed => Needed(k), Due(k) => needed, res = Error \/ Handled(k),
           UNCHANGED <<conf, phase, read, seen>>
    PROVE  RequestInv'
<1>0. /\ work' \in Seq(Workers) /\ Len(work') = Len(work) /\ work'[k] = "done"
      /\ \A j \in 1..Len(read) : j # k => work'[j] = work[j]
      /\ phase # "handshake"
  BY GotoStep DEF Ends, Workers
<1>1. IsSeq(wrote) /\ IsSeq(read) /\ Len(work) = Len(read)
  BY DEF RequestInv, ReadInv
<1>2. Len(wrote) \in Nat /\ Len(read) \in Nat
  BY <1>1, SeqLen
<1>3. /\ IsSeq(wrote')
      /\ \/ ~needed /\ wrote' = wrote
         \/ /\ needed /\ Len(wrote') = Len(wrote) + 1
            /\ \A i \in 1..Len(wrote) : wrote'[i] = wrote[i]
            /\ wrote'[Len(wrote) + 1].to = k
            /\ wrote'[Len(wrote) + 1].pack.type = PUBLISH
            /\ wrote'[Len(wrote) + 1].pack.variable.topic_name = read[k].variable.topic_name
            /\ wrote'[Len(wrote) + 1].pack.variable.msg = Data(res)
  <2>1. CASE needed
    BY <2>1, <1>1, AnswerWritten DEF Ends
  <2>2. CASE ~needed
    BY <2>2, <1>1 DEF Ends
  <2> QED  BY <2>1, <2>2
<1>4. \A j \in 1..Len(read) : Topic(j)' = Topic(j)
  BY DEF Topic
<1>5. /\ \A j \in 1..Len(read) : j # k => (Needed(j)' <=> Needed(j))
      /\ Needed(k)' <=> Needed(k)
  BY <1>0, <1>4 DEF Needed
<1>6. \A i \in 1..Len(wrote) : ~IsAnswer(i, k)
  BY DEF RequestInv, AnswerInv
<1> PICK n : n = Len(wrote) + 1
  OBVIOUS
<1>7. /\ \A i \in 1..Len(wrote), j \in 1..Len(read) : IsAnswer(i, j)' <=> IsAnswer(i, j)
      /\ ~needed => Len(wrote') = Len(wrote)
      /\ needed => /\ Len(wrote') = n
                   /\ \A j \in 1..Len(read) : IsAnswer(n, j)' <=> j = k
  BY <1>2, <1>3 DEF IsAnswer
<1>8. ReadInv'
  BY <1>0, <1>1, <1>3 DEF ReadInv, IsSeq
<1>9. WorkerInv'
  BY <1>0, <1>4 DEF RequestInv, WorkerInv, Asked
<1>10. AnswerInv'
  <2> SUFFICES ASSUME NEW i \in 1..Len(wrote'), NEW j \in 1..Len(read), IsAnswer(i, j)'
               PROVE  /\ work'[j] \in {"done", "refused"} /\ Needed(j)'
                      /\ wrote'[i].pack.variable.topic_name = read[j].variable.topic_name
    BY DEF AnswerInv
  <2>1. CASE i \in 1..Len(wrote)
    <3>1. IsAnswer(i, j) /\ j # k
      BY <2>1, <1>6, <1>7
    <3>2. wrote'[i] = wrote[i]
      BY <2>1, <1>3
    <3> QED  BY <2>1, <3>1, <3>2, <1>0, <1>5 DEF RequestInv, AnswerInv
  <2>2. CASE i \notin 1..Len(wrote)
    <3>1. needed /\ i = n /\ j = k
      BY <2>2, <1>2, <1>7
    <3> QED  BY <3>1, <1>0, <1>3, <1>5
  <2> QED  BY <2>1, <2>2
<1>11. OnlyAnswer'
  <2>1. \A i \in 1..Len(wrote') : wrote'[i].to \in 1..Len(read)
    BY <1>2, <1>3 DEF RequestInv, OnlyAnswer
  <2>2. ASSUME NEW i \in 1..Len(wrote'), NEW i2 \in 1..Len(wrote'), NEW j \in 1..Len(read),
               IsAnswer(i, j)', IsAnswer(i2, j)'
        PROVE  i = i2
    <3>1. CASE j = k
      <4>1. i \notin 1..Len(wrote) /\ i2 \notin 1..Len(wrote)
        BY <2>2, <3>1, <1>6, <1>7
      <4> QED  BY <4>1, <1>2, <1>7
    <3>2. CASE j # k
      <4>1. i \in 1..Len(wrote) /\ i2 \in 1..Len(wrote)
        BY <2>2, <3>2, <1>2, <1>7
      <4>2. IsAnswer(i, j) /\ IsAnswer(i2, j)
        BY <2>2, <4>1, <1>7
      <4> QED  BY <4>1, <4>2 DEF RequestInv, OnlyAnswer
    <3> QED  BY <3>1, <3>2
  <2> QED  BY <2>1, <2>2 DEF OnlyAnswer
<1>12. Answered'
  <2> SUFFICES ASSUME NEW j \in 1..Len(read), read[j].type = PUBLISH,
                      conf.uri \/ Topic(j).utf8,
                      work'[j] \in {"done", "refused"}, Needed(j)'
               PROVE  \E i \in 1..Len(wrote') : IsAnswer(i, j)'
    BY <1>4 DEF Answered
  <2>1. CASE j = k
    BY <2>1, <1>2, <1>5, <1>7 DEF Due
  <2>2. CASE j # k
    <3>1. PICK i \in 1..Len(wrote) : IsAnswer(i, j)
      BY <2>2, <1>0, <1>5 DEF RequestInv, Answered
    <3> QED  BY <3>1, <1>2, <1>7
  <2> QED  BY <2>1, <2>2
<1>13. SeenInv'
  BY <1>0, SeenStays DEF RequestInv
<1>14. ErrorInv'
  <2> SUFFICES ASSUME NEW i \in 1..Len(wrote'), NEW j \in 1..Len(read), IsAnswer(i, j)',
                      ~Handled(j)
               PROVE  wrote'[i].pack.variable.msg = Data(Error)
    BY DEF ErrorInv, Handled
  <2>1. CASE i \in 1..Len(wrote)
    BY <2>1, <1>3, <1>7 DEF RequestInv, ErrorInv
  <2>2. CASE i \notin 1..Len(wrote)
    <3>1. needed /\ i = n /\ j = k
      BY <2>2, <1>2, <1>7
    <3> QED  BY <3>1, <1>3
  <2> QED  BY <2>1, <2>2
<1> QED  BY <1>8, <1>9, <1>10, <1>11, <1>12, <1>13, <1>14 DEF RequestInv

\* What the serializer decodes is a clone: it has no topic.
LEMMA DecodedSession ==
    ASSUME NEW reg, NEW b, NEW s,
           s = Param(reg, "session", Encoded("SESSION", b)), ~IsError(s)
    PROVE  TopicIn(s.v) = <<>>
<1>1. Bytes2Args(reg, "SESSION", b) = Deserialize(reg, "SESSION", b)
  BY DEF Bytes2Args
<1>2. s = Deserialize(reg, "SESSION", b) \/ s = Error
  BY <1>1 DEF Param, Encoded
<1>3. s = Value("session", Clone(b))
  BY <1>2 DEF Deserialize, IsError
<1> QED  BY <1>3 DEF Value, Clone, SessionData, TopicIn

\* The worker of the k-th pack calls a module, and waits if it has to answer.
LEMMA CallsStep ==
    ASSUME RequestInv, NEW k \in 1..Len(read), work[k] \in {"route", "uri"},
           NEW t, NEW a, NEW needed, Calls(k, t, a, needed),
           a.bytes = read[k].variable.msg,
           needed => Asked(k), Due(k) => needed,
           UNCHANGED <<conf, phase, read>>
    PROVE  RequestInv'
<1> PICK l \in Workers : /\ WorkerGoto(k, l) /\ l = (IF needed THEN "call" ELSE "done")
  BY DEF Calls, Workers
<1>0. /\ work' \in Seq(Workers) /\ Len(work') = Len(work) /\ work'[k] = l
      /\ \A j \in 1..Len(read) : j # k => work'[j] = work[j]
      /\ phase # "handshake"
  BY GotoStep
<1>1. IsSeq(wrote) /\ IsSeq(read) /\ Len(work) = Len(read)
  BY DEF RequestInv, ReadInv
<1>3. wrote' = wrote
  BY DEF Calls
<1>4. \A j \in 1..Len(read) : Topic(j)' = Topic(j)
  BY DEF Topic
<1>5. /\ \A j \in 1..Len(read) : j # k => (Needed(j)' <=> Needed(j))
      /\ Needed(k)' <=> Needed(k)
  BY <1>0, <1>4 DEF Needed
<1>6. \A i \in 1..Len(wrote) : ~IsAnswer(i, k)
  BY DEF RequestInv, AnswerInv
<1>8. ReadInv'
  BY <1>0, <1>1, <1>3 DEF ReadInv, IsSeq
<1>9. WorkerInv'
  BY <1>0, <1>4 DEF RequestInv, WorkerInv, Asked
<1>10. AnswerInv'
  BY <1>0, <1>3, <1>5, <1>6 DEF RequestInv, AnswerInv, IsAnswer
<1>11. OnlyAnswer'
  BY <1>3 DEF RequestInv, OnlyAnswer, IsAnswer
<1>12. Answered'
  <2> SUFFICES ASSUME NEW j \in 1..Len(read), read[j].type = PUBLISH,
                      conf.uri \/ Topic(j).utf8,
                      work'[j] \in {"done", "refused"}, Needed(j)'
               PROVE  \E i \in 1..Len(wrote') : IsAnswer(i, j)'
    BY <1>4 DEF Answered
  <2>1. j # k
    BY <1>0, <1>5 DEF Due
  <2> QED  BY <2>1, <1>0, <1>3, <1>5 DEF RequestInv, Answered, IsAnswer
<1>13. PICK s : s = Param(conf.registered, "session", Encoded("SESSION", SessionWith(t)))
  OBVIOUS
<1>14. CASE IsError(s)
  <2>1. seen' = seen
    BY <1>13, <1>14 DEF Calls
  <2>2. SeenInv'
    BY <2>1, <1>0, SeenStays DEF RequestInv
  <2>3. ErrorInv'
    BY <2>1, <1>3 DEF RequestInv, ErrorInv, IsAnswer, Handled
  <2> QED  BY <2>2, <2>3, <1>8, <1>9, <1>10, <1>11, <1>12 DEF RequestInv
<1>15. CASE ~IsError(s)
  <2> DEFINE x == [of |-> k, session |-> s.v, arg |-> a]
  <2>1. seen' = Append(seen, x)
    BY <1>13, <1>15 DEF Calls
  <2>2. x.of = k /\ x.arg.bytes = read[k].variable.msg /\ TopicIn(x.session) = <<>>
    <3>1. TopicIn(s.v) = <<>>
      BY <1>13, <1>15, DecodedSession
    <3> QED  BY <3>1 DEF TopicIn
  <2> HIDE DEF x
  <2>3. IsSeq(seen) /\ Len(seen) \in Nat
    BY SeqLen DEF RequestInv, SeenInv
  <2>4. /\ IsSeq(seen') /\ Len(seen') = Len(seen) + 1 /\ seen'[Len(seen) + 1] = x
        /\ \A i \in 1..Len(seen) : seen'[i] = seen[i]
    BY <2>1, <2>3, AppendIsSeq
  <2>5. \A i \in 1..Len(seen) : seen[i].of # k
    BY DEF RequestInv, SeenInv
  <2>6. SeenInv'
    <3>1. ASSUME NEW i \in 1..Len(seen')
          PROVE  /\ seen'[i].of \in 1..Len(read)
                 /\ work'[seen'[i].of] \in {"call", "done"}
                 /\ seen'[i].arg.bytes = read[seen'[i].of].variable.msg
                 /\ TopicIn(seen'[i].session) = <<>>
      <4>1. CASE i \in 1..Len(seen)
        <5> PICK j \in 1..Len(read) : j = seen[i].of
          BY <4>1 DEF RequestInv, SeenInv
        <5>1. /\ work[j] \in {"call", "done"} /\ seen[i].arg.bytes = read[j].variable.msg
              /\ TopicIn(seen[i].session) = <<>> /\ j # k
          BY <4>1, <2>5 DEF RequestInv, SeenInv
        <5> QED  BY <4>1, <5>1, <2>4, <1>0
      <4>2. CASE i = Len(seen) + 1
        BY <4>2, <2>2, <2>4, <1>0
      <4> QED  BY <4>1, <4>2, <2>3, <2>4
    <3>2. ASSUME NEW i \in 1..Len(seen'), NEW j \in 1..Len(seen'), seen'[i].of = seen'[j].of
          PROVE  i = j
      BY <3>2, <2>2, <2>3, <2>4, <2>5 DEF RequestInv, SeenInv
    <3>3. \A i \in 1..Len(seen') : TopicIn(seen[i].session)' = TopicIn(seen'[i].session)
      BY DEF TopicIn
    <3> QED  BY <3>1, <3>2, <3>3, <2>4 DEF SeenInv, IsSeq
  <2>7. DOMAIN seen = 1..Len(seen) /\ DOMAIN seen' = 1..Len(seen')
    BY <2>3, <2>4, SeqLen
  <2>8. \A j \in 1..Len(read) : Handled(j) => Handled(j)'
    BY <2>3, <2>4, <2>7 DEF Handled
  <2>9. ErrorInv'
    BY <2>8, <1>3 DEF RequestInv, ErrorInv, IsAnswer
  <2> QED  BY <2>6, <2>9, <1>8, <1>9, <1>10, <1>11, <1>12 DEF RequestInv
<1> QED  BY <1>14, <1>15

LEMMA WorkerStep ==
    ASSUME RequestInv, NEW k \in DOMAIN work,
           \/ WorkerOther(k) \/ UriTopic(k) \/ ReturnError(k)
           \/ \E found \in BOOLEAN : Route(k, found)
           \/ \E found, bean \in BOOLEAN : UriRoute(k, found, bean)
           \/ \E v \in Results : ReturnResult(k, v)
    PROVE  RequestInv'
<1>0. k \in 1..Len(read)
  BY DEF RequestInv, ReadInv
<1>1. CASE WorkerOther(k)
  <2>1. /\ work' \in Seq(Workers) /\ Len(work') = Len(work) /\ work'[k] = "done"
        /\ \A j \in 1..Len(read) : j # k => work'[j] = work[j]
        /\ UNCHANGED <<conf, phase, read, seen, wrote>>
    BY <1>0, <1>1, GotoStep DEF WorkerOther, Workers
  <2>2. read[k].type # PUBLISH /\ work[k] = "other"
    BY <1>0, <1>1 DEF RequestInv, WorkerInv, WorkerOther
  <2>3. \A j \in 1..Len(read) : Topic(j)' = Topic(j)
    BY <2>1 DEF Topic
  <2>4. /\ \A j \in 1..Len(read) : j # k => (Needed(j)' <=> Needed(j))
        /\ Needed(k)' <=> Needed(k)
    BY <1>0, <2>1, <2>2, <2>3 DEF Needed
  <2>5. ReadInv'
    BY <2>1 DEF RequestInv, ReadInv, IsSeq
  <2>6. WorkerInv'
    BY <2>1, <2>3 DEF RequestInv, WorkerInv, Asked
  <2>7. AnswerInv'
    BY <2>1, <2>2, <2>4 DEF RequestInv, AnswerInv, IsAnswer
  <2>8. OnlyAnswer'
    BY <2>1 DEF RequestInv, OnlyAnswer, IsAnswer
  <2>9. Answered'
    BY <2>1, <2>2, <2>3, <2>4 DEF RequestInv, Answered, IsAnswer
  <2>10. SeenInv'
    BY <2>1, SeenStays DEF RequestInv
  <2>11. ErrorInv'
    BY <2>1 DEF RequestInv, ErrorInv, IsAnswer, Handled
  <2> QED  BY <2>5, <2>6, <2>7, <2>8, <2>9, <2>10, <2>11 DEF RequestInv
<1>2. CASE UriTopic(k)
  <2>1. UNCHANGED <<conf, phase, read, seen>> /\ work[k] = "route" /\ conf.uri
    BY <1>2 DEF UriTopic
  <2>2. CASE Topic(k).parsed
    <3>1. /\ work' \in Seq(Workers) /\ Len(work') = Len(work) /\ work'[k] = "uri"
          /\ \A j \in 1..Len(read) : j # k => work'[j] = work[j]
          /\ wrote' = wrote
      BY <1>0, <1>2, <2>2, GotoStep DEF UriTopic, Workers
    <3>2. \A j \in 1..Len(read) : Topic(j)' = Topic(j)
      BY <2>1 DEF Topic
    <3>3. \A j \in 1..Len(read) : j # k => (Needed(j)' <=> Needed(j))
      BY <2>1, <3>1, <3>2 DEF Needed
    <3>4. \A i \in 1..Len(wrote) : ~IsAnswer(i, k)
      BY <1>0, <2>1 DEF RequestInv, AnswerInv
    <3>5. ReadInv'
      BY <2>1, <3>1 DEF RequestInv, ReadInv, IsSeq
    <3>6. WorkerInv'
      BY <2>1, <2>2, <3>1, <3>2 DEF RequestInv, WorkerInv, Asked
    <3>7. AnswerInv'
      BY <2>1, <3>1, <3>3, <3>4 DEF RequestInv, AnswerInv, IsAnswer
    <3>8. OnlyAnswer'
      BY <2>1, <3>1 DEF RequestInv, OnlyAnswer, IsAnswer
    <3>9. Answered'
      BY <2>1, <3>1, <3>2, <3>3 DEF RequestInv, Answered, IsAnswer
    <3>10. SeenInv'
      BY <2>1, <3>1, SeenStays DEF RequestInv
    <3>11. ErrorInv'
      BY <2>1, <3>1 DEF RequestInv, ErrorInv, IsAnswer, Handled
    <3> QED  BY <3>5, <3>6, <3>7, <3>8, <3>9, <3>10, <3>11 DEF RequestInv
  <2>3. CASE ~Topic(k).parsed
    <3>1. Ends(k, TRUE, Error)
      BY <1>2, <2>3 DEF UriTopic
    <3>2. Needed(k)
      BY <2>1, <2>3 DEF Needed
    <3> QED  BY <1>0, <2>1, <3>1, <3>2, EndsStep
  <2> QED  BY <2>2, <2>3
<1>3. CASE ReturnError(k)
  <2>1. /\ work[k] = "call" /\ Ends(k, TRUE, Error)
        /\ UNCHANGED <<conf, phase, read, seen>>
    BY <1>3 DEF ReturnError
  <2>2. Needed(k)
    BY <1>0, <2>1 DEF RequestInv, WorkerInv, Asked, Needed
  <2> QED  BY <1>0, <2>1, <2>2, EndsStep
<1>4. ASSUME NEW v \in Results, ReturnResult(k, v)
      PROVE  RequestInv'
  <2>1. /\ work[k] = "call" /\ Ends(k, TRUE, Returned(v)) /\ Handled(k)
        /\ UNCHANGED <<conf, phase, read, seen>>
    BY <1>4 DEF ReturnResult
  <2>2. Needed(k)
    BY <1>0, <2>1 DEF RequestInv, WorkerInv, Asked, Needed
  <2> QED  BY <1>0, <2>1, <2>2, EndsStep
<1>5. ASSUME NEW found \in BOOLEAN, Route(k, found)
      PROVE  RequestInv'
  <2> DEFINE t == Topic(k)
             v == read[k].variable
             msgid == t.parts = 3
  <2>1. work[k] = "route" /\ ~conf.uri /\ UNCHANGED <<conf, phase, read>>
    BY <1>5 DEF Route
  <2>2. Needed(k) <=> (t.parts < 2 \/ msgid)
    BY <2>1 DEF Needed
  <2>3. CASE t.parts < 2
    <3>1. Ends(k, TRUE, Error) /\ seen' = seen
      BY <1>5, <2>3 DEF Route
    <3> QED  BY <1>0, <2>1, <2>2, <2>3, <3>1, EndsStep
  <2>4. CASE ~(t.parts < 2) /\ (~t.hd \/ ~found \/ BadJSON(v.msg))
    <3>1. Ends(k, msgid, Error) /\ seen' = seen
      BY <1>5, <2>4 DEF Route
    <3> QED  BY <1>0, <2>1, <2>2, <2>4, <3>1, EndsStep DEF Due
  <2>5. CASE ~(t.parts < 2) /\ ~(~t.hd \/ ~found \/ BadJSON(v.msg)) /\ ~t.utf8
    <3>1. Ends(k, FALSE, Error) /\ seen' = seen
      BY <1>5, <2>5 DEF Route
    <3> QED  BY <1>0, <2>1, <2>5, <3>1, EndsStep DEF Due
  <2>6. CASE ~(t.parts < 2) /\ ~(~t.hd \/ ~found \/ BadJSON(v.msg)) /\ t.utf8
    <3>1. Calls(k, v.topic_name, ArgOf(v.msg), msgid)
      BY <1>5, <2>6 DEF Route
    <3>2. ArgOf(v.msg).bytes = v.msg
      BY DEF ArgOf, Encoded
    <3>3. msgid => Asked(k)
      BY <2>1 DEF Asked
    <3> QED  BY <1>0, <2>1, <2>2, <2>6, <3>1, <3>2, <3>3, CallsStep DEF Due
  <2> QED  BY <2>3, <2>4, <2>5, <2>6
<1>6. ASSUME NEW found \in BOOLEAN, NEW bean \in BOOLEAN, UriRoute(k, found, bean)
      PROVE  RequestInv'
  <2> DEFINE v == read[k].variable
             msg_id == Topic(k).msg_id
             fails == IF bean THEN ~TopicOf[topic[1]].utf8
                      ELSE BadJSON(v.msg) \/ ~Topic(k).utf8
  <2>1. work[k] = "uri" /\ UNCHANGED <<conf, phase, read>> /\ (bean => conf.parsing)
    BY <1>6 DEF UriRoute
  <2>2. conf.uri /\ Topic(k).parsed
    BY <1>0, <2>1 DEF RequestInv, WorkerInv
  <2>3. Needed(k) <=> msg_id
    BY <2>1, <2>2 DEF Needed
  <2>4. CASE ~found \/ fails
    <3>1. Ends(k, msg_id, Error) /\ seen' = seen
      BY <1>6, <2>4 DEF UriRoute
    <3> QED  BY <1>0, <2>1, <2>3, <3>1, EndsStep DEF Due
  <2>5. CASE ~(~found \/ fails) /\ bean
    <3>1. Calls(k, topic, Encoded("bytes", v.msg), msg_id)
      BY <1>6, <2>5 DEF UriRoute
    <3>2. msg_id => Asked(k)
      BY <2>2 DEF Asked
    <3>3. Encoded("bytes", v.msg).bytes = v.msg
      BY DEF Encoded
    <3> QED  BY <1>0, <2>1, <2>3, <3>1, <3>2, <3>3, CallsStep DEF Due
  <2>6. CASE ~(~found \/ fails) /\ ~bean
    <3>1. Calls(k, v.topic_name, ArgOf(v.msg), msg_id)
      BY <1>6, <2>6 DEF UriRoute
    <3>2. ArgOf(v.msg).bytes = v.msg
      BY DEF ArgOf, Encoded
    <3>3. msg_id => Asked(k)
      BY <2>2 DEF Asked
    <3> QED  BY <1>0, <2>1, <2>3, <3>1, <3>2, <3>3, CallsStep DEF Due
  <2> QED  BY <2>4, <2>5, <2>6
<1> QED  BY <1>1, <1>2, <1>3, <1>4, <1>5, <1>6

\* The packs waitPack and OnRecover write for p: no PUBLISH but the error, which is last
LEMMA RepliesRefused ==
    ASSUME NEW p, NEW refused
    PROVE  LET a == Replies(p) \o (IF refused THEN Answer(p, Error) ELSE <<>>)
           IN  /\ IsSeq(a)
               /\ \A i \in 1..Len(a) : a[i].type = PUBLISH =>
                    /\ refused /\ i = Len(a) /\ a[i].variable.topic_name = p.variable.topic_name
                    /\ a[i].variable.msg = Data(Error)
               /\ refused => Len(a) > 0 /\ a[Len(a)].type = PUBLISH
<1> DEFINE b == Replies(p)
           c == IF refused THEN Answer(p, Error) ELSE <<>>
           a == b \o c
<1>1. IsSeq(b) /\ \A i \in 1..Len(b) : b[i].type # PUBLISH
  BY RepliesAck
<1>2. /\ IsSeq(c)
      /\ refused => /\ Len(c) = 1 /\ c[1].type = PUBLISH
                    /\ c[1].variable.topic_name = p.variable.topic_name
                    /\ c[1].variable.msg = Data(Error)
      /\ ~refused => Len(c) = 0
  BY AnswerIsPublish, NoneIsSeq
<1> HIDE DEF b, c
<1>3. /\ IsSeq(b \o c) /\ Len(b \o c) = Len(b) + Len(c)
      /\ \A i \in 1..Len(b) : (b \o c)[i] = b[i]
      /\ \A i \in 1..Len(c) : (b \o c)[Len(b) + i] = c[i]
  <2>1. IsSeq(b) /\ IsSeq(c)
    BY <1>1, <1>2
  <2> QED  BY <2>1, ConcatIsSeq
<1>4. Len(b) \in Nat /\ Len(c) \in Nat
  BY <1>1, <1>2, SeqLen
<1>5. /\ IsSeq(a)
      /\ \A i \in 1..Len(a) : a[i].type = PUBLISH =>
           /\ refused /\ i = Len(a) /\ a[i].variable.topic_name = p.variable.topic_name
           /\ a[i].variable.msg = Data(Error)
      /\ refused => Len(a) > 0 /\ a[Len(a)].type = PUBLISH
  <2> HIDE DEF a
  <2>1. /\ IsSeq(a) /\ Len(a) = Len(b) + Len(c)
        /\ \A i \in 1..Len(b) : a[i] = b[i]
        /\ \A i \in 1..Len(c) : a[Len(b) + i] = c[i]
    BY <1>3 DEF a
  <2>2. Len(c) = 1 => Len(a) = Len(b) + 1 /\ a[Len(b) + 1] = c[1]
    BY <2>1
  <2>3. ~refused => Len(a) = Len(b)
    BY <2>1, <1>2, <1>4
  <2> QED  BY <2>1, <2>2, <2>3, <1>1, <1>2, <1>4
<1> QED  BY <1>5 DEF a, b, c

\* A pack read in the loop
LEMMA AcceptedStep ==
    ASSUME RequestInv, phase = "loop", NEW p,
           Accepted(p, Len(read) + 1)
    PROVE  RequestInv'
<1> DEFINE fwd == p.type \in Forwarded
           refused == fwd /\ Full /\ p.type = PUBLISH
           a == Replies(p) \o (IF refused THEN Answer(p, Error) ELSE <<>>)
<1>1. IsSeq(wrote) /\ IsSeq(read) /\ Len(work) = Len(read) /\ work \in Seq(Workers)
  BY DEF RequestInv, ReadInv
<1>2. Len(wrote) \in Nat /\ Len(read) \in Nat
  BY <1>1, SeqLen
<1> PICK k : k = Len(read) + 1
  OBVIOUS
<1>3. /\ IsSeq(read') /\ Len(read') = k /\ read'[k] = p
      /\ \A j \in 1..Len(read) : read'[j] = read[j]
  BY <1>1, AppendIsSeq DEF Accepted
<1>4. /\ work' \in Seq(Workers) /\ Len(work') = k
      /\ \A j \in 1..Len(read) : work'[j] = work[j]
      /\ work'[k] = (IF refused THEN "refused" ELSE IF ~fwd \/ Full THEN "done"
                     ELSE IF p.type = PUBLISH THEN "route" ELSE "other")
  <2> DEFINE l == IF refused THEN "refused" ELSE IF ~fwd \/ Full THEN "done"
                  ELSE IF p.type = PUBLISH THEN "route" ELSE "other"
  <2>1. l \in Workers
    BY DEF Workers
  <2>2. work' = Append(work, l)
    BY DEF Accepted
  <2> HIDE DEF l
  <2>3. /\ work' \in Seq(Workers) /\ Len(work') = k /\ work'[k] = l
        /\ \A j \in 1..Len(read) : work'[j] = work[j]
    BY <2>1, <2>2, <1>1, <1>2
  <2> QED  BY <2>3 DEF l
<1>5. /\ work'[k] \in {"route", "refused"} => p.type = PUBLISH
      /\ work'[k] \in {"other", "done"} => p.type # PUBLISH
      /\ work'[k] = "refused" <=> refused
      /\ work'[k] \in {"route", "refused", "other", "done"}
  BY <1>4 DEF Forwarded
<1>6. /\ IsSeq(a)
      /\ \A i \in 1..Len(a) : a[i].type = PUBLISH =>
           /\ refused /\ i = Len(a) /\ a[i].variable.topic_name = p.variable.topic_name
           /\ a[i].variable.msg = Data(Error)
      /\ refused => Len(a) > 0 /\ a[Len(a)].type = PUBLISH
  BY RepliesRefused
<1>7. wrote' = wrote \o Written(a, k) /\ UNCHANGED <<conf, seen>> /\ phase' # "handshake"
  BY DEF Accepted
<1> HIDE DEF a, refused, fwd
<1>8. Len(a) \in Nat
  BY <1>6, SeqLen
<1>9. /\ IsSeq(wrote') /\ Len(wrote') = Len(wrote) + Len(a)
      /\ \A i \in 1..Len(wrote) : wrote'[i] = wrote[i]
      /\ \A i \in 1..Len(a) : /\ wrote'[Len(wrote) + i].pack = a[i]
                               /\ wrote'[Len(wrote) + i].to = k
  <2> DEFINE v == Written(a, k)
  <2>1. IsSeq(v) /\ Len(v) = Len(a) /\ \A i \in 1..Len(a) : v[i].pack = a[i] /\ v[i].to = k
    BY <1>6, WrittenIsSeq
  <2>2. wrote' = wrote \o v
    BY <1>7
  <2> HIDE DEF v
  <2>3. /\ IsSeq(wrote \o v) /\ Len(wrote \o v) = Len(wrote) + Len(v)
        /\ \A i \in 1..Len(wrote) : (wrote \o v)[i] = wrote[i]
        /\ \A i \in 1..Len(v) : (wrote \o v)[Len(wrote) + i] = v[i]
    <3>1. IsSeq(v)
      BY <2>1
    <3> QED  BY <3>1, <1>1, ConcatIsSeq
  <2> QED  BY <2>1, <2>2, <2>3
<1>10. ASSUME NEW i \in 1..Len(wrote'), i \notin 1..Len(wrote)
       PROVE  /\ wrote'[i].to = k
              /\ wrote'[i].pack.type = PUBLISH =>
                   /\ refused /\ i = Len(wrote')
                   /\ wrote'[i].pack.variable.topic_name = p.variable.topic_name
                   /\ wrote'[i].pack.variable.msg = Data(Error)
  <2> PICK x : x = i - Len(wrote)
    OBVIOUS
  <2>1. x \in 1..Len(a) /\ i = Len(wrote) + x
    BY <1>2, <1>8, <1>9, <1>10
  <2>2. wrote'[i].pack = a[x] /\ wrote'[i].to = k
    BY <2>1, <1>9
  <2> QED  BY <2>1, <2>2, <1>2, <1>6, <1>8, <1>9
<1>11. refused => /\ Len(wrote') > Len(wrote) /\ wrote'[Len(wrote')].pack.type = PUBLISH
                  /\ wrote'[Len(wrote')].to = k
  BY <1>2, <1>6, <1>8, <1>9
<1>12. \A j \in 1..Len(read) : /\ Topic(j)' = Topic(j)
                               /\ Needed(j)' <=> Needed(j)
  BY <1>3, <1>4, <1>7 DEF Topic, Needed
<1>13. 1..Len(read') = 1..Len(read) \cup {k} /\ k \notin 1..Len(read)
  BY <1>2, <1>3
<1>14. \A i \in 1..Len(wrote) : i \in 1..Len(wrote')
  BY <1>2, <1>8, <1>9
<1>15. ASSUME NEW i \in 1..Len(wrote'), NEW j \in 1..Len(read'), IsAnswer(i, j)'
       PROVE  \/ j # k /\ i \in 1..Len(wrote) /\ j \in 1..Len(read) /\ IsAnswer(i, j)
              \/ /\ j = k /\ refused /\ i = Len(wrote') /\ i \notin 1..Len(wrote)
                 /\ wrote'[i].pack.variable.topic_name = p.variable.topic_name
                 /\ wrote'[i].pack.variable.msg = Data(Error)
  <2>1. CASE i \in 1..Len(wrote)
    <3>1. wrote'[i] = wrote[i] /\ wrote[i].to \in 1..Len(read)
      BY <2>1, <1>9 DEF RequestInv, OnlyAnswer
    <3> QED  BY <2>1, <3>1, <1>13, <1>15 DEF IsAnswer
  <2>2. CASE i \notin 1..Len(wrote)
    BY <2>2, <1>10, <1>15 DEF IsAnswer
  <2> QED  BY <2>1, <2>2
<1>16. ReadInv'
  BY <1>3, <1>4, <1>7, <1>9 DEF ReadInv, IsSeq
<1>17. WorkerInv'
  <2> SUFFICES ASSUME NEW j \in 1..Len(read')
               PROVE  /\ work'[j] \in {"route", "uri", "call", "refused"}
                           => read'[j].type = PUBLISH
                      /\ work'[j] = "other" => read'[j].type # PUBLISH
                      /\ work'[j] = "uri" => conf'.uri /\ Topic(j)'.parsed
                      /\ work'[j] = "call" => Asked(j)'
    BY DEF WorkerInv
  <2>1. CASE j = k
    BY <2>1, <1>3, <1>5
  <2>2. CASE j # k
    <3>1. j \in 1..Len(read) /\ work'[j] = work[j] /\ read'[j] = read[j]
          /\ Topic(j)' = Topic(j) /\ conf' = conf
      BY <2>2, <1>3, <1>4, <1>7, <1>12, <1>13
    <3> QED  BY <3>1 DEF RequestInv, WorkerInv, Asked
  <2> QED  BY <2>1, <2>2
<1>18. AnswerInv'
  <2> SUFFICES ASSUME NEW i \in 1..Len(wrote'), NEW j \in 1..Len(read'), IsAnswer(i, j)'
               PROVE  /\ work'[j] \in {"done", "refused"} /\ Needed(j)'
                      /\ wrote'[i].pack.variable.topic_name = read'[j].variable.topic_name
    BY DEF AnswerInv
  <2>1. CASE j # k /\ i \in 1..Len(wrote) /\ j \in 1..Len(read) /\ IsAnswer(i, j)
    <3>1. wrote'[i] = wrote[i] /\ read'[j] = read[j] /\ work'[j] = work[j]
      BY <2>1, <1>3, <1>4, <1>9
    <3> QED  BY <2>1, <3>1, <1>12 DEF RequestInv, AnswerInv
  <2>2. CASE /\ j = k /\ refused
             /\ wrote'[i].pack.variable.topic_name = p.variable.topic_name
    BY <2>2, <1>3, <1>5 DEF Needed
  <2> QED  BY <2>1, <2>2, <1>15
<1>19. OnlyAnswer'
  <2>1. ASSUME NEW i \in 1..Len(wrote')
        PROVE  wrote'[i].to \in 1..Len(read')
    <3>1. CASE i \in 1..Len(wrote)
      BY <3>1, <1>9, <1>13 DEF RequestInv, OnlyAnswer
    <3>2. CASE i \notin 1..Len(wrote)
      BY <3>2, <1>10, <1>13
    <3> QED  BY <3>1, <3>2
  <2>2. ASSUME NEW i \in 1..Len(wrote'), NEW i2 \in 1..Len(wrote'),
               NEW j \in 1..Len(read'), IsAnswer(i, j)', IsAnswer(i2, j)'
        PROVE  i = i2
    BY <2>2, <1>15 DEF RequestInv, OnlyAnswer
  <2> QED  BY <2>1, <2>2 DEF OnlyAnswer
<1>20. Answered'
  <2> SUFFICES ASSUME NEW j \in 1..Len(read'), read'[j].type = PUBLISH,
                      conf'.uri \/ Topic(j)'.utf8,
                      work'[j] \in {"done", "refused"}, Needed(j)'
               PROVE  \E i \in 1..Len(wrote') : IsAnswer(i, j)'
    BY DEF Answered
  <2>1. CASE j = k
    <3>1. refused
      BY <2>1, <1>3, <1>5
    <3> PICK n : n = Len(wrote')
      OBVIOUS
    <3>2. n \in 1..Len(wrote')
      BY <3>1, <1>2, <1>8, <1>9, <1>11
    <3>3. IsAnswer(n, j)'
      BY <2>1, <3>1, <1>11 DEF IsAnswer
    <3> QED  BY <3>2, <3>3
  <2>2. CASE j # k
    <3>1. j \in 1..Len(read) /\ work'[j] = work[j] /\ read'[j] = read[j] /\ conf' = conf
      BY <2>2, <1>3, <1>4, <1>7, <1>13
    <3>2. PICK i \in 1..Len(wrote) : IsAnswer(i, j)
      BY <3>1, <1>12 DEF RequestInv, Answered
    <3>3. i \in 1..Len(wrote') /\ IsAnswer(i, j)'
      BY <3>2, <1>9, <1>14 DEF IsAnswer
    <3> QED  BY <3>3
  <2> QED  BY <2>1, <2>2
<1>21. SeenInv'
  BY <1>3, <1>4, <1>7, <1>13, SeenStays DEF RequestInv
<1>22. ErrorInv'
  BY <1>7, <1>9, <1>15 DEF RequestInv, ErrorInv, Handled
<1> QED  BY <1>16, <1>17, <1>18, <1>19, <1>20, <1>21, <1>22 DEF RequestInv

\* CONNECT, the first pack
LEMMA GreetedStep ==
    ASSUME RequestInv, phase = "handshake", NEW p, p.type = CONNECT,
           read' = <<p>>, work' = <<"done">>,
           wrote' = Written(<<GetConnAckPack(0)>>, 1),
           phase' = "loop", UNCHANGED <<conf, seen>>
    PROVE  RequestInv'
<1>1. IsSeq(read') /\ Len(read') = 1 /\ read'[1] = p
  BY OneIsSeq
<1>2. work' \in Seq(Workers) /\ Len(work') = 1 /\ work'[1] = "done"
  BY DEF Workers
<1>3. IsSeq(wrote') /\ Len(wrote') = 1
      /\ wrote'[1].pack = GetConnAckPack(0) /\ wrote'[1].to = 1
  <2> DEFINE b == <<GetConnAckPack(0)>>
  <2>1. IsSeq(b) /\ Len(b) = 1 /\ b[1] = GetConnAckPack(0)
    BY OneIsSeq
  <2> HIDE DEF b
  <2>2. 1 \in 1..Len(b)
    BY <2>1
  <2>3. IsSeq(Written(b, 1)) /\ Len(Written(b, 1)) = Len(b)
        /\ Written(b, 1)[1].pack = b[1] /\ Written(b, 1)[1].to = 1
    BY <2>1, <2>2, WrittenIsSeq
  <2> QED  BY <2>1, <2>3 DEF b
<1>4. wrote'[1].pack.type # PUBLISH /\ p.type # PUBLISH
  BY <1>3, TypesDiffer DEF GetConnAckPack, Pack
<1>5. ReadInv'
  BY <1>1, <1>2, <1>3 DEF ReadInv, IsSeq
<1>6. WorkerInv'
  BY <1>1, <1>2 DEF WorkerInv
<1>7. AnswerInv' /\ OnlyAnswer'
  BY <1>1, <1>3, <1>4 DEF AnswerInv, OnlyAnswer, IsAnswer
<1>8. Answered'
  BY <1>1, <1>4 DEF Answered
<1>9. SeenInv'
  <2>1. seen' = <<>>
    BY DEF RequestInv, ReadInv
  <2> QED  BY <2>1, NoneIsSeq DEF SeenInv
<1>10. ErrorInv'
  BY <1>1, <1>3, <1>4 DEF ErrorInv, IsAnswer
<1> QED  BY <1>5, <1>6, <1>7, <1>8, <1>9, <1>10 DEF RequestInv

LEMMA ReaderStep ==
    ASSUME RequestInv, FirstPack \/ Listen
    PROVE  RequestInv'
<1> DEFINE r == ReadPack(up)
<1>1. CASE Closed
  BY <1>1, QuietStep DEF Closed
<1>2. CASE FirstPack /\ ~Closed
  <2>1. phase = "handshake" /\ Greeted(r)
    BY <1>2 DEF FirstPack
  <2> HIDE DEF r
  <2>2. /\ r.pack.type = CONNECT /\ read' = <<r.pack>> /\ work' = <<"done">>
        /\ wrote' = Written(<<GetConnAckPack(0)>>, 1)
        /\ phase' = "loop" /\ UNCHANGED <<conf, seen>>
    BY <1>2, <2>1 DEF Greeted
  <2> QED  BY <2>1, <2>2, GreetedStep
<1>3. CASE Listen /\ ~Closed
  <2>1. phase = "loop" /\ Looped(r)
    BY <1>3 DEF Listen
  <2> HIDE DEF r
  <2>2. Accepted(r.pack, Len(read) + 1)
    BY <1>3, <2>1 DEF Looped
  <2> QED  BY <2>1, <2>2, AcceptedStep
<1> QED  BY <1>1, <1>2, <1>3

\* The inductive invariant of the requests
THEOREM RequestInvariance == RequestSpec => []RequestInv
<1>1. RequestInit => RequestInv
  <2> SUFFICES ASSUME RequestInit PROVE RequestInv
    OBVIOUS
  <2>1. read = <<>> /\ wrote = <<>> /\ work = <<>> /\ seen = <<>>
    BY DEF RequestInit
  <2>2. ReadInv
    BY <2>1, NoneIsSeq DEF ReadInv
  <2>3. Len(read) = 0 /\ Len(wrote) = 0
    BY <2>1
  <2>4. WorkerInv /\ AnswerInv /\ OnlyAnswer /\ Answered
    BY <2>3 DEF WorkerInv, AnswerInv, OnlyAnswer, Answered
  <2>5. SeenInv /\ ErrorInv
    BY <2>1, <2>3, NoneIsSeq DEF SeenInv, ErrorInv
  <2> QED  BY <2>2, <2>4, <2>5 DEF RequestInv
<1>2. ASSUME RequestInv, [RequestNext]_requestVars
      PROVE  RequestInv'
  <2>1. CASE UNCHANGED requestVars
    BY <2>1, <1>2, QuietStep DEF requestVars
  <2>2. CASE \E p \in Connects \cup Packs : Send(p)
    BY <2>2, <1>2, QuietStep DEF Send
  <2>3. CASE \E n \in 0..Len(up) : Cut(n)
    BY <2>3, <1>2, QuietStep DEF Cut
  <2>4. CASE FirstPack \/ Listen
    BY <2>4, <1>2, ReaderStep
  <2>5. ASSUME NEW k \in DOMAIN work,
               \/ WorkerOther(k) \/ UriTopic(k) \/ ReturnError(k)
               \/ \E found \in BOOLEAN : Route(k, found)
               \/ \E found, bean \in BOOLEAN : UriRoute(k, found, bean)
               \/ \E v \in Results : ReturnResult(k, v)
        PROVE  RequestInv'
    BY <2>5, <1>2, WorkerStep
  <2> QED  BY <1>2, <2>1, <2>2, <2>3, <2>4, <2>5 DEF RequestNext
<1> QED  BY <1>1, <1>2, PTL DEF RequestSpec

\* Every request is answered once and with its own topic if it asks for an answer or
\* cannot be read, and otherwise never, for any number of requests and of workers, any
\* topics and any results (recoverworker, OnRoute, OnRecover).
THEOREM RequestsAnswered == RequestSpec => []OneAnswer
<1>1. RequestInv => OneAnswer
  <2> SUFFICES ASSUME RequestInv, NEW k \in DOMAIN read, read[k].type = PUBLISH,
                      conf.uri \/ Topic(k).utf8
               PROVE  /\ Cardinality(Answers(k)) =
                           (IF work[k] \in {"done", "refused"} /\ Needed(k) THEN 1 ELSE 0)
                      /\ \A i \in Answers(k) :
                           wrote[i].pack.variable.topic_name = read[k].variable.topic_name
    BY DEF OneAnswer
  <2>1. IsSeq(wrote) /\ IsSeq(read)
    BY DEF RequestInv, ReadInv
  <2>2. DOMAIN wrote = 1..Len(wrote) /\ k \in 1..Len(read)
    BY <2>1, SeqLen
  <2>3. Answers(k) = {i \in 1..Len(wrote) : IsAnswer(i, k)}
    BY <2>2 DEF Answers, IsAnswer
  <2>4. \A i \in Answers(k) :
           /\ work[k] \in {"done", "refused"} /\ Needed(k)
           /\ wrote[i].pack.variable.topic_name = read[k].variable.topic_name
    BY <2>2, <2>3 DEF RequestInv, AnswerInv
  <2>5. CASE work[k] \in {"done", "refused"} /\ Needed(k)
    <3>1. PICK i \in 1..Len(wrote) : IsAnswer(i, k)
      BY <2>2, <2>5 DEF RequestInv, Answered
    <3>2. Answers(k) = {i}
      BY <2>2, <2>3, <3>1 DEF RequestInv, OnlyAnswer
    <3>3. Cardinality({i}) = 1
      BY FS_Singleton
    <3> QED  BY <2>4, <2>5, <3>2, <3>3
  <2>6. CASE ~(work[k] \in {"done", "refused"} /\ Needed(k))
    <3>1. Answers(k) = {}
      BY <2>4, <2>6
    <3>2. Cardinality({}) = 0
      BY FS_EmptySet
    <3> QED  BY <2>4, <2>6, <3>1, <3>2
  <2> QED  BY <2>5, <2>6
<1> QED  BY <1>1, RequestInvariance, PTL

\* A handler is called at most once for a request and with its message, and never sees
\* a topic, though the workers share the session and UriTopic writes a topic into it
\* (OnRoute); a request no handler was called for is answered with an error only. For
\* any number of requests and of workers, any topics, messages and results.
THEOREM HandlersSeeRequests == RequestSpec => []HandlerSees
<1>1. RequestInv => HandlerSees
  <2> SUFFICES ASSUME RequestInv PROVE HandlerSees
    OBVIOUS
  <2>1. DOMAIN seen = 1..Len(seen) /\ DOMAIN read = 1..Len(read)
        /\ DOMAIN wrote = 1..Len(wrote)
    BY SeqLen DEF RequestInv, ReadInv, SeenInv
  <2>2. ASSUME NEW i \in DOMAIN seen
        PROVE  /\ seen[i].of \in DOMAIN read
               /\ seen[i].arg.bytes = read[seen[i].of].variable.msg
               /\ TopicIn(seen[i].session) = <<>>
               /\ \A j \in DOMAIN seen : seen[j].of = seen[i].of => i = j
    BY <2>1 DEF RequestInv, SeenInv
  <2>3. ASSUME NEW k \in DOMAIN read, ~Handled(k), NEW i \in Answers(k)
        PROVE  wrote[i].pack.variable.msg = Data(Error)
    BY <2>1, <2>3 DEF RequestInv, ErrorInv, IsAnswer, Answers
  <2> QED  BY <2>2, <2>3 DEF HandlerSees
<1> QED  BY <1>1, RequestInvariance, PTL
=============================================================================
