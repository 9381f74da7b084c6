--------------------------- MODULE CallLifecycle ---------------------------
(***************************************************************************)
(* What an RPC client promises its callers, whatever its channels, locks   *)
(* and subscriptions do: every call ends at most once and in one way, a    *)
(* result is only handed out for a call the remote side answered, a caller *)
(* is told "client closed" only by a client that has been closed, and a    *)
(* closed client starts no call.                                           *)
(***************************************************************************)
CONSTANT Calls

VARIABLES open,      \* the client accepts calls
          answered,  \* calls the remote side has replied to
          status     \* what the caller of each call has been told

vars == <<open, answered, status>>

Init == /\ open = TRUE
        /\ answered = {}
        /\ status = [c \in Calls |-> "idle"]

Move(c, from, to) == /\ status[c] = from
                     /\ status' = [status EXCEPT ![c] = to]
                     /\ UNCHANGED <<open, answered>>

Begin(c)   == open /\ Move(c, "idle", "pending")
Send(c)    == open /\ Move(c, "idle", "sent")
Reject(c)  == Move(c, "idle", "error")
Result(c)  == c \in answered /\ Move(c, "pending", "result")
Release(c) == ~open /\ Move(c, "pending", "closed")
Expire(c)  == Move(c, "pending", "deadline")

Answer(c) == /\ status[c] \notin {"idle", "error", "sent"}
             /\ answered' = answered \cup {c}
             /\ UNCHANGED <<open, status>>

Close == /\ open' = FALSE
         /\ UNCHANGED <<answered, status>>

Next == \/ \E c \in Calls : \/ Begin(c) \/ Send(c) \/ Reject(c) \/ Result(c)
                            \/ Release(c) \/ Expire(c) \/ Answer(c)
        \/ Close

Spec == Init /\ [][Next]_vars
=============================================================================
