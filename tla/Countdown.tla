----------------------------- MODULE Countdown -----------------------------
(***************************************************************************)
(* What a set of timers promises, whatever keeps them: a timer added with  *)
(* a delay of d ticks runs at the tick d + 1 after it, once, unless it was *)
(* cancelled through its key before.                                       *)
(***************************************************************************)
EXTENDS Naturals

CONSTANTS Tasks, Keys, Delays

VARIABLES remaining,  \* ticks until the task runs, 0 when it is not pending
          key,        \* the key of each task
          ran         \* how often the job of each task was started

vars == <<remaining, key, ran>>

Init == /\ remaining = [t \in Tasks |-> 0]
        /\ key \in [Tasks -> Keys]
        /\ ran = [t \in Tasks |-> 0]

Add(t, k, d) ==
    /\ remaining[t] = 0
    /\ ran[t] = 0
    /\ remaining' = [remaining EXCEPT ![t] = d + 1]
    /\ key' = [key EXCEPT ![t] = k]
    /\ UNCHANGED ran

Cancel(k) ==
    /\ remaining' = [t \in Tasks |-> IF key[t] = k THEN 0 ELSE remaining[t]]
    /\ UNCHANGED <<key, ran>>

Tick ==
    /\ remaining' = [t \in Tasks |-> IF remaining[t] = 0 THEN 0 ELSE remaining[t] - 1]
    /\ ran' = [t \in Tasks |-> IF remaining[t] = 1 THEN ran[t] + 1 ELSE ran[t]]
    /\ UNCHANGED key

Next == \/ \E t \in Tasks, k \in Keys, d \in Delays : Add(t, k, d)
        \/ \E k \in Keys : Cancel(k)
        \/ Tick

Spec == Init /\ [][Next]_vars
=============================================================================
