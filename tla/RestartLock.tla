---------------------------- MODULE RestartLock ----------------------------
(***************************************************************************)
(* What the documentation of the rolling operations library promises: the  *)
(* units that asked for it restart, and no two of them at the same time.   *)
(***************************************************************************)
CONSTANT Units
VARIABLES
    wanted,    \* the units that asked for a restart
    running    \* those that restart

Init == wanted = {} /\ running = {}

Ask(u) ==
    /\ wanted' = wanted \cup {u}
    /\ UNCHANGED running

Start(u) ==
    /\ u \in wanted /\ running = {}
    /\ running' = {u}
    /\ UNCHANGED wanted

\* The restart is over, or the process that waits for it died.
Stop(u) ==
    /\ running = {u}
    /\ running' = {}
    /\ UNCHANGED wanted

Done(u) ==
    /\ u \in wanted \ running
    /\ wanted' = wanted \ {u}
    /\ UNCHANGED running

Next == \E u \in Units : Ask(u) \/ Start(u) \/ Stop(u) \/ Done(u)

Spec == Init /\ [][Next]_<<wanted, running>>
=============================================================================
