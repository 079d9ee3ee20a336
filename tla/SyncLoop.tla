------------------------------ MODULE SyncLoop ------------------------------
(***************************************************************************)
(* What every agent of the project promises about its main loop, whatever  *)
(* the pass does: work that was asked for is never lost.  A request made   *)
(* while a pass runs is served by a later pass, a pass that fails asks for *)
(* another one, and a pass that starts always ends.  The l2, dhcp and l3   *)
(* agents share this shape (sync_if_needed and _retry of each agent.py).   *)
(***************************************************************************)

VARIABLES
    work,      \* a pass has been asked for and has not started (_dirty)
    running    \* a pass is running (_sync has not returned)

vars == <<work, running>>

TypeOK == work \in BOOLEAN /\ running \in BOOLEAN

\* A booting agent owes the host one pass.
Init == work = TRUE /\ running = FALSE

\* An event, an RPC or the pass itself asks for (another) pass.
Ask == work' = TRUE /\ UNCHANGED running

\* The loop starts a pass; the request is taken over by that pass.  A periodic
\* pass starts with no request at all.
Begin == ~running /\ running' = TRUE /\ work' = FALSE

\* The pass ends; if it failed or left something pending it asks for another.
End == running /\ running' = FALSE /\ (work => work')

\* The process dies and comes back with a pass due.
Restart == work' = TRUE /\ running' = FALSE

Next == Ask \/ Begin \/ End \/ Restart

\* The loop never stops: a pass is always followed by the end of it, and the end by
\* another pass.
Alive == []<>running /\ []<>~running

Spec == Init /\ [][Next]_vars /\ Alive
=============================================================================
