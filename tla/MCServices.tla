----------------------------- MODULE MCServices -----------------------------
(***************************************************************************)
(* The safety of components that share no state, side by side on small     *)
(* instances: in a behaviour one of them (which) moves, the others stay as *)
(* they are.                                                               *)
(***************************************************************************)
EXTENDS EventBus, CronRuns, WorkspaceObjects

VARIABLE which

ServicesInit ==
    /\ which \in {"bus", "cron", "objects"}
    /\ BusInit /\ Init /\ ObjectsInit

ServicesNext ==
    /\ UNCHANGED which
    /\ \/ which = "bus" /\ BusNext /\ UNCHANGED <<vars, objVars>>
       \/ which = "cron" /\ Next /\ UNCHANGED <<busVars, objVars>>
       \/ which = "objects" /\ ObjectsNext /\ UNCHANGED <<busVars, vars>>

ServicesSpec == ServicesInit /\ [][ServicesNext]_<<which, busVars, vars, objVars>>

\* At most one segment has reached the bound on its chunks where the exploration
\* goes on.
OneLong == \E s \in Segments : sent[s] < MaxChunks
=============================================================================
