----------------------------- MODULE MCSettling -----------------------------
(***************************************************************************)
(* What has begun comes to an end: the liveness of components that share   *)
(* no state, on small instances.  In a behaviour one of them (which) moves *)
(* and the others stay in a state in which nothing of theirs is due, so    *)
(* that the fairness of each can be asked of the whole.                    *)
(***************************************************************************)
EXTENDS HumanRound, WorkspaceMutations, WorkspaceObjects, DraftAttachments

CONSTANTS Runs, Tasks, Sandboxes, NoTask, NoRun, NoSandbox  \* of CronRuns

VARIABLES which,
          \* CronRuns
          cronJob, cronStatus, cronPhase, cronOwner, cronLease, cronSandbox, manual,
          outdated, cronPc, cronRun, fenced, box, goal, agent

cronVars == <<cronJob, cronStatus, cronPhase, cronOwner, cronLease, cronSandbox, manual,
              outdated, cronPc, cronRun, fenced, box, goal, agent>>
allVars == <<which, vars, wsVars, objVars, draftVars, cronVars>>

Cron == INSTANCE CronRuns
            WITH job <- cronJob, status <- cronStatus, phase <- cronPhase, owner <- cronOwner,
                 lease <- cronLease, sandbox <- cronSandbox, pc <- cronPc, run <- cronRun,
                 SharedQueue <- FALSE, SlowCommits <- FALSE

\* A Round that is over, with nobody at work on it.
NoRound ==
    /\ round = "completed" /\ ended = 1 /\ report = "none"
    /\ inter = [i \in Interactions |-> "none"] /\ kind = inter /\ answer = inter
    /\ approval = inter
    /\ claim = [i \in Interactions |-> NoWorker] /\ exec = claim
    /\ leased = [i \in Interactions |-> FALSE] /\ started = leased /\ execLive = leased
    /\ effects = [i \in Interactions |-> 0]
    /\ pc = [w \in Workers |-> "idle"] /\ job = [w \in Workers |-> NoJob]
    /\ signalled = {}

\* A workspace that nobody changes.
NoChange == WsInit /\ folder = NoFolder

AllInit ==
    /\ which \in {"round", "workspace", "objects", "draft", "cron"}
    /\ IF which = "round" THEN Init ELSE NoRound
    /\ IF which = "workspace" THEN WsInit ELSE NoChange
    /\ ObjectsInit /\ DraftInit /\ Cron!Init

AllNext ==
    /\ UNCHANGED which
    /\ \/ which = "round" /\ Next /\ UNCHANGED <<wsVars, objVars, draftVars, cronVars>>
       \/ which = "workspace" /\ WsNext /\ UNCHANGED <<vars, objVars, draftVars, cronVars>>
       \/ which = "objects" /\ ObjectsNext /\ UNCHANGED <<vars, wsVars, draftVars, cronVars>>
       \/ which = "cron" /\ Cron!Next /\ UNCHANGED <<vars, wsVars, objVars, draftVars>>
       \/ which = "draft" /\ DraftNext /\ UNCHANGED <<vars, wsVars, objVars, cronVars>>

SettlingSpec ==
    /\ AllInit /\ [][AllNext]_allVars
    /\ Fairness /\ WsFairness /\ ObjectsFairness /\ DraftFairness /\ Cron!Fairness

\* A queued run gets an outcome (CronRuns).
EveryRunSettles == Cron!EveryRunSettles

=============================================================================
