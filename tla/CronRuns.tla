------------------------------- MODULE CronRuns -------------------------------
(***************************************************************************)
(* The durable runs of a scheduled job.  A run is queued by the dispatcher *)
(* of a due minute or by the manual trigger; some task claims it under a   *)
(* token and a lease, prepares a sandbox, crosses into execution, watches  *)
(* the agent and writes the outcome.  Reconcilers requeue or give up runs  *)
(* whose lease has lapsed.  The job changes and tasks die underneath.      *)
(*                                                                         *)
(* A task is one execution of _run_queued or of _run, anywhere in the      *)
(* deployment.  Its name is its claim token.  A write that reads its row   *)
(* without locking it is two steps, "store" is the point between them.     *)
(***************************************************************************)
EXTENDS Naturals, FiniteSets

CONSTANTS Runs,         \* ids of runs, each of one due minute or one trigger
          Tasks,        \* executions of runs, one shot each
          Sandboxes,    \* sandboxes the user may be bound to
          NoTask, NoRun, NoSandbox,
          SharedQueue,  \* other workers look at the queue while a trigger spawns
          SlowCommits   \* a lease may lapse between a read and its write

ASSUME CronRunsAssumption ==
    /\ NoTask \notin Tasks
    /\ NoRun \notin Runs /\ NoSandbox \notin Sandboxes
    /\ SharedQueue \in BOOLEAN /\ SlowCommits \in BOOLEAN

VARIABLES
    job,       \* the job and its user: "on", "paused", "barred", "gone"
    status,    \* run -> cron_job_runs.status
    phase,     \* run -> cron_job_runs.phase
    owner,     \* run -> claim_token
    lease,     \* run -> "none", "live" or "lapsed"
    sandbox,   \* run -> the frozen sandbox_id
    manual,    \* runs with trigger_source "manual"
    outdated,  \* runs queued under a rule that has changed since
    pc,        \* task -> what it does next
    run,       \* task -> its run
    fenced,    \* tasks that hold a claim token
    box,       \* task -> the sandbox it is connected to
    goal,      \* task -> the write it is about to commit
    agent      \* task -> its turn: "none", "on", "success", "failed"

row == <<status, phase, owner, lease, sandbox>>
origin == <<job, manual, outdated>>
task == <<pc, run, fenced, box, goal>>
vars == <<row, origin, task, agent>>

-----------------------------------------------------------------------------
Final == {"success", "failed", "unknown"}
Started(r) == {t \in Tasks : agent[t] # "none" /\ run[t] = r}
Triggering(r) == {t \in Tasks \ fenced : run[t] = r /\ pc[t] # "done"}
Idle == {t \in Tasks : pc[t] = "idle"}
Busy(t) == pc[t] \notin {"idle", "store", "done"}

TypeOK ==
    /\ job \in {"on", "paused", "barred", "gone"}
    /\ status \in [Runs -> {"none", "queued", "running"} \cup Final]
    /\ phase \in [Runs -> {"none", "queued", "preparing", "executing", "publishing", "terminal"}]
    /\ owner \in [Runs -> Tasks \cup {NoTask}]
    /\ lease \in [Runs -> {"none", "live", "lapsed"}]
    /\ sandbox \in [Runs -> Sandboxes \cup {NoSandbox}]
    /\ manual \subseteq Runs /\ outdated \subseteq Runs
    /\ pc \in [Tasks -> {"idle", "trigger", "look", "claim", "verify", "check", "acquire",
                         "freeze", "begin", "dispatch", "watch", "scan", "store", "done"}]
    /\ run \in [Tasks -> Runs \cup {NoRun}]
    /\ fenced \subseteq Tasks
    /\ box \in [Tasks -> Sandboxes \cup {NoSandbox}]
    /\ goal \in [Tasks -> {"none", "executing", "publishing", "success", "failed"}]
    /\ agent \in [Tasks -> {"none", "on", "success", "failed"}]
    /\ \A t \in Tasks : pc[t] # "idle" \/ agent[t] # "none" => run[t] \in Runs

Init ==
    /\ job = "on"
    /\ status = [r \in Runs |-> "none"]
    /\ phase = [r \in Runs |-> "none"]
    /\ owner = [r \in Runs |-> NoTask]
    /\ lease = [r \in Runs |-> "none"]
    /\ sandbox = [r \in Runs |-> NoSandbox]
    /\ manual = {} /\ outdated = {}
    /\ pc = [t \in Tasks |-> "idle"]
    /\ run = [t \in Tasks |-> NoRun]
    /\ fenced = {}
    /\ box = [t \in Tasks |-> NoSandbox]
    /\ goal = [t \in Tasks |-> "none"]
    /\ agent = [t \in Tasks |-> "none"]

-----------------------------------------------------------------------------
(* The job, and how runs come to be.                                       *)

\* The user pauses, resumes or deletes the job; an admin bars the user.
SetJob(j) ==
    /\ job \notin {j, "gone"}
    /\ job' = j
    /\ UNCHANGED <<row, manual, outdated, task, agent>>

\* The schedule changes: rule_version is increased.
ChangeRule ==
    /\ job \in {"on", "paused"}
    /\ outdated' = outdated \cup {r \in Runs : status[r] # "none"}
    /\ UNCHANGED <<row, job, manual, task, agent>>

Queue(r) ==
    /\ status[r] = "none"
    /\ status' = [status EXCEPT ![r] = "queued"]
    /\ phase' = [phase EXCEPT ![r] = "queued"]
    /\ UNCHANGED <<owner, lease, sandbox, job, outdated>>

\* A due minute: its fire and its run are inserted in one transaction, unless
\* another worker has inserted the fire or the job has changed meanwhile.
Enqueue(r) ==
    /\ job = "on"
    /\ Queue(r)
    /\ UNCHANGED <<manual, task, agent>>

\* The user asks for a run: the row is committed, then a task is spawned.
Trigger(t, r) ==
    /\ pc[t] = "idle" /\ job \in {"on", "paused"}
    /\ Queue(r)
    /\ manual' = manual \cup {r}
    /\ pc' = [pc EXCEPT ![t] = "trigger"]
    /\ run' = [run EXCEPT ![t] = r]
    /\ UNCHANGED <<fenced, box, goal, agent>>

Goto(t, l) ==
    /\ pc' = [pc EXCEPT ![t] = l]
    /\ UNCHANGED <<run, fenced, box, goal>>

\* The row as a terminal write leaves it.
Settle(r, outcome) ==
    /\ status' = [status EXCEPT ![r] = outcome]
    /\ phase' = [phase EXCEPT ![r] = "terminal"]
    /\ owner' = [owner EXCEPT ![r] = NoTask]
    /\ lease' = [lease EXCEPT ![r] = "none"]
    /\ UNCHANGED sandbox

Spawn(t) ==
    /\ pc[t] = "trigger"
    /\ Goto(t, "look")
    /\ UNCHANGED <<row, origin, agent>>

\* A manual run that is not queued any more is run without a claim.
Look(t) ==
    /\ pc[t] = "look"
    /\ Goto(t, IF status[run[t]] = "queued" THEN "claim" ELSE "verify")
    /\ UNCHANGED <<row, origin, agent>>

-----------------------------------------------------------------------------
(* Claims.                                                                 *)

\* The row of a claim: a new token, a new lease, preparation from the start.
Take(t, r) ==
    /\ status' = [status EXCEPT ![r] = "running"]
    /\ phase' = [phase EXCEPT ![r] = "preparing"]
    /\ owner' = [owner EXCEPT ![r] = t]
    /\ lease' = [lease EXCEPT ![r] = "live"]
    /\ pc' = [pc EXCEPT ![t] = "verify"]
    /\ run' = [run EXCEPT ![t] = r]
    /\ fenced' = fenced \cup {t}
    /\ UNCHANGED <<sandbox, origin, box, goal, agent>>

\* A dispatcher or a reconciler has found r in the queue.
Claim(t, r) ==
    /\ pc[t] = "idle" /\ status[r] = "queued"
    /\ SharedQueue \/ Triggering(r) = {}
    /\ Take(t, r)

\* The task of the trigger claims its run, if nobody was faster.
ClaimOwn(t) ==
    /\ pc[t] = "claim"
    /\ IF status[run[t]] = "queued"
       THEN Take(t, run[t])
       ELSE Goto(t, "done") /\ UNCHANGED <<row, origin, agent>>

Held(t) == LET r == run[t] IN status[r] = "running" /\ owner[r] = t /\ lease[r] = "live"

\* What every write of the run's row asks of it.
MayWrite(t) == IF t \in fenced THEN Held(t) ELSE status[run[t]] = "running"

\* The row was read and will be written.
Intend(t, g) ==
    /\ goal' = [goal EXCEPT ![t] = g]
    /\ pc' = [pc EXCEPT ![t] = "store"]
    /\ UNCHANGED <<row, origin, run, fenced, box, agent>>

\* _mark_run_failed
GiveUp(t) ==
    IF MayWrite(t) \/ (t \notin fenced /\ status[run[t]] = "queued")
    THEN Intend(t, "failed")
    ELSE Goto(t, "done") /\ UNCHANGED <<row, origin, agent>>

\* The commit of what was read before.
Store(t) ==
    LET r == run[t] IN
    /\ pc[t] = "store"
    /\ \/ /\ goal[t] \in Final
          /\ Settle(r, goal[t])
          /\ pc' = [pc EXCEPT ![t] = "done"]
       \/ /\ goal[t] \in {"executing", "publishing"}
          /\ phase' = [phase EXCEPT ![r] = goal[t]]
          /\ pc' = [pc EXCEPT ![t] = IF goal[t] = "executing" THEN "dispatch" ELSE "scan"]
          /\ UNCHANGED <<status, owner, lease, sandbox>>
    /\ goal' = [goal EXCEPT ![t] = "none"]
    /\ UNCHANGED <<origin, run, fenced, box, agent>>

\* This process has no cron worker: the run is failed at once.
SpawnFails(t) == pc[t] = "trigger" /\ GiveUp(t)

-----------------------------------------------------------------------------
(* run_cron_job                                                            *)

Runnable(r) ==
    /\ job = "on" \/ (job = "paused" /\ r \in manual)
    /\ r \notin outdated

\* The job is looked up again before anything is prepared.
Verify(t) ==
    /\ pc[t] = "verify"
    /\ IF Runnable(run[t])
       THEN Goto(t, "check") /\ UNCHANGED <<row, origin, agent>>
       ELSE GiveUp(t)

\* The claim is looked at and the frozen sandbox, if there is one, is read.
\* An unclaimed run that was requeued meanwhile becomes running.
Check(t) ==
    LET r == run[t] IN
    /\ pc[t] = "check"
    /\ IF t \in fenced /\ ~Held(t)
       THEN Goto(t, "done") /\ UNCHANGED <<status, phase>>
       ELSE /\ pc' = [pc EXCEPT ![t] = "acquire"]
            /\ box' = [box EXCEPT ![t] = sandbox[r]]
            /\ UNCHANGED <<run, fenced, goal>>
            /\ LET requeued == status[r] = "queued" IN
               /\ status' = [status EXCEPT ![r] = IF requeued THEN "running" ELSE @]
               /\ phase' = [phase EXCEPT ![r] = IF requeued THEN "preparing" ELSE @]
    /\ UNCHANGED <<owner, lease, sandbox, origin, agent>>

\* A run without a sandbox takes the one its user is bound to at this moment.
Acquire(t) ==
    /\ pc[t] = "acquire"
    /\ \E x \in Sandboxes : box' = [box EXCEPT ![t] = IF @ = NoSandbox THEN x ELSE @]
    /\ pc' = [pc EXCEPT ![t] = "freeze"]
    /\ UNCHANGED <<row, origin, run, fenced, goal, agent>>

\* Mutant: the last sandbox connected to is the run's sandbox.
FreezeLast(t) ==
    LET r == run[t] IN
    /\ pc[t] = "freeze"
    /\ IF status[r] = "running" /\ phase[r] = "preparing"
       THEN /\ sandbox' = [sandbox EXCEPT ![r] = box[t]]
            /\ Goto(t, "begin")
            /\ UNCHANGED <<status, phase, owner, lease, origin, agent>>
       ELSE GiveUp(t)

\* The sandbox of the run is set once, under the row's lock.
Freeze(t) ==
    LET r == run[t] IN
    /\ pc[t] = "freeze"
    /\ IF MayWrite(t) /\ phase[r] = "preparing" /\ sandbox[r] \in {NoSandbox, box[t]}
       THEN /\ sandbox' = [sandbox EXCEPT ![r] = box[t]]
            /\ Goto(t, "begin")
            /\ UNCHANGED <<status, phase, owner, lease, origin, agent>>
       ELSE GiveUp(t)

\* The run leaves its preparation; without a claim nothing is asked or written.
Begin(t) ==
    /\ pc[t] = "begin"
    /\ IF t \in fenced
       THEN IF Held(t) THEN Intend(t, "executing") ELSE GiveUp(t)
       ELSE Goto(t, "dispatch") /\ UNCHANGED <<row, origin, agent>>

\* The turn is submitted: the agent runs from now on.
Dispatch(t) ==
    /\ pc[t] = "dispatch"
    /\ Goto(t, "watch")
    /\ agent' = [agent EXCEPT ![t] = "on"]
    /\ UNCHANGED <<row, origin>>

AgentEnds(t) ==
    /\ agent[t] = "on"
    /\ \E result \in {"success", "failed"} : agent' = [agent EXCEPT ![t] = result]
    /\ UNCHANGED <<row, origin, task>>

\* Mutant: the run is published as soon as the stream has been opened.
PublishEarly(t) ==
    /\ pc[t] = "watch"
    /\ IF t \in fenced
       THEN IF Held(t) THEN Intend(t, "publishing") ELSE GiveUp(t)
       ELSE Goto(t, "scan") /\ UNCHANGED <<row, origin, agent>>

\* The stream is drained and the driver awaited.
Publish(t) ==
    /\ pc[t] = "watch" /\ agent[t] # "on"
    /\ IF t \in fenced
       THEN IF Held(t) THEN Intend(t, "publishing") ELSE GiveUp(t)
       ELSE Goto(t, "scan") /\ UNCHANGED <<row, origin, agent>>

\* Mutant: a lapsed lease is as good as a live one.
FinishLate(t) ==
    /\ pc[t] = "scan"
    /\ IF t \in fenced \/ status[run[t]] = "running"
       THEN Intend(t, IF agent[t] = "success" THEN "success" ELSE "failed")
       ELSE Goto(t, "done") /\ UNCHANGED <<row, origin, agent>>

\* The outcome is written after the artifacts were scanned.
Finish(t) ==
    /\ pc[t] = "scan"
    /\ IF MayWrite(t)
       THEN Intend(t, IF agent[t] = "success" THEN "success" ELSE "failed")
       ELSE Goto(t, "done") /\ UNCHANGED <<row, origin, agent>>

\* Something the task awaits raises, before the agent runs or behind it.
Stumble(t) ==
    /\ pc[t] \in {"acquire", "begin", "dispatch", "watch", "scan"}
    /\ agent[t] # "on"
    /\ GiveUp(t)

-----------------------------------------------------------------------------
(* Leases, heartbeats, reconcilers, crashes.                               *)

\* The heartbeat cancels the task.  The turn it watches is another task, which
\* ends too only if it is being awaited itself.
Cancel(t) ==
    /\ Goto(t, "done")
    /\ agent' \in {agent, [agent EXCEPT ![t] = IF @ = "on" THEN "failed" ELSE @]}
    /\ UNCHANGED <<row, origin>>

\* The claim cannot be renewed, and not because the run is over.
HeartbeatLost(t) ==
    /\ Busy(t) /\ t \in fenced
    /\ ~Held(t) /\ status[run[t]] \notin {"success", "failed"}
    /\ Cancel(t)

\* The renewal raises, or the worker is stopped.
HeartbeatFails(t) ==
    /\ Busy(t) /\ t \in fenced
    /\ Cancel(t)

\* The process ends; an exception outside the try block has the same effect.
Crash(t) ==
    /\ pc[t] \notin {"idle", "done"} \/ agent[t] = "on"
    /\ pc' = [pc EXCEPT ![t] = "done"]
    /\ goal' = [goal EXCEPT ![t] = "none"]
    /\ agent' = [agent EXCEPT ![t] = IF @ = "on" THEN "failed" ELSE @]
    /\ UNCHANGED <<row, origin, run, fenced, box>>

\* Time passes without a renewal.
LeaseLapses(r) ==
    /\ lease[r] = "live"
    /\ SlowCommits \/ pc[owner[r]] # "store"
    /\ lease' = [lease EXCEPT ![r] = "lapsed"]
    /\ UNCHANGED <<status, phase, owner, sandbox, origin, task, agent>>

\* Mutant: runs that publish count as good as done.
ExpiredUnpublished == {r \in Runs : status[r] = "running" /\ lease[r] # "live" /\ phase[r] # "publishing"}
Expired == {r \in Runs : status[r] = "running" /\ lease[r] # "live"}

\* Mutant: whatever was not published can be run again.
RequeueableUnpublished(r) == phase[r] # "publishing" /\ owner[r] # NoTask
Requeueable(r) == phase[r] = "preparing" /\ owner[r] # NoTask

\* Runs whose lease lapsed are queued again while they are being prepared and
\* given up as unknown once they may have had effects.
Reconcile ==
    /\ Expired # {}
    /\ status' = [r \in Runs |-> IF r \notin Expired THEN status[r]
                                 ELSE IF Requeueable(r) THEN "queued" ELSE "unknown"]
    /\ phase' = [r \in Runs |-> IF r \notin Expired THEN phase[r]
                                ELSE IF Requeueable(r) THEN "queued" ELSE "terminal"]
    /\ owner' = [r \in Runs |-> IF r \in Expired THEN NoTask ELSE owner[r]]
    /\ lease' = [r \in Runs |-> IF r \in Expired THEN "none" ELSE lease[r]]
    /\ UNCHANGED <<sandbox, origin, task, agent>>

-----------------------------------------------------------------------------
\* What a task does by itself.
Step(t) ==
    \/ Spawn(t) \/ Look(t) \/ ClaimOwn(t)
    \/ Verify(t) \/ Check(t) \/ Acquire(t) \/ Freeze(t)
    \/ Begin(t) \/ Dispatch(t) \/ Publish(t) \/ Finish(t) \/ Store(t)

Next ==
    \/ \E j \in {"on", "paused", "barred", "gone"} : SetJob(j)
    \/ ChangeRule
    \/ \E r \in Runs : Enqueue(r) \/ LeaseLapses(r)
    \/ \E t \in Tasks, r \in Runs : Trigger(t, r) \/ Claim(t, r)
    \/ \E t \in Tasks : Step(t) \/ SpawnFails(t) \/ Stumble(t) \/ AgentEnds(t)
                        \/ HeartbeatLost(t) \/ HeartbeatFails(t) \/ Crash(t)
    \/ Reconcile

Spec == Init /\ [][Next]_vars

-----------------------------------------------------------------------------
(* Properties.                                                             *)

\* The agent of a run is started at most once, over all requeueing, crashes
\* and late tasks (reconcile_expired_cron_runs: started work is not replayed).
AgentStartsOnce == \A r \in Runs : Cardinality(Started(r)) <= 1

\* A success is that of an agent of the run, whoever writes it and however late.
SuccessIsEarned == \A r \in Runs : status[r] = "success" => \E t \in Started(r) : agent[t] = "success"

\* A run that is reported as succeeded or failed has no agent running, and a
\* success is that of its agent (run_cron_job, _mark_run_failed).
OutcomeIsKnown ==
    /\ \A r \in Runs : status[r] \in {"success", "failed"} => \A t \in Started(r) : agent[t] # "on"
    /\ SuccessIsEarned

\* An outcome, once written, is never replaced by a late task or a reconciler.
OutcomeStays == [][\A r \in Runs : status[r] \in Final => status'[r] = status[r]]_vars

\* With slow commits too, one thing only replaces an outcome: the write of a task
\* of the run that had read its row before (the reads lock nothing).  Reconcilers,
\* claims and tasks without a claim never do, and the run is not run again.
ReplacedByLateWritesOnly ==
    [][\A r \in Runs : status[r] \in Final /\ status'[r] # status[r] =>
          \E t \in Tasks : /\ run[t] = r /\ pc[t] = "store"
                           /\ goal[t] = status'[r] /\ goal[t] \in {"success", "failed"}]_vars

\* An agent runs in the sandbox that is frozen on its run, whatever the user
\* was bound to when each task connected (_set_run_sandbox_id).
RunsInItsSandbox == \A t \in Tasks : agent[t] # "none" => box[t] = sandbox[run[t]]

-----------------------------------------------------------------------------
(* Liveness.                                                               *)

\* Event loops run, turns end, time passes for a dead task's lease, reconcilers
\* loop and the workers look at the queue.
Fairness ==
    /\ \A t \in Tasks : WF_vars(Step(t)) /\ WF_vars(AgentEnds(t)) /\ WF_vars(HeartbeatLost(t))
    /\ WF_vars(\E r \in Runs : LeaseLapses(r) /\ pc[owner[r]] = "done")
    /\ WF_vars(\E t \in Tasks, r \in Runs : Claim(t, r))
    /\ WF_vars(Reconcile)

\* Every run that was queued gets an outcome, as long as there are tasks to
\* take it up: neither a lost task nor a lapsed lease strands it.
EveryRunSettles ==
    \A r \in Runs : status[r] # "none" ~> (status[r] \in Final \/ Idle = {})
=============================================================================
