--------------------------- MODULE CronRuns_proofs ---------------------------
(***************************************************************************)
(* Proofs about CronRuns, for any number of runs, tasks and sandboxes, and *)
(* in every behaviour: other workers may look at the queue while a trigger *)
(* spawns, tasks may work without a claim, and leases may lapse between a  *)
(* read and its write.                                                     *)
(*                                                                         *)
(* Some of what the runs check is then false.  What stays true is that an  *)
(* agent runs in the sandbox of its run, that a success is an agent's, who *)
(* alone replaces an outcome, and who alone starts an agent a second time. *)
(* The last needs to know which tasks have lost their claim between a read *)
(* and its write: the history variable late collects them, and changes     *)
(* nothing of what happens.                                                *)
(***************************************************************************)
EXTENDS CronRuns, FiniteSetTheorems, TLAPS

VARIABLE late

\* About to write what they read, with a claim that is not theirs any more.
Overtaken == {t \in fenced : pc[t] = "store" /\ ~Held(t)}

WatchedInit == Init /\ late = {}
WatchedNext == Next /\ late' = late \cup Overtaken'
WatchedSpec == WatchedInit /\ [][WatchedNext]_<<vars, late>>

-----------------------------------------------------------------------------
Preparing == {"verify", "check", "acquire", "freeze", "begin"}

\* t has crossed into execution, and may still start its agent or has done so.
Committed(t) ==
    \/ pc[t] \in {"dispatch", "watch", "scan"}
    \/ pc[t] = "store" /\ goal[t] \in {"publishing", "success"}
    \/ agent[t] # "none"

\* t has frozen the sandbox of its run.
Frozen(t) ==
    \/ pc[t] = "begin"
    \/ pc[t] = "store" /\ goal[t] = "executing"
    \/ Committed(t)

\* Where a task may be.
TaskOk(t) ==
    /\ pc[t] = "idle" => run[t] = NoRun
    /\ pc[t] \in {"idle", "trigger", "look", "claim"} => t \notin fenced /\ agent[t] = "none"
    /\ agent[t] # "none" => pc[t] \in {"watch", "scan", "store", "done"}
    /\ agent[t] = "on" => pc[t] \in {"watch", "done"}
    /\ pc[t] = "freeze" => box[t] \in Sandboxes
    /\ pc[t] = "store" =>
          /\ goal[t] # "none"
          /\ goal[t] = "success" => agent[t] = "success"
          /\ goal[t] = "executing" => t \in fenced /\ agent[t] = "none"

TaskInv == \A t \in Tasks : TaskOk(t)

\* A sandbox, once frozen, is the one of every task that got past its freeze.
SandboxInv == \A t \in Tasks : Frozen(t) => box[t] \in Sandboxes /\ box[t] = sandbox[run[t]]

\* A run has tasks only once it is queued; the one without a claim is its trigger's.
TriggerInv ==
    /\ \A r \in Runs : status[r] = "none" => \A t \in Tasks : run[t] # r
    /\ \A t \in Tasks \ fenced : run[t] \in Runs =>
          run[t] \in manual /\ \A u \in Tasks \ fenced : run[u] = run[t] => u = t

IInv == TypeOK /\ TaskInv /\ SandboxInv /\ TriggerInv /\ SuccessIsEarned

\* A run that t has carried into execution: nobody prepares it again.
Carried(r, t) ==
    \/ status[r] \in Final
    \/ status[r] = "running" /\ phase[r] \in {"executing", "publishing"} /\ owner[r] = t

\* Of the claimed tasks of a run that lost nothing, one at most has crossed.
CommitInv ==
    \A t \in fenced \ late : Committed(t) =>
        /\ Carried(run[t], t)
        /\ \A u \in fenced \ late : Committed(u) /\ run[u] = run[t] => u = t

WatchedInv == IInv /\ Overtaken \subseteq late /\ CommitInv

USE DEF Preparing, Final

-----------------------------------------------------------------------------
(* Type correctness.                                                       *)

\* Every action keeps the types.
LEMMA TypeStep == ASSUME TypeOK, [Next]_vars PROVE TypeOK'
<1> USE CronRunsAssumption DEF TypeOK, row, origin, task
<1>1. ASSUME NEW j \in {"on", "paused", "barred", "gone"}, SetJob(j) PROVE TypeOK'
  BY <1>1 DEF SetJob
<1>2. CASE ChangeRule
  BY <1>2 DEF ChangeRule
<1>3. ASSUME NEW r \in Runs, Enqueue(r) PROVE TypeOK'
  BY <1>3 DEF Enqueue, Queue
<1>4. ASSUME NEW t \in Tasks, NEW r \in Runs, Trigger(t, r) PROVE TypeOK'
  BY <1>4 DEF Trigger, Queue
<1>5. ASSUME NEW t \in Tasks, NEW r \in Runs, Take(t, r) PROVE TypeOK'
  BY <1>5 DEF Take
<1>6. ASSUME NEW t \in Tasks, NEW l \in {"look", "claim", "verify", "check", "begin",
                                         "dispatch", "watch", "scan", "done"},
             Goto(t, l), UNCHANGED <<row, origin, agent>>,
             pc[t] # "idle"
      PROVE  TypeOK'
  BY <1>6 DEF Goto
<1>7. ASSUME NEW t \in Tasks, NEW g \in {"executing", "publishing", "success", "failed"},
             Intend(t, g), pc[t] # "idle"
      PROVE  TypeOK'
  BY <1>7 DEF Intend
<1>8. ASSUME NEW t \in Tasks, GiveUp(t), pc[t] # "idle" PROVE TypeOK'
  BY <1>6, <1>7, <1>8 DEF GiveUp
<1>9. ASSUME NEW t \in Tasks, Spawn(t) \/ SpawnFails(t) \/ Verify(t) \/ Begin(t) \/ Publish(t)
                              \/ Finish(t) \/ Stumble(t)
      PROVE  TypeOK'
  BY <1>6, <1>7, <1>8, <1>9 DEF Spawn, SpawnFails, Verify, Begin, Publish, Finish, Stumble
<1>10. ASSUME NEW t \in Tasks, Look(t) PROVE TypeOK'
  BY <1>6, <1>10 DEF Look
<1>11. ASSUME NEW t \in Tasks, ClaimOwn(t) PROVE TypeOK'
  BY <1>5, <1>6, <1>11 DEF ClaimOwn
<1>12. ASSUME NEW t \in Tasks, Store(t) PROVE TypeOK'
  <2>1. CASE goal[t] \in Final
    BY <1>12, <2>1 DEF Store, Settle
  <2>2. CASE goal[t] \notin Final
    BY <1>12, <2>2 DEF Store
  <2> QED BY <2>1, <2>2
<1>13. ASSUME NEW t \in Tasks, Check(t) PROVE TypeOK'
  BY <1>13 DEF Check, Goto
<1>14. ASSUME NEW t \in Tasks, Acquire(t) PROVE TypeOK'
  BY <1>14 DEF Acquire
<1>15. ASSUME NEW t \in Tasks, Freeze(t) PROVE TypeOK'
  BY <1>8, <1>15 DEF Freeze, Goto
<1>16. ASSUME NEW t \in Tasks, Dispatch(t) PROVE TypeOK'
  BY <1>16 DEF Dispatch, Goto
<1>17. ASSUME NEW t \in Tasks, AgentEnds(t) PROVE TypeOK'
  BY <1>17 DEF AgentEnds
<1>18. ASSUME NEW t \in Tasks, HeartbeatLost(t) \/ HeartbeatFails(t) PROVE TypeOK'
  BY <1>18 DEF HeartbeatLost, HeartbeatFails, Cancel, Goto, Busy
<1>19. ASSUME NEW t \in Tasks, Crash(t) PROVE TypeOK'
  BY <1>19 DEF Crash
<1>20. ASSUME NEW r \in Runs, LeaseLapses(r) PROVE TypeOK'
  BY <1>20 DEF LeaseLapses
<1>21. CASE Reconcile
  BY <1>21 DEF Reconcile
<1>22. CASE UNCHANGED vars
  BY <1>22 DEF vars
<1> QED BY <1>1, <1>2, <1>3, <1>4, <1>5, <1>9, <1>10, <1>11, <1>12, <1>13, <1>14, <1>15,
           <1>16, <1>17, <1>18, <1>19, <1>20, <1>21, <1>22 DEF Next, Step, Claim

\* The rows and the tasks keep their types.
THEOREM TypeCorrect == Spec => []TypeOK
<1>1. Init => TypeOK
  BY DEF Init, TypeOK
<1> QED BY <1>1, TypeStep, PTL DEF Spec

-----------------------------------------------------------------------------
(* What a step of a task does.                                             *)

Acts(t) ==
    \/ \E r \in Runs : Trigger(t, r) \/ Claim(t, r)
    \/ Step(t) \/ SpawnFails(t) \/ Stumble(t) \/ AgentEnds(t)
    \/ HeartbeatLost(t) \/ HeartbeatFails(t) \/ Crash(t)

\* The other tasks are left alone.
Alone(t) ==
    \A u \in Tasks \ {t} :
        /\ pc'[u] = pc[u] /\ run'[u] = run[u] /\ box'[u] = box[u]
        /\ goal'[u] = goal[u] /\ agent'[u] = agent[u]
        /\ u \in fenced' <=> u \in fenced

\* What t does to itself, and to the sandbox of its run.
Moves(t) ==
    /\ TaskOk(t)'
    /\ Frozen(t)' => /\ box'[t] = box[t] /\ run'[t] = run[t]
                     /\ Frozen(t) \/ (box[t] \in Sandboxes /\ sandbox'[run[t]] = box[t])
    /\ Committed(t)' /\ t \in fenced' => Committed(t) \/ (Store(t) /\ goal[t] = "executing")
    /\ agent[t] = "success" => agent'[t] = "success"
    /\ pc[t] # "idle" => run'[t] = run[t]

\* The task ends or goes on, and freezes nothing.
LEMMA GotoMoves ==
    ASSUME TypeOK, TypeOK', TaskInv, NEW t \in Tasks, pc[t] \notin {"idle", "store"},
           NEW l \in {"look", "claim", "verify", "check", "scan", "done"},
           Goto(t, l), agent' = agent, fenced' = fenced,
           l \in {"look", "claim"} => t \notin fenced,
           l = "scan" => pc[t] = "watch" /\ agent[t] # "on",
           agent[t] = "none" \/ l \in {"scan", "done"}
    PROVE  Moves(t)
<1>1. /\ pc'[t] = l /\ run' = run /\ box' = box /\ goal' = goal
      /\ pc[t] \in {"scan", "watch", "done"} \/ agent[t] = "none"
  BY DEF Goto, TypeOK, TaskInv, TaskOk
<1>2. TaskOk(t)'
  BY <1>1 DEF TaskInv, TaskOk
<1>3. Committed(t)' => Committed(t)
  BY <1>1 DEF Committed
<1>4. Frozen(t)' => Frozen(t)
  BY <1>1, <1>3 DEF Frozen
<1> QED BY <1>1, <1>2, <1>3, <1>4 DEF Moves

LEMMA IntendMoves ==
    ASSUME TypeOK, TypeOK', TaskInv, NEW t \in Tasks, pc[t] \notin {"idle", "store", "done"},
           NEW g \in {"executing", "publishing", "success", "failed"}, Intend(t, g),
           agent[t] # "on",
           g = "executing" => t \in fenced /\ pc[t] = "begin",
           g = "publishing" => pc[t] = "watch",
           g = "success" => pc[t] = "scan" /\ agent[t] = "success"
    PROVE  Moves(t)
<1>1. /\ pc'[t] = "store" /\ goal'[t] = g /\ run' = run /\ box' = box
      /\ agent' = agent /\ fenced' = fenced
  BY DEF Intend, TypeOK
<1>2. TaskOk(t)'
  BY <1>1 DEF TaskInv, TaskOk
<1>3. Committed(t)' => Committed(t)
  BY <1>1 DEF Committed
<1>4. Frozen(t)' => Frozen(t)
  BY <1>1, <1>3 DEF Frozen
<1> QED BY <1>1, <1>2, <1>3, <1>4 DEF Moves

LEMMA GiveUpMoves ==
    ASSUME TypeOK, TypeOK', TaskInv, NEW t \in Tasks, pc[t] \notin {"idle", "store", "done"},
           agent[t] # "on", GiveUp(t)
    PROVE  Moves(t)
<1>1. CASE Intend(t, "failed")
  BY <1>1, IntendMoves
<1>2. CASE Goto(t, "done") /\ UNCHANGED <<row, origin, agent>>
  BY <1>2, GotoMoves DEF Goto
<1> QED BY <1>1, <1>2 DEF GiveUp

LEMMA TakeMoves ==
    ASSUME TypeOK, TypeOK', TaskInv, NEW t \in Tasks, NEW r \in Runs, Take(t, r),
           pc[t] \in {"idle", "claim"}, pc[t] = "claim" => run[t] = r
    PROVE  Moves(t)
<1>1. /\ pc'[t] = "verify" /\ run'[t] = r /\ box' = box /\ goal' = goal /\ agent' = agent
      /\ agent[t] = "none"
  BY DEF Take, TypeOK, TaskInv, TaskOk
<1>2. TaskOk(t)' /\ ~Committed(t)' /\ ~Frozen(t)'
  BY <1>1 DEF TaskOk, Committed, Frozen
<1> QED BY <1>1, <1>2 DEF Moves

LEMMA StoreMoves ==
    ASSUME TypeOK, TypeOK', TaskInv, NEW t \in Tasks, Store(t)
    PROVE  Moves(t)
<1>1. /\ run' = run /\ box' = box /\ agent' = agent /\ fenced' = fenced /\ pc[t] = "store"
      /\ agent[t] # "on"
      /\ goal[t] = "executing" => t \in fenced /\ agent[t] = "none"
  BY DEF Store, TaskInv, TaskOk
<1>2. CASE goal[t] \in Final
  <2>1. pc'[t] = "done"
    BY <1>2 DEF Store, TypeOK
  <2>2. TaskOk(t)'
    BY <1>1, <2>1 DEF TaskOk
  <2>3. Committed(t)' => Committed(t)
    BY <1>1, <2>1 DEF Committed
  <2>4. Frozen(t)' => Frozen(t)
    BY <1>1, <2>1, <2>3 DEF Frozen
  <2> QED BY <1>1, <2>2, <2>3, <2>4 DEF Moves
<1>3. CASE goal[t] \in {"executing", "publishing"}
  <2>1. pc'[t] = IF goal[t] = "executing" THEN "dispatch" ELSE "scan"
    BY <1>3 DEF Store, TypeOK
  <2>2. TaskOk(t)'
    BY <1>1, <2>1 DEF TaskOk
  <2>3. Frozen(t) /\ (Committed(t)' => Committed(t) \/ goal[t] = "executing")
    BY <1>1, <1>3, <2>1 DEF Committed, Frozen
  <2> QED BY <1>1, <2>2, <2>3 DEF Moves
<1> QED BY <1>2, <1>3 DEF Store

\* Without a claim the task runs on without asking, as far as this goes.
LEMMA ActsMoves ==
    ASSUME TypeOK, TypeOK', TaskInv, NEW t \in Tasks, Acts(t)
    PROVE  Moves(t)
<1>0. TaskOk(t)
  BY DEF TaskInv
<1>1. ASSUME NEW r \in Runs, Trigger(t, r) PROVE Moves(t)
  <2>1. /\ pc[t] = "idle" /\ pc'[t] = "trigger" /\ fenced' = fenced /\ box' = box /\ agent' = agent
    BY <1>1 DEF Trigger, TypeOK
  <2>2. TaskOk(t)' /\ ~Committed(t)' /\ ~Frozen(t)'
    BY <1>0, <2>1 DEF TaskOk, Committed, Frozen
  <2> QED BY <2>1, <2>2 DEF Moves
<1>2. ASSUME NEW r \in Runs, Claim(t, r) PROVE Moves(t)
  BY <1>2, TakeMoves DEF Claim
<1>3. CASE Spawn(t) \/ SpawnFails(t) \/ Look(t)
  <2>1. agent[t] = "none" /\ t \notin fenced /\ pc[t] \in {"trigger", "look"}
    BY <1>0, <1>3 DEF TaskOk, Spawn, SpawnFails, Look
  <2> QED BY <1>3, <2>1, GotoMoves, GiveUpMoves DEF Spawn, SpawnFails, Look, Goto
<1>4. CASE ClaimOwn(t)
  <2>1. pc[t] = "claim" /\ agent[t] = "none" /\ run[t] \in Runs
    BY <1>0, <1>4 DEF ClaimOwn, TaskOk, TypeOK
  <2> QED BY <1>4, <2>1, GotoMoves, TakeMoves DEF ClaimOwn, Goto
<1>5. CASE Verify(t)
  BY <1>0, <1>5, GotoMoves, GiveUpMoves DEF Verify, Goto, TaskOk
<1>6. CASE Check(t)
  <2>1. agent[t] = "none" /\ agent' = agent /\ fenced' = fenced /\ pc[t] = "check"
    BY <1>0, <1>6 DEF Check, Goto, TaskOk
  <2>2. CASE Goto(t, "done")
    BY <2>1, <2>2, GotoMoves
  <2>3. CASE ~Goto(t, "done")
    <3>1. pc'[t] = "acquire" /\ run' = run
      BY <1>6, <2>3 DEF Check, TypeOK
    <3>2. TaskOk(t)' /\ ~Committed(t)' /\ ~Frozen(t)'
      BY <2>1, <3>1 DEF TaskOk, Committed, Frozen
    <3> QED BY <2>1, <3>1, <3>2 DEF Moves
  <2> QED BY <2>2, <2>3
<1>7. CASE Acquire(t)
  <2>1. /\ agent[t] = "none" /\ agent' = agent /\ fenced' = fenced /\ run' = run
        /\ pc'[t] = "freeze" /\ box'[t] \in Sandboxes
    BY <1>0, <1>7 DEF Acquire, TaskOk, TypeOK
  <2>2. TaskOk(t)' /\ ~Committed(t)' /\ ~Frozen(t)'
    BY <2>1 DEF TaskOk, Committed, Frozen
  <2> QED BY <2>1, <2>2 DEF Moves
<1>8. CASE Freeze(t)
  <2>1. pc[t] = "freeze" /\ agent[t] = "none" /\ box[t] \in Sandboxes /\ run[t] \in Runs
    BY <1>0, <1>8 DEF Freeze, TaskOk, TypeOK
  <2>2. CASE GiveUp(t)
    BY <2>1, <2>2, GiveUpMoves
  <2>3. CASE ~GiveUp(t)
    <3>1. sandbox' = [sandbox EXCEPT ![run[t]] = box[t]] /\ Goto(t, "begin") /\ agent' = agent
      BY <1>8, <2>3 DEF Freeze
    <3>2. /\ sandbox'[run[t]] = box[t] /\ pc'[t] = "begin"
          /\ UNCHANGED <<run, fenced, box, goal, agent>>
      BY <2>1, <3>1 DEF Goto, TypeOK
    <3>3. TaskOk(t)' /\ ~Committed(t)'
      BY <2>1, <3>2 DEF TaskOk, Committed
    <3> QED BY <2>1, <3>2, <3>3 DEF Moves
  <2> QED BY <2>2, <2>3
<1>9. CASE Begin(t)
  <2>1. pc[t] = "begin" /\ agent[t] = "none"
    BY <1>0, <1>9 DEF Begin, TaskOk
  <2>2. CASE t \in fenced
    BY <1>9, <2>1, <2>2, IntendMoves, GiveUpMoves DEF Begin
  <2>3. CASE t \notin fenced
    <3>1. pc'[t] = "dispatch" /\ UNCHANGED <<run, fenced, box, goal, agent>>
      BY <1>9, <2>3 DEF Begin, Goto, TypeOK
    <3>2. TaskOk(t)' /\ Frozen(t)
      BY <2>1, <3>1 DEF TaskOk, Frozen
    <3> QED BY <2>1, <2>3, <3>1, <3>2 DEF Moves
  <2> QED BY <2>2, <2>3
<1>10. CASE Dispatch(t)
  <2>1. /\ pc[t] = "dispatch" /\ agent[t] = "none" /\ pc'[t] = "watch" /\ agent'[t] = "on"
        /\ UNCHANGED <<run, fenced, box, goal>>
    BY <1>0, <1>10 DEF Dispatch, Goto, TaskOk, TypeOK
  <2>2. TaskOk(t)' /\ Committed(t) /\ Frozen(t)
    BY <2>1 DEF TaskOk, Committed, Frozen
  <2> QED BY <2>1, <2>2 DEF Moves
<1>11. CASE Publish(t)
  BY <1>0, <1>11, GotoMoves, IntendMoves, GiveUpMoves DEF Publish, Goto, TaskOk
<1>12. CASE Finish(t)
  BY <1>0, <1>12, GotoMoves, IntendMoves DEF Finish, Goto, TaskOk
<1>13. CASE Store(t)
  BY <1>13, StoreMoves
<1>14. CASE Stumble(t)
  BY <1>14, GiveUpMoves DEF Stumble
<1>15. CASE AgentEnds(t)
  <2>1. /\ agent[t] = "on" /\ agent'[t] \in {"success", "failed"} /\ UNCHANGED task
        /\ pc[t] \in {"watch", "done"}
    BY <1>0, <1>15 DEF AgentEnds, TaskOk, TypeOK
  <2>2. TaskOk(t)' /\ Committed(t) /\ Frozen(t)
    BY <1>0, <2>1 DEF TaskOk, Committed, Frozen, task
  <2> QED BY <2>1, <2>2 DEF Moves, task
<1>16. CASE HeartbeatLost(t) \/ HeartbeatFails(t) \/ Crash(t)
  <2>1. /\ pc[t] # "idle" /\ pc'[t] = "done" /\ UNCHANGED <<run, fenced, box>>
        /\ agent'[t] \in {agent[t], "failed"} /\ (agent[t] # "on" => agent'[t] = agent[t])
        /\ agent'[t] # "on" \/ agent[t] = "on"
    BY <1>0, <1>16 DEF HeartbeatLost, HeartbeatFails, Crash, Cancel, Goto, Busy, TaskOk, TypeOK
  <2>2. TaskOk(t)'
    BY <2>1 DEF TaskOk
  <2>3. Committed(t)' => Committed(t)
    BY <2>1 DEF Committed
  <2>4. Frozen(t)' => Frozen(t)
    BY <2>1, <2>3 DEF Frozen
  <2> QED BY <2>1, <2>2, <2>3, <2>4 DEF Moves
<1> QED
  BY <1>1, <1>2, <1>3, <1>4, <1>5, <1>6, <1>7, <1>8, <1>9, <1>10, <1>11, <1>12, <1>13, <1>14,
     <1>15, <1>16 DEF Acts, Step

LEMMA ActsAlone ==
    ASSUME TypeOK, NEW t \in Tasks, Acts(t)
    PROVE  Alone(t)
<1> USE DEF Alone, TypeOK, origin, task
<1>1. ASSUME NEW l, Goto(t, l), agent' = agent PROVE Alone(t)
  BY <1>1 DEF Goto
<1>2. ASSUME NEW g, Intend(t, g) PROVE Alone(t)
  BY <1>2 DEF Intend
<1>3. ASSUME GiveUp(t) PROVE Alone(t)
  BY <1>1, <1>2, <1>3 DEF GiveUp
<1>4. ASSUME NEW r \in Runs, Take(t, r) PROVE Alone(t)
  BY <1>4 DEF Take
<1>5. ASSUME NEW r \in Runs, Trigger(t, r) \/ Claim(t, r) PROVE Alone(t)
  BY <1>4, <1>5 DEF Trigger, Claim
<1>6. CASE Spawn(t) \/ Look(t) \/ Verify(t) \/ Begin(t) \/ Publish(t) \/ Finish(t) \/ SpawnFails(t) \/ Stumble(t)
  BY <1>1, <1>2, <1>3, <1>6 DEF Spawn, Look, Verify, Begin, Publish, Finish, SpawnFails, Stumble
<1>7. CASE ClaimOwn(t)
  BY <1>1, <1>4, <1>7 DEF ClaimOwn
<1>8. CASE Check(t)
  BY <1>1, <1>8 DEF Check
<1>9. CASE Acquire(t)
  BY <1>9 DEF Acquire
<1>10. CASE Freeze(t)
  BY <1>1, <1>3, <1>10 DEF Freeze
<1>11. CASE Dispatch(t)
  BY <1>11 DEF Dispatch, Goto
<1>12. CASE Store(t)
  BY <1>12 DEF Store
<1>13. CASE AgentEnds(t)
  BY <1>13 DEF AgentEnds
<1>14. CASE HeartbeatLost(t) \/ HeartbeatFails(t)
  BY <1>14 DEF HeartbeatLost, HeartbeatFails, Cancel, Goto
<1>15. CASE Crash(t)
  BY <1>15 DEF Crash
<1> QED
  BY <1>5, <1>6, <1>7, <1>8, <1>9, <1>10, <1>11, <1>12, <1>13, <1>14, <1>15 DEF Acts, Step

\* Every other step leaves the tasks alone.
LEMMA WhoActs ==
    ASSUME [Next]_vars
    PROVE  (\E t \in Tasks : Acts(t)) \/ UNCHANGED <<task, agent, sandbox>>
<1>1. CASE UNCHANGED vars
  BY <1>1 DEF vars, row
<1>2. ASSUME NEW j, SetJob(j) PROVE UNCHANGED <<task, agent, sandbox>>
  BY <1>2 DEF SetJob, row
<1>3. CASE ChangeRule
  BY <1>3 DEF ChangeRule, row
<1>4. ASSUME NEW r, Enqueue(r) \/ LeaseLapses(r) PROVE UNCHANGED <<task, agent, sandbox>>
  BY <1>4 DEF Enqueue, Queue, LeaseLapses
<1>5. CASE Reconcile
  BY <1>5 DEF Reconcile
<1> QED BY <1>1, <1>2, <1>3, <1>4, <1>5 DEF Next, Acts

-----------------------------------------------------------------------------
(* What a step does to the rows.                                           *)

\* The places where the columns of a row are written.
LEMMA WhoWrites ==
    ASSUME TypeOK, [Next]_vars
    PROVE  \/ UNCHANGED <<status, phase, owner, manual>>
           \/ \E r \in Runs : Queue(r) /\ manual \subseteq manual'
           \/ \E t \in Tasks, r \in Runs : status[r] = "queued" /\ Take(t, r)
           \/ \E t \in Tasks : Check(t) \/ Store(t)
           \/ Reconcile
<1> USE DEF row, origin
<1>1. CASE UNCHANGED vars
  BY <1>1 DEF vars
<1>2. ASSUME NEW t \in Tasks, GiveUp(t) PROVE UNCHANGED <<status, phase, owner, manual>>
  BY <1>2 DEF GiveUp, Intend
<1>3. ASSUME NEW t \in Tasks,
             \/ Spawn(t) \/ Look(t) \/ Verify(t) \/ Acquire(t) \/ Freeze(t) \/ Begin(t)
             \/ Dispatch(t) \/ Publish(t) \/ Finish(t) \/ SpawnFails(t) \/ Stumble(t)
      PROVE  UNCHANGED <<status, phase, owner, manual>>
  BY <1>2, <1>3 DEF Spawn, Look, Verify, Acquire, Freeze, Begin, Dispatch, Publish, Finish, Intend,
                    SpawnFails, Stumble
<1>4. ASSUME NEW t \in Tasks, AgentEnds(t) \/ HeartbeatLost(t) \/ HeartbeatFails(t) \/ Crash(t)
      PROVE  UNCHANGED <<status, phase, owner, manual>>
  BY <1>4 DEF AgentEnds, HeartbeatLost, HeartbeatFails, Cancel, Crash
<1>5. ASSUME NEW t \in Tasks, ClaimOwn(t)
      PROVE  \/ UNCHANGED <<status, phase, owner, manual>>
             \/ \E r \in Runs : status[r] = "queued" /\ Take(t, r)
  <2>1. run[t] \in Runs
    BY <1>5 DEF ClaimOwn, TypeOK
  <2> QED BY <1>5, <2>1 DEF ClaimOwn
<1>6. ASSUME NEW t \in Tasks, NEW r \in Runs, Trigger(t, r) \/ Enqueue(r)
      PROVE  Queue(r) /\ manual \subseteq manual'
  BY <1>6 DEF Trigger, Enqueue
<1>7. ASSUME NEW r \in Runs, Enqueue(r) PROVE Queue(r) /\ manual \subseteq manual'
  BY <1>7 DEF Enqueue
<1>8. ASSUME NEW j, SetJob(j) \/ ChangeRule PROVE UNCHANGED <<status, phase, owner, manual>>
  BY <1>8 DEF SetJob, ChangeRule
<1>9. ASSUME NEW r \in Runs, LeaseLapses(r) PROVE UNCHANGED <<status, phase, owner, manual>>
  BY <1>9 DEF LeaseLapses
<1> QED BY <1>1, <1>3, <1>4, <1>5, <1>6, <1>7, <1>8, <1>9 DEF Next, Step, Claim

-----------------------------------------------------------------------------
(* The invariant.                                                          *)

LEMMA InitIInv == ASSUME Init PROVE IInv
<1> USE CronRunsAssumption DEF Init
<1>1. TypeOK
  BY DEF TypeOK
<1>2. TaskInv /\ TriggerInv /\ SuccessIsEarned
  BY DEF TaskInv, TaskOk, TriggerInv, SuccessIsEarned
<1>3. SandboxInv
  BY DEF SandboxInv, Frozen, Committed
<1> QED BY <1>1, <1>2, <1>3 DEF IInv

\* The sandbox of a run is written by Freeze only, and then for good.
LEMMA SandboxStays ==
    ASSUME TypeOK, [Next]_vars
    PROVE  \A r \in Runs : sandbox[r] # NoSandbox => sandbox'[r] = sandbox[r]
<1> USE DEF row
<1>1. ASSUME NEW t \in Tasks, GiveUp(t) PROVE sandbox' = sandbox
  BY <1>1 DEF GiveUp, Intend
<1>2. ASSUME NEW t \in Tasks, Freeze(t)
      PROVE  \A r \in Runs : sandbox[r] # NoSandbox => sandbox'[r] = sandbox[r]
  BY <1>1, <1>2 DEF Freeze, TypeOK
<1>3. ASSUME NEW t \in Tasks,
             \/ Spawn(t) \/ Look(t) \/ Verify(t) \/ Check(t) \/ Acquire(t) \/ Begin(t)
             \/ Dispatch(t) \/ Publish(t) \/ Finish(t) \/ SpawnFails(t) \/ Stumble(t)
      PROVE  sandbox' = sandbox
  BY <1>1, <1>3 DEF Spawn, Look, Verify, Check, Acquire, Begin, Dispatch, Publish, Finish, Intend,
                    SpawnFails, Stumble
<1>4. ASSUME NEW t \in Tasks, AgentEnds(t) \/ HeartbeatLost(t) \/ HeartbeatFails(t) \/ Crash(t)
      PROVE  sandbox' = sandbox
  BY <1>4 DEF AgentEnds, HeartbeatLost, HeartbeatFails, Cancel, Crash
<1>5. ASSUME NEW t \in Tasks, ClaimOwn(t) \/ Store(t) PROVE sandbox' = sandbox
  BY <1>5 DEF ClaimOwn, Take, Store, Settle
<1>6. ASSUME NEW t \in Tasks, NEW r \in Runs, Trigger(t, r) \/ Claim(t, r) PROVE sandbox' = sandbox
  BY <1>6 DEF Trigger, Queue, Claim, Take
<1>7. (\E t \in Tasks : Acts(t)) \/ sandbox' = sandbox
  BY WhoActs
<1> QED BY <1>2, <1>3, <1>4, <1>5, <1>6, <1>7 DEF Acts, Step

LEMMA TasksKept ==
    ASSUME IInv, TypeOK', [Next]_vars
    PROVE  TaskInv' /\ SandboxInv'
<1> USE DEF IInv
<1>1. CASE UNCHANGED <<task, agent, sandbox>>
  BY <1>1 DEF task, TaskInv, TaskOk, SandboxInv, Frozen, Committed
<1>2. ASSUME NEW t \in Tasks, Acts(t) PROVE TaskInv' /\ SandboxInv'
  <2>0. Moves(t) /\ Alone(t)
    BY <1>2, ActsMoves, ActsAlone
  <2>1. TaskInv'
    BY <2>0 DEF TaskInv, TaskOk, Moves, Alone
  <2>2. ASSUME NEW u \in Tasks, Frozen(u)'
        PROVE  box'[u] \in Sandboxes /\ box'[u] = sandbox'[run'[u]]
    <3>1. CASE Frozen(u)
      <4>1. box'[u] = box[u] /\ run'[u] = run[u]
        BY <2>0, <2>2 DEF Moves, Alone
      <4>2. box[u] \in Sandboxes /\ box[u] = sandbox[run[u]]
        BY <3>1 DEF SandboxInv
      <4>3. run[u] \in Runs
        BY <3>1 DEF Frozen, Committed, TypeOK
      <4> QED BY <4>1, <4>2, <4>3, SandboxStays, CronRunsAssumption
    <3>2. CASE ~Frozen(u)
      <4>1. u = t
        BY <2>0, <2>2, <3>2 DEF Alone, Frozen, Committed
      <4> QED BY <2>0, <2>2, <3>2, <4>1 DEF Moves
    <3> QED BY <3>1, <3>2
  <2> QED BY <2>1, <2>2 DEF SandboxInv
<1> QED BY <1>1, <1>2, WhoActs

\* Only the task of a trigger comes to a run without a claim.
LEMMA TriggersKept ==
    ASSUME IInv, TypeOK', [Next]_vars
    PROVE  TriggerInv'
<1> USE DEF IInv
<1>1. ASSUME NEW t \in Tasks, NEW r \in Runs, Trigger(t, r) PROVE TriggerInv'
  <2>1. /\ status[r] = "none" /\ status'[r] = "queued" /\ manual' = manual \cup {r}
        /\ \A x \in Runs \ {r} : status'[x] = status[x]
        /\ run'[t] = r /\ \A u \in Tasks \ {t} : run'[u] = run[u]
        /\ fenced' = fenced
    BY <1>1 DEF Trigger, Queue, TypeOK
  <2>2. \A u \in Tasks : run[u] # r
    BY <2>1 DEF TriggerInv
  <2> QED BY <2>1, <2>2 DEF TriggerInv
<1>2. ASSUME NEW t \in Tasks, NEW r \in Runs, Take(t, r), status[r] = "queued" PROVE TriggerInv'
  <2>1. /\ status'[r] = "running" /\ manual' = manual
        /\ \A x \in Runs \ {r} : status'[x] = status[x]
        /\ run'[t] = r /\ \A u \in Tasks \ {t} : run'[u] = run[u]
        /\ fenced' = fenced \cup {t}
    BY <1>2 DEF Take, origin, TypeOK
  <2> QED BY <1>2, <2>1 DEF TriggerInv
<1>3. ASSUME UNCHANGED <<run, fenced>>, manual \subseteq manual',
             \A r \in Runs : status'[r] = "none" => status[r] = "none"
      PROVE  TriggerInv'
  BY <1>3 DEF TriggerInv
<1>4. ASSUME NEW r \in Runs, Enqueue(r) PROVE TriggerInv'
  BY <1>3, <1>4 DEF Enqueue, Queue, TypeOK, task
<1>5. ASSUME NEW t \in Tasks, GiveUp(t) PROVE UNCHANGED <<run, fenced, manual, status>>
  BY <1>5 DEF GiveUp, Intend, Goto, row, origin
<1>6. ASSUME NEW t \in Tasks,
             \/ Spawn(t) \/ Look(t) \/ Verify(t) \/ Acquire(t) \/ Freeze(t) \/ Begin(t)
             \/ Dispatch(t) \/ Publish(t) \/ Finish(t) \/ SpawnFails(t) \/ Stumble(t)
      PROVE  UNCHANGED <<run, fenced, manual, status>>
  BY <1>5, <1>6 DEF Spawn, Look, Verify, Acquire, Freeze, Begin, Dispatch, Publish, Finish, Intend,
                    SpawnFails, Stumble, Goto, row, origin
<1>7. ASSUME NEW t \in Tasks, AgentEnds(t) \/ HeartbeatLost(t) \/ HeartbeatFails(t) \/ Crash(t)
      PROVE  UNCHANGED <<run, fenced, manual, status>>
  BY <1>7 DEF AgentEnds, HeartbeatLost, HeartbeatFails, Cancel, Crash, Goto, task, row, origin
<1>8. ASSUME NEW t \in Tasks, ClaimOwn(t) PROVE TriggerInv'
  <2>1. run[t] \in Runs
    BY <1>8 DEF ClaimOwn, TypeOK
  <2> QED BY <1>2, <1>3, <1>8, <2>1 DEF ClaimOwn, Goto, row, origin
<1>9. ASSUME NEW t \in Tasks, Check(t) \/ Store(t) PROVE TriggerInv'
  <2>1. UNCHANGED <<run, fenced, manual>>
    BY <1>9 DEF Check, Store, Goto, origin
  <2>2. \A r \in Runs : status'[r] = "none" => status[r] = "none"
    BY <1>9 DEF Check, Store, Settle, TypeOK
  <2> QED BY <1>3, <2>1, <2>2
<1>10. CASE UNCHANGED vars
  BY <1>3, <1>10 DEF vars, row, origin, task
<1>11. ASSUME NEW j, SetJob(j) \/ ChangeRule PROVE TriggerInv'
  BY <1>3, <1>11 DEF SetJob, ChangeRule, row, task
<1>12. ASSUME NEW r \in Runs, LeaseLapses(r) PROVE TriggerInv'
  BY <1>3, <1>12 DEF LeaseLapses, origin, task
<1>13. CASE Reconcile
  BY <1>3, <1>13 DEF Reconcile, origin, task
<1> QED BY <1>1, <1>2, <1>3, <1>4, <1>6, <1>7, <1>8, <1>9, <1>10, <1>11, <1>12, <1>13
        DEF Next, Step, Claim

\* A run that succeeds has been stored so by a task whose agent succeeded.
LEMMA SuccessKept ==
    ASSUME IInv, TypeOK', [Next]_vars
    PROVE  SuccessIsEarned'
<1> USE DEF IInv
<1>1. ASSUME NEW u \in Tasks, agent[u] = "success" PROVE agent'[u] = "success" /\ run'[u] = run[u]
  <2>1. ASSUME NEW t \in Tasks, Acts(t) PROVE agent'[u] = "success" /\ run'[u] = run[u]
    BY <1>1, <2>1, ActsMoves, ActsAlone DEF Moves, Alone, TaskInv, TaskOk
  <2> QED BY <1>1, <2>1, WhoActs DEF task
<1>2. ASSUME NEW r \in Runs, status'[r] = "success"
      PROVE  status[r] = "success" \/ \E t \in Tasks : run[t] = r /\ agent[t] = "success"
  <2>1. ASSUME NEW t \in Tasks, Store(t)
        PROVE  status[r] = "success" \/ (run[t] = r /\ agent[t] = "success")
    BY <1>2, <2>1 DEF Store, Settle, TypeOK, TaskInv, TaskOk
  <2>2. ASSUME NEW t \in Tasks, Check(t) PROVE status[r] = "success"
    BY <1>2, <2>2 DEF Check, TypeOK
  <2>3. ASSUME NEW x \in Runs, Queue(x) PROVE status[r] = "success"
    BY <1>2, <2>3 DEF Queue, TypeOK
  <2>4. ASSUME NEW t \in Tasks, NEW x \in Runs, Take(t, x) PROVE status[r] = "success"
    BY <1>2, <2>4 DEF Take, TypeOK
  <2>5. Reconcile => status[r] = "success"
    BY <1>2 DEF Reconcile
  <2> QED BY <1>2, <2>1, <2>2, <2>3, <2>4, <2>5, WhoWrites
<1>3. ASSUME NEW r \in Runs, status'[r] = "success"
      PROVE  \E t \in Started(r)' : agent'[t] = "success"
  <2>1. PICK t \in Tasks : run[t] = r /\ agent[t] = "success"
    BY <1>2, <1>3 DEF SuccessIsEarned, Started
  <2>2. agent'[t] = "success" /\ run'[t] = r
    BY <1>1, <2>1
  <2> QED BY <2>1, <2>2 DEF Started
<1> QED BY <1>3 DEF SuccessIsEarned

LEMMA NextIInv == ASSUME IInv, [Next]_vars PROVE IInv'
<1>1. TypeOK'
  BY TypeStep DEF IInv
<1> QED BY <1>1, TasksKept, TriggersKept, SuccessKept DEF IInv

-----------------------------------------------------------------------------
(* Who has crossed.                                                        *)

LEMMA CarriedStays ==
    ASSUME TypeOK, [Next]_vars, NEW r \in Runs, NEW t \in Tasks, Carried(r, t)
    PROVE  Carried(r, t)'
<1> USE DEF Carried
<1>1. ASSUME NEW u \in Tasks, Store(u) PROVE Carried(r, t)'
  <2>1. CASE goal[u] \in Final
    BY <1>1, <2>1 DEF Store, Settle, TypeOK
  <2>2. CASE goal[u] \in {"executing", "publishing"}
    BY <1>1, <2>2 DEF Store, TypeOK
  <2> QED BY <1>1, <2>1, <2>2 DEF Store
<1>2. ASSUME NEW u \in Tasks, Check(u) PROVE Carried(r, t)'
  BY <1>2 DEF Check, TypeOK
<1>3. ASSUME NEW x \in Runs, Queue(x) PROVE Carried(r, t)'
  BY <1>3 DEF Queue, TypeOK
<1>4. ASSUME NEW u \in Tasks, NEW x \in Runs, status[x] = "queued", Take(u, x) PROVE Carried(r, t)'
  BY <1>4 DEF Take, TypeOK
<1>5. CASE Reconcile
  BY <1>5 DEF Reconcile, Expired, Requeueable
<1>6. CASE UNCHANGED <<status, phase, owner, manual>>
  BY <1>6
<1> QED BY <1>1, <1>2, <1>3, <1>4, <1>5, <1>6, WhoWrites

\* A claimed task crosses with its claim in its hands, or it is late.
LEMMA CrossesHeld ==
    ASSUME WatchedInv, TypeOK', [WatchedNext]_<<vars, late>>, NEW t \in fenced' \ late', Committed(t)'
    PROVE  \/ t \in fenced \ late /\ Committed(t) /\ run'[t] = run[t]
           \/ /\ status[run[t]] = "running" /\ owner[run[t]] = t /\ run'[t] = run[t]
              /\ run[t] \in Runs /\ Carried(run[t], t)'
<1>0. TypeOK /\ TaskInv /\ [Next]_vars /\ t \in Tasks /\ t \notin late
  BY DEF WatchedInv, IInv, WatchedNext, TypeOK
<1>1. CASE Committed(t)
  <2>1. t \in fenced
    <3>1. CASE UNCHANGED <<task, agent, sandbox>>
      BY <3>1 DEF task
    <3>2. ASSUME NEW u \in Tasks, Acts(u) PROVE t \in fenced
      <4>1. CASE u # t
        BY <1>0, <3>2, <4>1, ActsAlone DEF Alone
      <4>2. CASE u = t
        <5>1. pc[t] \notin {"idle", "claim"}
          BY <1>0, <1>1 DEF Committed, TaskInv, TaskOk
        <5>2. fenced' = fenced
          BY <3>2, <4>2, <5>1 DEF Acts, Step, Trigger, Claim, ClaimOwn, Spawn, Look, Verify, Check,
             Acquire, Freeze, Begin, Dispatch, Publish, Finish, Store, SpawnFails, Stumble, AgentEnds,
             HeartbeatLost, HeartbeatFails, Crash, Cancel, GiveUp, Intend, Goto, task
        <5> QED BY <5>2
      <4> QED BY <4>1, <4>2
    <3> QED BY <1>0, <3>1, <3>2, WhoActs
  <2>2. run'[t] = run[t]
    <3>1. CASE UNCHANGED <<task, agent, sandbox>>
      BY <3>1 DEF task
    <3>2. ASSUME NEW u \in Tasks, Acts(u) PROVE run'[t] = run[t]
      BY <1>0, <1>1, <3>2, ActsMoves, ActsAlone DEF Moves, Alone, Committed, TaskInv, TaskOk
    <3> QED BY <1>0, <3>1, <3>2, WhoActs
  <2> QED BY <1>0, <1>1, <2>1, <2>2
<1>2. CASE ~Committed(t)
  <2>1. Store(t) /\ goal[t] = "executing"
    <3>1. CASE UNCHANGED <<task, agent, sandbox>>
      BY <1>2, <3>1 DEF task, Committed
    <3>2. ASSUME NEW u \in Tasks, Acts(u) PROVE Store(t) /\ goal[t] = "executing"
      <4>1. u = t
        BY <1>0, <1>2, <3>2, ActsAlone DEF Alone, Committed
      <4> QED BY <1>0, <1>2, <3>2, <4>1, ActsMoves DEF Moves
    <3> QED BY <1>0, <3>1, <3>2, WhoActs
  <2>2. pc[t] = "store" /\ t \in fenced /\ run[t] \in Runs
    BY <1>0, <2>1 DEF Store, TaskInv, TaskOk, TypeOK
  <2>3. Held(t)
    BY <1>0, <2>2 DEF WatchedInv, Overtaken
  <2>4. /\ phase'[run[t]] = "executing" /\ UNCHANGED <<status, owner, run>>
    BY <1>0, <2>1, <2>2 DEF Store, TypeOK
  <2> QED BY <2>2, <2>3, <2>4 DEF Held, Carried
<1> QED BY <1>1, <1>2

LEMMA NextWatched ==
    ASSUME WatchedInv, [WatchedNext]_<<vars, late>>
    PROVE  WatchedInv'
<1>0. IInv /\ TypeOK /\ [Next]_vars
  BY DEF WatchedInv, IInv, WatchedNext
<1>1. IInv' /\ TypeOK'
  BY <1>0, NextIInv DEF IInv
<1>2. (Overtaken \subseteq late)'
  BY DEF WatchedInv, WatchedNext, Overtaken, Held, vars, row, task
<1>3. ASSUME NEW t \in fenced' \ late', Committed(t)'
      PROVE  Carried(run[t], t)'
  <2>1. CASE t \in fenced \ late /\ Committed(t) /\ run'[t] = run[t]
    <3>1. Carried(run[t], t) /\ run[t] \in Runs /\ t \in Tasks
      BY <1>0, <2>1 DEF WatchedInv, CommitInv, Committed, TypeOK
    <3>2. ASSUME NEW r \in Runs, r = run[t] PROVE Carried(r, t)'
      BY <1>0, <3>1, <3>2, CarriedStays
    <3> QED BY <2>1, <3>1, <3>2 DEF Carried
  <2> QED BY <1>1, <1>3, <2>1, CrossesHeld
<1>4. ASSUME NEW t \in fenced' \ late', Committed(t)', NEW u \in fenced' \ late', Committed(u)',
             run'[u] = run'[t]
      PROVE  u = t
  <2>1. ASSUME NEW v \in fenced \ late, Committed(v), NEW w, status[run[v]] = "running",
               owner[run[v]] = w
        PROVE  w = v
    BY <2>1 DEF WatchedInv, CommitInv, Carried
  <2> QED BY <1>1, <1>4, <2>1, CrossesHeld DEF WatchedInv, CommitInv
<1> QED BY <1>1, <1>2, <1>3, <1>4 DEF WatchedInv, CommitInv

-----------------------------------------------------------------------------
(* The theorems.                                                           *)

\* The invariant holds in every state, whatever the workers and the leases do.
THEOREM Invariance == Spec => []IInv
<1>1. Init => IInv
  BY InitIInv
<1>2. IInv /\ [Next]_vars => IInv'
  BY NextIInv
<1> QED BY <1>1, <1>2, PTL DEF Spec

\* Every agent runs in the sandbox that is frozen on its run, also that of a task
\* without a claim and of one whose claim is gone (_set_run_sandbox_id).
THEOREM RunsInItsSandboxHolds == Spec => []RunsInItsSandbox
<1>1. IInv => RunsInItsSandbox
  BY DEF RunsInItsSandbox, IInv, SandboxInv, Frozen, Committed
<1> QED BY <1>1, Invariance, PTL

\* A run is reported as a success only if an agent of it has succeeded, however
\* late the report is and whoever took the run over (run_cron_job).
THEOREM SuccessIsEarnedHolds == Spec => []SuccessIsEarned
<1>1. IInv => SuccessIsEarned
  BY DEF IInv
<1> QED BY <1>1, Invariance, PTL

\* An outcome is replaced, if at all, by a task that read the row before: never
\* by a reconciler or a claim, and a run with an outcome is not run again.
THEOREM ReplacedByLateWritesOnlyHolds == Spec => ReplacedByLateWritesOnly
<1> DEFINE Only(r) == status[r] \in Final /\ status'[r] # status[r] =>
                        \E t \in Tasks : /\ run[t] = r /\ pc[t] = "store"
                                         /\ goal[t] = status'[r] /\ goal[t] \in {"success", "failed"}
<1>1. ASSUME IInv, [Next]_vars, NEW r \in Runs PROVE Only(r)
  <2>0. TypeOK
    BY <1>1 DEF IInv
  <2>1. ASSUME NEW t \in Tasks, Store(t) PROVE Only(r)
    BY <2>0, <2>1 DEF Store, Settle, TypeOK
  <2>2. ASSUME NEW t \in Tasks, Check(t) PROVE Only(r)
    BY <2>0, <2>2 DEF Check, TypeOK
  <2>3. ASSUME NEW x \in Runs, Queue(x) PROVE Only(r)
    BY <2>0, <2>3 DEF Queue, TypeOK
  <2>4. ASSUME NEW t \in Tasks, NEW x \in Runs, status[x] = "queued", Take(t, x) PROVE Only(r)
    BY <2>0, <2>4 DEF Take, TypeOK
  <2>5. Reconcile => Only(r)
    BY DEF Reconcile, Expired
  <2> QED BY <1>1, <2>0, <2>1, <2>2, <2>3, <2>4, <2>5, WhoWrites
<1>2. IInv /\ [Next]_vars => [\A r \in Runs : Only(r)]_vars
  BY <1>1
<1> QED BY <1>2, Invariance, PTL DEF Spec, ReplacedByLateWritesOnly

\* Of the agents of a run, one at most was started by a task that kept its claim
\* wherever it wrote, and one more, of a manual run, by the task of its trigger.
StartsOnceInTime ==
    \A r \in Runs :
        /\ Cardinality(Started(r) \cap (fenced \ late)) <= 1
        /\ Cardinality(Started(r) \ fenced) <= IF r \in manual THEN 1 ELSE 0

LEMMA AtMostOne ==
    ASSUME NEW S, \A x, y \in S : x = y
    PROVE  Cardinality(S) <= 1
<1>1. CASE S = {}
  BY <1>1, FS_EmptySet
<1>2. CASE S # {}
  <2>1. PICK x \in S : TRUE
    BY <1>2
  <2>2. S = {x}
    BY <2>1
  <2>3. Cardinality({x}) = 1
    BY FS_Singleton
  <2>4. Cardinality(S) = 1
    BY <2>2, <2>3
  <2> QED BY <2>4
<1> QED BY <1>1, <1>2

\* The agent of a run is started again only by a task whose lease lapsed between
\* its read and its write, or by a trigger's task that found its run claimed:
\* requeueing, crashes, cancelled tasks and second workers never do it.
THEOREM StartsOnceInTimeHolds == WatchedSpec => []StartsOnceInTime
<1>1. WatchedInit => WatchedInv
  <2> SUFFICES ASSUME WatchedInit PROVE WatchedInv
    OBVIOUS
  <2>1. IInv
    BY InitIInv DEF WatchedInit
  <2>2. fenced = {}
    BY DEF WatchedInit, Init
  <2> QED BY <2>1, <2>2 DEF WatchedInv, Overtaken, CommitInv
<1>2. WatchedInv /\ [WatchedNext]_<<vars, late>> => WatchedInv'
  BY NextWatched
<1>3. WatchedInv => StartsOnceInTime
  <2> SUFFICES ASSUME WatchedInv, NEW r \in Runs
               PROVE  /\ Cardinality(Started(r) \cap (fenced \ late)) <= 1
                      /\ Cardinality(Started(r) \ fenced) <= IF r \in manual THEN 1 ELSE 0
    BY DEF StartsOnceInTime
  <2>1. \A t, u \in Started(r) \cap (fenced \ late) : t = u
    BY DEF WatchedInv, CommitInv, Committed, Started
  <2>2. \A t, u \in Started(r) \ fenced : t = u
    BY DEF WatchedInv, IInv, TriggerInv, Started
  <2>3. CASE r \in manual
    BY <2>1, <2>2, <2>3, AtMostOne
  <2>4. CASE r \notin manual
    <3>1. Started(r) \ fenced = {}
      BY <2>4 DEF WatchedInv, IInv, TriggerInv, Started
    <3>2. Cardinality(Started(r) \ fenced) = 0
      BY <3>1, FS_EmptySet
    <3> QED BY <2>1, <2>4, <3>2, AtMostOne
  <2> QED BY <2>3, <2>4
<1> QED BY <1>1, <1>2, <1>3, PTL DEF WatchedSpec
=============================================================================
