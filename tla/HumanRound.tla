----------------------------- MODULE HumanRound -----------------------------
(***************************************************************************)
(* One logical Round of a chat session, the human interactions that        *)
(* suspend it, the tool approvals among them, the workers that drive or    *)
(* resume it, and everything that may close it: the worker's own terminal  *)
(* event, the user's abort, the reconciler, orphan recovery.               *)
(*                                                                         *)
(* Every database transaction of the code takes its row locks in the order *)
(* Round, AgentInteraction, ToolApprovalRequest, so one transaction is one *)
(* action here.  What a worker keeps in memory between two transactions is *)
(* its pc and its job.  A claim token is a fresh uuid known only to the    *)
(* worker that drew it: it is represented by that worker, and a worker     *)
(* that returns to "idle" has forgotten it even if the row still names it. *)
(* A lease is a Boolean, TRUE until its deadline has passed.               *)
(***************************************************************************)
EXTENDS Naturals

CONSTANTS Workers,       \* attempts, in any process, to drive the Round
          Interactions,  \* ids the Agent may use for its questions, each once
          NoWorker,      \* absence of a claim token
          NoJob          \* a worker with no interaction at hand

ASSUME HumanRoundAssumption ==
    /\ NoWorker \notin Workers
    /\ NoJob \notin Interactions

VARIABLES
    round,      \* Round.status
    ended,      \* number of terminal events in the Round's event log
    inter,      \* AgentInteraction.status, "none" before the row exists
    kind,       \* AgentInteraction.kind
    answer,     \* AgentInteraction.answer_payload
    claim,      \* AgentInteraction.claim_token
    leased,     \* claim_lease_expires_at is in the future
    started,    \* continuation_started_at is set
    approval,   \* ToolApprovalRequest.status, "none" before the row exists
    exec,       \* ToolApprovalRequest.execution_claim_token
    execLive,   \* execution_lease_expires_at is in the future
    pc,         \* where each worker is
    job,        \* the interaction a worker asks or continues
    signalled,  \* the workers whose cancel token is set
    effects,    \* how often the approved tool of an interaction was called
    report      \* what an abort told the user about the Round's outcome

rows == <<inter, kind, answer, claim, leased, started, approval, exec, execLive>>
vars == <<round, ended, rows, pc, job, signalled, effects, report>>

-----------------------------------------------------------------------------
Terminal == {"completed", "failed", "cancelled", "max_steps_reached"}

\* APPROVAL_CANCELLABLE_STATUSES and APPROVAL_CONTINUATION_RESUMABLE_STATUSES
Cancellable == {"requested", "approved"}
Resumable   == {"requested", "approved", "denied"}

\* Approval statuses that prove the tool's dispatch boundary was crossed.
Crossed == {"executing", "executed", "failed", "unknown"}

\* A worker here writes under its continuation fence; elsewhere it has none.
Fenced   == {"claimed", "started", "queued", "dispatched", "gated",
             "effect", "result"}
Unfenced == {"run", "direct", "asking", "parked", "aborted"}

Open(i) == inter[i] = "pending"
Answered(i) == Open(i) /\ answer[i] # "none"

TypeOK ==
    /\ round \in Terminal \cup {"running", "waiting_interaction"}
    /\ ended \in Nat
    /\ inter \in [Interactions -> {"none", "pending", "answered", "cancelled", "failed"}]
    /\ kind \in [Interactions -> {"none", "user_input", "tool_approval"}]
    /\ answer \in [Interactions -> {"none", "reply", "allow", "deny"}]
    /\ claim \in [Interactions -> Workers \cup {NoWorker}]
    /\ leased \in [Interactions -> BOOLEAN]
    /\ started \in [Interactions -> BOOLEAN]
    /\ approval \in [Interactions -> {"none", "denied", "cancelled"} \cup Cancellable \cup Crossed]
    /\ exec \in [Interactions -> Workers \cup {NoWorker}]
    /\ execLive \in [Interactions -> BOOLEAN]
    /\ pc \in [Workers -> {"idle"} \cup Fenced \cup Unfenced]
    /\ job \in [Workers -> Interactions \cup {NoJob}]
    /\ signalled \subseteq Workers
    /\ effects \in [Interactions -> Nat]
    /\ report \in {"none", "certain", "uncertain"}
    /\ \A w \in Workers : pc[w] \in Fenced \cup {"asking"} => job[w] \in Interactions

\* A Round is created running, driven by one worker, with nothing asked.
\* The tables and the process memory as a Round begins.
RoundBegins ==
    /\ round = "running" /\ ended = 0
    /\ inter = [i \in Interactions |-> "none"]
    /\ kind = [i \in Interactions |-> "none"]
    /\ answer = [i \in Interactions |-> "none"]
    /\ claim = [i \in Interactions |-> NoWorker]
    /\ leased = [i \in Interactions |-> FALSE]
    /\ started = [i \in Interactions |-> FALSE]
    /\ approval = [i \in Interactions |-> "none"]
    /\ exec = [i \in Interactions |-> NoWorker]
    /\ execLive = [i \in Interactions |-> FALSE]
    /\ job = [w \in Workers |-> NoJob]
    /\ signalled = {}
    /\ effects = [i \in Interactions |-> 0]
    /\ report = "none"

Init ==
    /\ RoundBegins
    /\ \E w0 \in Workers : pc = [w \in Workers |-> IF w = w0 THEN "run" ELSE "idle"]

-----------------------------------------------------------------------------
(* Terminal convergence, shared by every transaction that closes the Round. *)

\* Mutant: the approvals are left open when the Round closes.
ConvergeInteractionsOnly(s, ap) ==
    /\ inter' = [i \in Interactions |-> IF Open(i) THEN "cancelled" ELSE inter[i]]
    /\ claim' = [i \in Interactions |-> IF Open(i) THEN NoWorker ELSE claim[i]]
    /\ leased' = [i \in Interactions |-> leased[i] /\ ~Open(i)]
    /\ approval' = ap
    /\ UNCHANGED <<kind, answer, started>>

\* _converge_locked_human_work: pending interactions and undispatched
\* approvals are closed with the Round; a crossed approval is left alone.
\* ap is the approval column as the transaction has it so far.
ConvergeHumanWork(s, ap) ==
    /\ inter' = [i \in Interactions |->
                    IF Open(i) THEN (IF s = "cancelled" THEN "cancelled" ELSE "failed")
                    ELSE inter[i]]
    /\ claim' = [i \in Interactions |-> IF Open(i) THEN NoWorker ELSE claim[i]]
    /\ leased' = [i \in Interactions |-> leased[i] /\ ~Open(i)]
    /\ approval' = [i \in Interactions |->
                       IF ap[i] \in Cancellable THEN "cancelled" ELSE ap[i]]
    /\ UNCHANGED <<kind, answer, started>>

\* Mutant: the status is not looked at again under the lock.
CompleteAnyRound(s, ap) ==
    /\ round' = s
    /\ ended' = ended + 1
    /\ ConvergeHumanWork(s, ap)

\* _complete_in_session on a Round that is not terminal yet.
CompleteRound(s, ap) ==
    /\ round \notin Terminal
    /\ round' = s
    /\ ended' = ended + 1
    /\ ConvergeHumanWork(s, ap)

\* A worker leaves the Round and forgets its claim token and cancel token.
Leave(w) ==
    /\ pc' = [pc EXCEPT ![w] = "idle"]
    /\ job' = [job EXCEPT ![w] = NoJob]
    /\ signalled' = signalled \ {w}

Goto(w, l) == pc' = [pc EXCEPT ![w] = l] /\ UNCHANGED job

-----------------------------------------------------------------------------
(* The worker that drives the Agent loop without a fence.                   *)

\* The agent announces a direct tool call (an event that only an open Round
\* accepts) and calls the tool; no approval row records the dispatch.
CallDirectTool(w) ==
    /\ pc[w] = "run" /\ w \notin signalled
    /\ round \notin Terminal
    /\ Goto(w, "direct")
    /\ UNCHANGED <<round, ended, rows, signalled, effects, report>>

ReturnDirectTool(w) ==
    /\ pc[w] = "direct"
    /\ Goto(w, "run")
    /\ UNCHANGED <<round, ended, rows, signalled, effects, report>>

\* _create_tool_approval commits the request before, and apart from, the
\* interaction; it does not look at the Round.
RequestApproval(w, i) ==
    /\ pc[w] = "run" /\ w \notin signalled
    /\ inter[i] = "none" /\ approval[i] = "none"
    /\ approval' = [approval EXCEPT ![i] = "requested"]
    /\ pc' = [pc EXCEPT ![w] = "asking"]
    /\ job' = [job EXCEPT ![w] = i]
    /\ UNCHANGED <<round, ended, inter, kind, answer, claim, leased, started,
                   exec, execLive, signalled, effects, report>>

\* Mutant: the Agent loop goes on after it has asked.
CreatePendingAndGoOn(w, i, k) ==
    /\ round = "running"
    /\ \A j \in Interactions : ~Open(j)
    /\ round' = "waiting_interaction"
    /\ inter' = [inter EXCEPT ![i] = "pending"]
    /\ kind' = [kind EXCEPT ![i] = k]
    /\ Goto(w, "run")
    /\ UNCHANGED <<ended, answer, claim, leased, started, approval, exec, execLive,
                   signalled, effects, report>>

\* create_pending: the interaction, its event and the waiting Round commit
\* together; at most one interaction of a Round is pending.
CreatePending(w, i, k) ==
    /\ round = "running"
    /\ \A j \in Interactions : ~Open(j)
    /\ round' = "waiting_interaction"
    /\ inter' = [inter EXCEPT ![i] = "pending"]
    /\ kind' = [kind EXCEPT ![i] = k]
    /\ Goto(w, "parked")
    /\ UNCHANGED <<ended, answer, claim, leased, started, approval, exec, execLive,
                   signalled, effects, report>>

AskUser(w, i) ==
    /\ pc[w] = "run" /\ w \notin signalled
    /\ inter[i] = "none" /\ approval[i] = "none"
    /\ CreatePending(w, i, "user_input")

AskApproval(w) ==
    /\ pc[w] = "asking"
    /\ CreatePending(w, job[w], "tool_approval")

\* The generator resumes after the commit and knows the Round is suspended.
Park(w) ==
    /\ pc[w] = "parked"
    /\ Leave(w)
    /\ UNCHANGED <<round, ended, rows, effects, report>>

\* complete_round without a fence: the agent's own terminal event, or the
\* finally clause of the stream after an error or a task cancellation.  The
\* latter also strikes between the commit of an interaction and the moment
\* the worker has noted the suspension.
FinishUnfenced(w, s) ==
    /\ pc[w] \in Unfenced \ {"aborted"}
    /\ \/ s \in {"completed", "max_steps_reached"} /\ pc[w] = "run"
       \/ s = "failed"
       \/ s = "cancelled" /\ w \in signalled
    /\ CompleteRound(s, approval)
    /\ Leave(w)
    /\ UNCHANGED <<exec, execLive, effects, report>>

-----------------------------------------------------------------------------
(* The user's answer and the worker that continues the Round with it.       *)

\* answer_pending, for an approval together with prepare_approval_request.
\* Repeating the same answer changes nothing, a different one is refused.
Answer(i, a) ==
    /\ Open(i) /\ answer[i] = "none"
    /\ round = "waiting_interaction"
    /\ \/ /\ kind[i] = "user_input" /\ a = "reply"
          /\ UNCHANGED <<approval, exec, execLive>>
       \/ /\ kind[i] = "tool_approval" /\ a \in {"allow", "deny"}
          /\ approval[i] = "requested"
          /\ approval' = [approval EXCEPT ![i] = IF a = "allow" THEN "approved" ELSE "denied"]
          /\ exec' = [exec EXCEPT ![i] = NoWorker]
          /\ execLive' = [execLive EXCEPT ![i] = FALSE]
    /\ answer' = [answer EXCEPT ![i] = a]
    /\ UNCHANGED <<round, ended, inter, kind, claim, leased, started, pc, job,
                   signalled, effects, report>>

\* Mutant: an expired lease is enough to take a continuation over.
ClaimExpired(w, i) ==
    /\ pc[w] = "idle"
    /\ Answered(i) /\ ~(claim[i] # NoWorker /\ leased[i])
    /\ claim' = [claim EXCEPT ![i] = w]
    /\ leased' = [leased EXCEPT ![i] = TRUE]
    /\ pc' = [pc EXCEPT ![w] = "claimed"]
    /\ job' = [job EXCEPT ![w] = i]
    /\ UNCHANGED <<round, ended, inter, kind, answer, started, approval, exec,
                   execLive, signalled, effects, report>>

\* claim_answered_continuation
Claim(w, i) ==
    /\ pc[w] = "idle"
    /\ Answered(i) /\ round = "waiting_interaction" /\ ~started[i]
    /\ ~(claim[i] # NoWorker /\ leased[i])
    /\ claim' = [claim EXCEPT ![i] = w]
    /\ leased' = [leased EXCEPT ![i] = TRUE]
    /\ pc' = [pc EXCEPT ![w] = "claimed"]
    /\ job' = [job EXCEPT ![w] = i]
    /\ UNCHANGED <<round, ended, inter, kind, answer, started, approval, exec,
                   execLive, signalled, effects, report>>

\* _require_owned_claim: the token in the worker's hand is the row's token.
Owns(w) == Answered(job[w]) /\ claim[job[w]] = w

\* Mutant: the start is not fenced by the claim token.
StartUnfenced(w) ==
    /\ pc[w] = "claimed" /\ Answered(job[w])
    /\ round = "waiting_interaction" /\ ~started[job[w]]
    /\ round' = "running"
    /\ started' = [started EXCEPT ![job[w]] = TRUE]
    /\ Goto(w, "started")
    /\ UNCHANGED <<ended, inter, kind, answer, claim, leased, approval, exec,
                   execLive, signalled, effects, report>>

\* fence_continuation_write, transition "start", in the transaction of the
\* interaction_resolved event: the boundary after which nothing is replayed.
Start(w) ==
    /\ pc[w] = "claimed"
    /\ Owns(w) /\ leased[job[w]]
    /\ round = "waiting_interaction" /\ ~started[job[w]]
    /\ round' = "running"
    /\ started' = [started EXCEPT ![job[w]] = TRUE]
    /\ Goto(w, "started")
    /\ UNCHANGED <<ended, inter, kind, answer, claim, leased, approval, exec,
                   execLive, signalled, effects, report>>

\* _release_uncommitted_continuation_start, when the start did not commit:
\* the claim is given back if it is still this worker's and still unused.
ReleaseClaim(w) ==
    /\ pc[w] = "claimed"
    /\ LET S == {i \in Interactions : /\ i = job[w] /\ Owns(w) /\ ~started[i]
                                      /\ round = "waiting_interaction"}
       IN  /\ claim' = [i \in Interactions |-> IF i \in S THEN NoWorker ELSE claim[i]]
           /\ leased' = [i \in Interactions |-> leased[i] /\ i \notin S]
    /\ UNCHANGED <<round, ended, inter, kind, answer, started, approval, exec,
                   execLive, effects, report>>

\* The worker then leaves; a task cancellation first reaches the orchestrator.
ReleaseStart(w) == ReleaseClaim(w) /\ Leave(w)

CancelStart(w) == ReleaseClaim(w) /\ Goto(w, "aborted") /\ UNCHANGED signalled

\* A task cancellation after the worker has noted the suspension.
CancelParked(w) ==
    /\ pc[w] = "parked"
    /\ Goto(w, "aborted")
    /\ UNCHANGED <<round, ended, rows, signalled, effects, report>>

\* _drive_run, except CancelledError: no terminal event was seen, so the
\* Round is completed as cancelled, without a fence.
OrchestratorCancel(w) ==
    /\ pc[w] = "aborted"
    /\ CompleteRound("cancelled", approval)
    /\ Leave(w)
    /\ UNCHANGED <<exec, execLive, effects, report>>

\* _claim_and_queue_tool_approval
Queue(w) ==
    /\ pc[w] = "started" /\ kind[job[w]] = "tool_approval"
    /\ Owns(w) /\ round = "running"
    /\ approval[job[w]] \in {"approved", "denied"}
    /\ Goto(w, "queued")
    /\ UNCHANGED <<round, ended, rows, signalled, effects, report>>

\* _pending_approved_tool_matches_durable_turn
MatchesDurableTurn(w) == round = "running" /\ Owns(w) /\ leased[job[w]]

\* A queued denial is not dispatched: its result is known.  Neither is a
\* queued approval once the cancel token is set.
SkipDispatch(w) ==
    /\ pc[w] = "queued"
    /\ MatchesDurableTurn(w)
    /\ approval[job[w]] = "denied" \/ w \in signalled
    /\ Goto(w, "result")
    /\ UNCHANGED <<round, ended, rows, signalled, effects, report>>

\* Mutant: any decision dispatches.
DispatchDecided(w) ==
    /\ pc[w] = "queued"
    /\ MatchesDurableTurn(w)
    /\ approval[job[w]] \in {"approved", "denied"}
    /\ approval' = [approval EXCEPT ![job[w]] = "executing"]
    /\ exec' = [exec EXCEPT ![job[w]] = w]
    /\ execLive' = [execLive EXCEPT ![job[w]] = TRUE]
    /\ Goto(w, "dispatched")
    /\ UNCHANGED <<round, ended, inter, kind, answer, claim, leased, started,
                   signalled, effects, report>>

\* dispatch_approval_request under the Round and interaction locks.
Dispatch(w) ==
    /\ pc[w] = "queued"
    /\ MatchesDurableTurn(w)
    /\ approval[job[w]] = "approved"
    /\ approval' = [approval EXCEPT ![job[w]] = "executing"]
    /\ exec' = [exec EXCEPT ![job[w]] = w]
    /\ execLive' = [execLive EXCEPT ![job[w]] = TRUE]
    /\ Goto(w, "dispatched")
    /\ UNCHANGED <<round, ended, inter, kind, answer, claim, leased, started,
                   signalled, effects, report>>

HoldsExecution(w) == approval[job[w]] = "executing" /\ exec[job[w]] = w

\* _renew_approval_lease_before_execution: the token-fenced renewal decides
\* whether this worker may call the tool; without it the call is skipped.
Gate(w) ==
    /\ pc[w] = "dispatched"
    /\ IF HoldsExecution(w)
       THEN /\ execLive' = [execLive EXCEPT ![job[w]] = TRUE]
            /\ Goto(w, "gated")
       ELSE /\ UNCHANGED execLive
            /\ Goto(w, "result")
    /\ UNCHANGED <<round, ended, inter, kind, answer, claim, leased, started,
                   approval, exec, signalled, effects, report>>

\* finish_approval_request, fenced by the execution token; its failure is
\* logged and the row left to the reconciler.
FinishApproval(w, s) ==
    \/ /\ HoldsExecution(w)
       /\ approval' = [approval EXCEPT ![job[w]] = s]
       /\ exec' = [exec EXCEPT ![job[w]] = NoWorker]
       /\ execLive' = [execLive EXCEPT ![job[w]] = FALSE]
    \/ UNCHANGED <<approval, exec, execLive>>

\* The last look before the call: cancelled, no longer the owner, or the
\* tool's identity, schema or policy changed.  Nothing is called.
Block(w) ==
    /\ pc[w] = "gated"
    /\ FinishApproval(w, "failed")
    /\ Goto(w, "result")
    /\ UNCHANGED <<round, ended, inter, kind, answer, claim, leased, started,
                   signalled, effects, report>>

CallApprovedTool(w) ==
    /\ pc[w] = "gated"
    /\ w \notin signalled /\ MatchesDurableTurn(w)
    /\ effects' = [effects EXCEPT ![job[w]] = @ + 1]
    /\ Goto(w, "effect")
    /\ UNCHANGED <<round, ended, rows, signalled, report>>

ReturnApprovedTool(w, s) ==
    /\ pc[w] = "effect"
    /\ s \in {"executed", "failed", "unknown"}
    /\ FinishApproval(w, s)
    /\ Goto(w, "result")
    /\ UNCHANGED <<round, ended, inter, kind, answer, claim, leased, started,
                   signalled, effects, report>>

\* fence_continuation_write, transition "complete": the first event after
\* the start of a user answer, the tool result of an approval.  From here the
\* worker drives the Agent loop without a fence.
Consume(w) ==
    /\ pc[w] = "result" \/ (pc[w] = "started" /\ kind[job[w]] = "user_input")
    /\ Owns(w) /\ round = "running"
    /\ inter' = [inter EXCEPT ![job[w]] = "answered"]
    /\ claim' = [claim EXCEPT ![job[w]] = NoWorker]
    /\ leased' = [leased EXCEPT ![job[w]] = FALSE]
    /\ pc' = [pc EXCEPT ![w] = "run"]
    /\ job' = [job EXCEPT ![w] = NoJob]
    /\ UNCHANGED <<round, ended, kind, answer, started, approval, exec, execLive,
                   signalled, effects, report>>

\* complete_round under the fence ("validate"), after a durable start.
FinishFenced(w, s) ==
    /\ pc[w] \in Fenced \ {"claimed"}
    /\ \/ s = "failed"
       \/ s = "cancelled" /\ w \in signalled
       \/ s = "max_steps_reached" /\ pc[w] = "started" /\ kind[job[w]] = "user_input"
    /\ Owns(w)
    /\ CompleteRound(s, approval)
    /\ Leave(w)
    /\ UNCHANGED <<exec, execLive, effects, report>>

\* The stream meets a terminal Round before its next event: it repairs the
\* terminal state (ensure_terminal_sync) and stops.
StopOnTerminal(w) ==
    /\ pc[w] \in {"run", "asking", "claimed", "started", "result", "aborted"}
    /\ round \in Terminal
    /\ ConvergeHumanWork(round, approval)
    /\ Leave(w)
    /\ UNCHANGED <<round, ended, exec, execLive, effects, report>>

\* ContinuationOwnershipLostError: the old worker leaves without a trace.
LoseOwnership(w) ==
    /\ \/ pc[w] \in {"started", "result"} /\ ~Owns(w)
       \/ pc[w] = "queued" /\ ~MatchesDurableTurn(w)
    /\ Leave(w)
    /\ UNCHANGED <<round, ended, rows, effects, report>>

\* renew_continuation_claim: the token fences, the deadline does not.
RenewClaim(w) ==
    /\ pc[w] \in Fenced
    /\ Owns(w)
    /\ leased' = [leased EXCEPT ![job[w]] = TRUE]
    /\ UNCHANGED <<round, ended, inter, kind, answer, claim, started, approval,
                   exec, execLive, pc, job, signalled, effects, report>>

\* renew_approval_execution_lease, from the heartbeat of a running tool.
RenewExecution(w) ==
    /\ pc[w] \in {"gated", "effect"}
    /\ HoldsExecution(w)
    /\ execLive' = [execLive EXCEPT ![job[w]] = TRUE]
    /\ UNCHANGED <<round, ended, inter, kind, answer, claim, leased, started,
                   approval, exec, pc, job, signalled, effects, report>>

\* The process dies, or the worker has lost its UserRunLock and exits silently.
Crash(w) ==
    /\ pc[w] # "idle"
    /\ Leave(w)
    /\ UNCHANGED <<round, ended, rows, effects, report>>

-----------------------------------------------------------------------------
(* Time and recovery.                                                       *)

LeaseExpires(i) ==
    /\ leased[i]
    /\ leased' = [leased EXCEPT ![i] = FALSE]
    /\ UNCHANGED <<round, ended, inter, kind, answer, claim, started, approval,
                   exec, execLive, pc, job, signalled, effects, report>>

ExecutionLeaseExpires(i) ==
    /\ execLive[i]
    /\ execLive' = [execLive EXCEPT ![i] = FALSE]
    /\ UNCHANGED <<round, ended, inter, kind, answer, claim, leased, started,
                   approval, exec, pc, job, signalled, effects, report>>

\* reconcile_expired_approval_leases: never retried, only made unknown.
ReconcileExecution(i) ==
    /\ approval[i] = "executing" /\ ~execLive[i]
    /\ approval' = [approval EXCEPT ![i] = "unknown"]
    /\ exec' = [exec EXCEPT ![i] = NoWorker]
    /\ UNCHANGED <<round, ended, inter, kind, answer, claim, leased, started,
                   execLive, pc, job, signalled, effects, report>>

\* has_active_continuation_work
ActiveWork(i) ==
    /\ Answered(i)
    /\ \/ claim[i] # NoWorker /\ leased[i]
       \/ approval[i] = "executing" /\ exec[i] # NoWorker /\ execLive[i]

\* Mutant: only a crossed approval makes a continuation irrecoverable.
FailCrossed(i) ==
    /\ Answered(i) /\ ~ActiveWork(i)
    /\ approval[i] \in Crossed
    /\ CompleteRound("failed", [approval EXCEPT ![i] = IF @ = "executing" THEN "unknown" ELSE @])
    /\ UNCHANGED <<exec, execLive, pc, job, signalled, effects, report>>

\* lock_irrecoverable_continuation_round_for_failure, then the failed
\* completion in the same transaction.
FailIrrecoverable(i) ==
    /\ Answered(i) /\ ~ActiveWork(i)
    /\ started[i] \/ round = "running" \/ approval[i] \in Crossed
    /\ LET abandoned == approval[i] = "executing"
       IN  /\ CompleteRound("failed", IF abandoned
                                      THEN [approval EXCEPT ![i] = "unknown"]
                                      ELSE approval)
           /\ exec' = IF abandoned THEN [exec EXCEPT ![i] = NoWorker] ELSE exec
    /\ UNCHANGED <<execLive, pc, job, signalled, effects, report>>

\* repark_expired_continuation_claims and
\* lock_expired_prestart_continuation_for_recovery
Repark(i) ==
    /\ Answered(i) /\ ~started[i] /\ round = "waiting_interaction"
    /\ claim[i] # NoWorker /\ ~leased[i]
    /\ kind[i] = "tool_approval" => approval[i] \in Resumable
    /\ claim' = [claim EXCEPT ![i] = NoWorker]
    /\ UNCHANGED <<round, ended, inter, kind, answer, leased, started, approval,
                   exec, execLive, pc, job, signalled, effects, report>>

\* RunCoordinator and startup cleanup: a running Round whose UserRunLock is
\* gone or stale and whose continuation has no live lease is failed.
FailOrphan ==
    /\ round = "running"
    /\ \A i \in Interactions : ~ActiveWork(i)
    /\ CompleteRound("failed", approval)
    /\ UNCHANGED <<exec, execLive, pc, job, signalled, effects, report>>

-----------------------------------------------------------------------------
(* The user's abort.                                                        *)

\* Mutant: only the approval rows are asked.
UncertainApproval == \E i \in Interactions : approval[i] \in {"executing", "unknown"}

\* _round_has_uncertain_dispatch
UncertainDispatch ==
    \/ \E i \in Interactions : approval[i] \in {"executing", "unknown"}
    \/ /\ round # "waiting_interaction"
       /\ \A i \in Interactions : approval[i] \notin Cancellable

\* request_cancel sets the token of the runner registered in this process,
\* if there is one.
Signal(hit) ==
    /\ \A w \in hit : pc[w] # "idle"
    /\ signalled' = signalled \cup hit

\* request_cancel and cancel_user_run: the risk is judged, the human work
\* converged and the terminal event written under the same row locks.
Abort(hit) ==
    /\ Signal(hit)
    /\ report' = IF UncertainDispatch THEN "uncertain" ELSE "certain"
    /\ CompleteRound("cancelled", approval)
    /\ UNCHANGED <<exec, execLive, pc, job, effects>>

\* The token is set and the cancelling transaction fails: 503 to the user.
AbortFails(hit) ==
    /\ round \notin Terminal
    /\ Signal(hit)
    /\ UNCHANGED <<round, ended, rows, pc, job, effects, report>>

\* ensure_terminal_sync, or any second completion, on a Round that is over.
RepairTerminal ==
    /\ round \in Terminal
    /\ ConvergeHumanWork(round, approval)
    /\ UNCHANGED <<round, ended, exec, execLive, pc, job, signalled, effects, report>>

-----------------------------------------------------------------------------
Drive(w) ==
    \/ CallDirectTool(w) \/ ReturnDirectTool(w)
    \/ \E i \in Interactions : RequestApproval(w, i) \/ AskUser(w, i)
    \/ AskApproval(w) \/ Park(w)
    \/ \E s \in Terminal : FinishUnfenced(w, s) \/ FinishFenced(w, s)
    \/ Start(w) \/ Queue(w) \/ SkipDispatch(w) \/ Dispatch(w) \/ Gate(w)
    \/ Block(w) \/ CallApprovedTool(w)
    \/ \E s \in {"executed", "failed", "unknown"} : ReturnApprovedTool(w, s)
    \/ Consume(w)
    \/ StopOnTerminal(w) \/ LoseOwnership(w)
    \/ ReleaseStart(w) \/ OrchestratorCancel(w)

Interrupt(w) == CancelStart(w) \/ CancelParked(w) \/ Crash(w)

Recover(i) == ReconcileExecution(i) \/ FailIrrecoverable(i)

Next ==
    \/ \E w \in Workers : Drive(w) \/ Interrupt(w) \/ RenewClaim(w) \/ RenewExecution(w)
    \/ \E i \in Interactions :
          \/ \E a \in {"reply", "allow", "deny"} : Answer(i, a)
          \/ \E w \in Workers : Claim(w, i)
          \/ LeaseExpires(i) \/ ExecutionLeaseExpires(i)
          \/ Recover(i) \/ Repark(i)
    \/ FailOrphan
    \/ \E hit \in {{}} \cup {{w} : w \in Workers} : Abort(hit) \/ AbortFails(hit)
    \/ RepairTerminal

Spec == Init /\ [][Next]_vars

\* Event loops run and tools time out, time passes, the reconciler task loops.
\* Nothing is assumed of the user or of session-triggered recovery.
Fairness ==
    /\ \A w \in Workers : WF_vars(Drive(w))
    /\ \A i \in Interactions :
          /\ WF_vars(LeaseExpires(i))
          /\ WF_vars(ExecutionLeaseExpires(i))
          /\ WF_vars(Recover(i))

FairSpec == Spec /\ Fairness

-----------------------------------------------------------------------------
(* Safety.                                                                  *)

\* An approved tool is called at most once, and only after the user allowed
\* it: no crash, lease expiry, retry or second worker replays a dispatch.
EffectOnce ==
    \A i \in Interactions :
        /\ effects[i] <= 1
        /\ effects[i] = 1 => answer[i] = "allow" /\ approval[i] \in Crossed

\* An abort that told the user nothing was dispatched told the truth, then
\* and ever after: no tool of the Round is, or ever comes to be, in flight.
HonestAbort ==
    report = "certain" => \A w \in Workers : pc[w] \notin {"direct", "effect"}

\* A worker whose next write the Round would accept.
Writer(w) ==
    \/ pc[w] \in {"run", "direct", "asking"}
    \/ pc[w] \in Fenced /\ Owns(w)

\* While the Round is open two workers never both drive it.
OneDriver ==
    round \notin Terminal =>
        \A v, w \in Workers : Writer(v) /\ Writer(w) => v = w

\* A closed Round has exactly one terminal event, no question left open and
\* no approval that could still be dispatched.
ClosedOnce ==
    /\ ended = IF round \in Terminal THEN 1 ELSE 0
    /\ round \in Terminal =>
          \A i \in Interactions : ~Open(i) /\ approval[i] # "approved"

\* The durable start boundary: a continuation that crossed it is never given
\* to another worker, and its Round never goes back to waiting for it.
KeepsStarted(i) ==
    started[i] =>
        /\ started'[i]
        /\ claim'[i] \in {claim[i], NoWorker}
        /\ Open(i) => round' # "waiting_interaction" \/ round' = round

StartedIsNeverReclaimed == [][\A i \in Interactions : KeepsStarted(i)]_vars

\* A worker whose claim was taken over leaves the Round and its interactions
\* as they are, whatever it does next.
StaleStepIsSilent(w) ==
    pc[w] \in Fenced /\ ~Owns(w) /\ pc'[w] # pc[w] /\ round \notin Terminal
        => UNCHANGED <<round, inter, answer, claim, started>>

StaleWorkerWritesNothing == [][\A w \in Workers : StaleStepIsSilent(w)]_vars

\* The specification of the chat service says of a Round that waits for a
\* human that it is closed by the answer's continuation or by an abort.
WaitingIsKept ==
    [][round = "waiting_interaction" /\ round' \in Terminal => report' # report]_vars

(* Liveness, under Fairness.                                                *)

\* Whatever happens to its worker, a started continuation is consumed or its
\* Round is failed, and no approved call stays "executing": nothing that was
\* begun on a human's word is left hanging.
StartedWorkSettles ==
    \A i \in Interactions :
        /\ Open(i) /\ started[i] ~> ~Open(i)
        /\ approval[i] = "executing" ~> approval[i] # "executing"

-----------------------------------------------------------------------------
(* The inductive invariant behind the safety properties.                    *)

Looping(w) == pc[w] \in {"run", "direct", "asking"}
Dispatcher(w) == pc[w] \in {"dispatched", "gated", "effect"}

\* A dispatched approval belongs to one worker, which has not called yet.
DispatchInv ==
    /\ EffectOnce
    /\ \A i \in Interactions :
          approval[i] \in Crossed \cup {"approved"} => answer[i] = "allow"
    /\ \A w \in Workers :
          /\ Dispatcher(w) => approval[job[w]] \in {"executing", "unknown"}
          /\ pc[w] \in {"dispatched", "gated"} => effects[job[w]] = 0
    /\ \A v, w \in Workers :
          Dispatcher(v) /\ Dispatcher(w) /\ job[v] = job[w] => v = w

\* The Agent loop and an open question exclude each other.
DriverInv ==
    /\ ClosedOnce
    /\ report # "none" => round \in Terminal
    /\ round = "waiting_interaction" => \E i \in Interactions : Open(i)
    /\ \A i, j \in Interactions : Open(i) /\ Open(j) => i = j
    /\ round \notin Terminal =>
          \A v, w \in Workers : Looping(v) /\ Looping(w) => v = w
    /\ \A i \in Interactions, w \in Workers : Open(i) => ~Looping(w)

\* An undispatched approval on an open Round proves that no direct call runs:
\* its worker is still asking, or suspended, or has not dispatched it yet.
RiskInv ==
    /\ HonestAbort
    /\ \A i \in Interactions :
          /\ inter[i] = "none" <=> kind[i] = "none"
          /\ kind[i] = "user_input" => approval[i] = "none"
    /\ \A i, j \in Interactions : Open(i) /\ approval[j] \in Cancellable => i = j
    /\ \A w \in Workers :
          /\ pc[w] \in {"queued", "dispatched", "gated", "effect", "result"}
                => approval[job[w]] # "none"
          /\ pc[w] = "result" /\ approval[job[w]] \in Cancellable => w \in signalled
    /\ round \notin Terminal =>
          \A w \in Workers, i \in Interactions : approval[i] \in Cancellable =>
              /\ pc[w] # "direct"
              /\ pc[w] = "run" => w \in signalled
              /\ pc[w] = "asking" => i = job[w]

IInv == TypeOK /\ DispatchInv /\ DriverInv /\ RiskInv

-----------------------------------------------------------------------------
(* Refinement: the Round keeps the contract made with its user.             *)

CallState(i) ==
    CASE approval[i] = "none" -> "none"
      [] approval[i] = "requested" -> "asked"
      [] approval[i] = "approved" -> "granted"
      [] approval[i] \in {"denied", "cancelled"} -> "withdrawn"
      [] approval[i] \in {"executing", "unknown"} -> "inflight"
      [] approval[i] \in {"executed", "failed"} -> "settled"

Contract == INSTANCE ApprovalContract
                WITH state <- [i \in Interactions |-> CallState(i)],
                     runs <- effects, verdict <- report

\* Every behaviour of workers, leases and recovery is one of the contract.
KeepsContract == Contract!Spec
=============================================================================
