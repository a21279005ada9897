# OpenCapyBox: verification of the run-time core

OpenCapyBox is a chat service in which an agent works for its user in a
sandbox. A FastAPI application runs in several worker processes over one
PostgreSQL database; a turn of the conversation is a *Round*, driven by a task
of one process that streams AG-UI events to the browser. This directory holds
TLA+ models of the part of the server (and of the web client's stream code)
where processes, requests, timers, crashes and the user meet, the TLC runs that
check them, and TLAPS proofs about them. Paths below are relative to the
repository; services are in `src/api/services/`.

## 1. Inventory

| component | state | operations | what is hard | module |
|---|---|---|---|---|
| Human interactions (`agent_interaction_service.py`, `approval_reconciler.py`) | `agent_interactions` rows, `Round.status` | create, answer, claim, start, renew, release, repark, consume, fail | a claim changes hands while the first worker still lives; a started continuation must not be replayed, nor hang | HumanRound |
| Tool approvals (`tool_permission_service.py`) | `tool_approval_requests` rows | request, approve or deny, queue, dispatch, renew, finish, reconcile | the tool's effect is outside the database: at most once over crashes and retries | HumanRound |
| Completion (`run_completion_service.py`, `terminal_repair_service.py`) | Round, event log | complete, fenced complete, cancel, converge | several closers race; the abort must say honestly whether something may have been dispatched | HumanRound, EventBus |
| Run coordinator (`run_coordinator.py`) | `user_run_locks` rows (user, session, slot, heartbeat) | acquire, reclaim, restore, sweep, renew, release | a stale heartbeat is no proof of death; cleanup in several transactions | RunSlots |
| Startup cleanup (`src/api/main.py`) | all of the above | clean up stale runtime state | runs in one process while others are healthy | RunSlots, EventBus, CronRuns |
| Orchestrator, chat routes, agent service, cancel requests (`turn_orchestrator.py`, `src/api/routes/chat.py`, `agent_service.py`, `run_cancel_service.py`) | tasks, tokens, cancel requests | send, resume, abort, drive, heartbeat | clients disconnect, tasks are cancelled at any await, aborts arrive before there is a Round | RunSlots, HumanRound |
| AG-UI event bus (`agui_event_bus.py`) | `agui_events`, stream buffers, subscriber queues | publish, aggregate, subscribe, replay, terminate | replay and live queue overlap; thinking and tool arguments are live only until they are summed up in one row | EventBus |
| Web client stream (`frontend/src/services/chatStreamClient.ts`, `frontend/src/runtime/chatRuntimeReducer.ts`) | cursor, segments | read, drop, fold, reconnect | must show every text exactly once over reconnects | EventBus |
| Cron runs (`cron_worker.py`, `cron_service.py`, `src/api/routes/cron.py`) | `cron_job_runs` rows | queue, trigger, claim, heartbeat, prepare, execute, publish, finish, reconcile | a second task takes over while the first is slow; started work must not be replayed | CronRuns |
| Workspace claims and mutations (`workspace_mutation_coordinator.py`, `workspace_service.py`) | entries, journals, claims with generations, fence markers and files in the sandbox | read, begin, run a script, record, take over, reconcile, drain | takeover while the first owner still writes; plans from rows read outside a transaction; lost replies | WorkspaceMutations |
| Workspace history (`workspace_service.py`, `workspace_maintenance.py`) | versions, content objects, references | keep, pin, mark, remove, prune | a collector beside a save of the same content | WorkspaceObjects |
| Composer drafts and attachments (`composer_draft_attachment_service.py`), sandbox cleanup jobs (`sandbox_cleanup_service.py`) | attachment rows, bytes in the sandbox, cleanup jobs | upload, claim, send, remove, expire, clean | requests that come back late; a deletion that outlives its lease | DraftAttachments |
| Sandbox service (`sandbox_service.py`, `sandbox_profile_service.py`) | `user_sandboxes` row, caches, containers | look up, connect, resume, create, replace, pause, switch | two processes that both find the sandbox lost | SandboxBinding |
| Agent pool (`agent_pool_service.py`) | cached agents, creation locks | get or create, evict, clean up, pause | decisions that are stale after an await | planned |
| Cron dispatcher clock (`cron_schedule.py`, dispatcher loop) | last dispatched minute, fires | due minutes, catch up | gaps, caps, two workers, a rule that changes | planned |
| Subagent graph (`subagent_graph_service.py`) | edges between Rounds | start, join, derive status | status derived from several rows | planned |
| Context checkpoints, sessions' files, MCP, memory, authentication, administration, model clients, skills, channels | rows and I/O | see `PROJECT.json` | little or no protocol of several steps, or external | none |

How they interact: a chat request acquires a run lock from the coordinator,
gets the user's sandbox from the sandbox service, initialises an agent, creates
a Round and hands it to the orchestrator; the driver publishes through the event
bus and renews the lock. When the agent asks, the interaction service suspends
the Round and the lock is given back; the answer is claimed by a resume request,
which goes through the coordinator again. Completion closes Round, interactions
and approvals in one transaction and the bus tells the subscribers. The
coordinator, the approval reconciler, the history reader and every starting
process close what was abandoned. A cron run submits a turn to the same
orchestrator under a claim of its own. Editors, runs and imports change the
shared workspace through journals and claims; each write first reconciles what
others have left. Attachments are copied into a session when a message claims
them.

What makes each of them correct is stated by the properties of section 4;
`PROJECT.json` lists the hazards they are aimed at, at their lines, and the ones
no property covers yet.

## 2. Plan

Done, in this order, the most important behaviour first:

1. `HumanRound`, `ApprovalContract`: a Round and its human interactions; proved.
2. `RunSlots`: locks, slots, recovery, abort; safety proved, except what section 8 refutes.
3. `EventBus`: log, subscription and client; order, finality and text proved.
4. `CronRuns`: the durable runs of scheduled jobs; what holds without the
   assumptions of its run proved.
5. `WorkspaceMutations`: claims, journals, files, reconciliation; every
   safety property proved.
6. `WorkspaceObjects`: the contents of the history and their collection; proved
   up to the two overlaps that break it.
7. `DraftAttachments`: an attachment and the cleanup jobs; proved.
8. `SandboxBinding`: the user's sandbox over several processes; proved, but for
   what the file panels do.

To come:

9. `AgentPool`: awaits between look and use; no request is given an evicted
   agent, no sandbox is paused under a running session.
10. `CronDue`: due minutes as a function checked against a reference definition;
    each minute at most one fire.
11. `SubagentGraph`: derived status against the statuses of Rounds.
12. Composition of `RunSlots` and `HumanRound` over one session, so that
    admission and fenced writes are checked together.

## 3. The modules and the code

A state is what the database holds together with what each process keeps in
memory between two awaits. One action is one database transaction, or one stretch
of code between two awaits, with everything it changes. A crash loses the memory
and keeps the rows. Time appears as Booleans: a lease or a heartbeat is live
until a step lets it lapse, at any moment, so that no bound on the relative speed
of processes is assumed. `PROJECT.json` maps every definition to its lines.

### HumanRound, ApprovalContract

One `Round`, its `AgentInteraction` rows (`inter`, `kind`, `answer`, `claim`,
`leased`, `started`) and `ToolApprovalRequest` rows (`approval`, `exec`,
`execLive`), and *workers*: attempts to drive or resume the Round, each with a
program counter (`pc`), the interaction at hand (`job`) and a cancel token
(`signalled`). `effects` counts the calls of approved tools, `ended` the terminal
events, `report` keeps what an abort answered.

| code | actions |
|---|---|
| agent loop (`agent.py`, `agent_service.py`) | `CallDirectTool`, `ReturnDirectTool`, `RequestApproval`, `AskApproval`, `AskUser`, `Park` |
| `agent_interaction_service.py` | `Answer`, `Claim`, `Start`, `Consume`, `RenewClaim`, `ReleaseStart`, `Repark`, `FailIrrecoverable` |
| `tool_permission_service.py` | `Queue`, `Dispatch`, `Gate`, `Block`, `CallApprovedTool`, `ReturnApprovedTool`, `RenewExecution`, `ReconcileExecution` |
| `run_completion_service.py` | `CompleteRound`, `ConvergeHumanWork` inside `FinishUnfenced`, `FinishFenced`, `OrchestratorCancel`, `Abort`, `FailOrphan`; `RepairTerminal` |

The transactions lock Round, interaction and approval in this order, which is why
each is one step. A claim token is a fresh uuid that only its worker knows; the
model uses the worker itself, and a worker that has left has forgotten it. A
worker that leaves may come back as a new one. `pc` distinguishes `run` from
`direct` because the code has no row for a direct call: this is what makes the
honest abort report hard. A task cancellation and an exception may strike at
`parked`, after the question is committed and before the worker has noted it.

`ApprovalContract` is what the user is promised, without workers, tokens, leases
or recovery: a call is asked, granted or withdrawn, put in flight once, run at
most once, and no call is in flight behind an abort that said so. `HumanRound`
implements it under the mapping `CallState`.

### RunSlots

All lock rows of one user (`lock`, `slot`, `fresh`), what the coordinator holds
in memory while it acquires (`mutex`, `taken`, `busy`), *attempts* (requests to
send or to resume, with the Round each creates: `pc`, `at`, `run`, `round`), the
claims on accepted answers (`claim`, `live`), the tokens (`cancelled`, `token`,
`lost`) and the abort endpoint (`abort`).

| code | actions |
|---|---|
| `run_coordinator.py`, acquire | `Begin`, `Reclaim`, `ReclaimFails`, `Sweep`, `Place`, `Refuse`, `AcquireFails` |
| `chat.py`, send and resume | `TakeGuard`, `InitDone`, `GiveUp`, `LeaveDuringInit`, `Handover`, `DisconnectHandover` |
| `agent_service.py`, prepare | `CreateRound`, `ClaimContinuation` |
| `turn_orchestrator.py` | `RenewLock`, `StartContinuation`, `Consume`, `RenewClaim`, `End`, `StopCancelled`, `StopSuperseded`, `StopLost`, `HeartbeatMissing`, `HeartbeatFails`, `Crash` |
| `chat.py`, abort | `AbortBegin`, `AbortClose`, `AbortRelease`, `AbortFails` |
| `main.py`, startup cleanup | `StartupLocks`, `StartupCloses` |

An attempt is used once, so it doubles as the uuid of its lock and of its Round; a
refused one may ask again. Acquire is cut where it commits: stale rows are
deleted in one transaction, each is then cleaned up or restored in others. Any
open Round of the session may be the one `get_main_running_round` finds. One
abort is in flight at a time; `AbortFails` at any point covers the ones that
break off. The age of a Round is not tracked: startup cleanup may take any for
old, which it does only after its lock is gone. The 409 answers that depend on
the `round_id` in the payload, cron and subagent Rounds are left out.
`VisionFallback` says whether the model has one configured, because only that
path looks for a cancel request again; `MayAbort` switches the user's aborts.

### EventBus

The log of one Round, the producer (`driver`, `stage`, `sent`, `buffer`), per
client its connection (`link`), the subscription (`todo`, `queue`, `latest`,
`seen`, `raw`, `replayed`, `required`) and what the browser shows (`cursor`,
`content`).

| code | actions |
|---|---|
| `agui_event_bus.py`, publish | `StartSegment`, `Chunk`, `EndSegment`, `FinishStream` over `PublishRows`, `Fanout` |
| `agent_service.py` | `Fail`, `StopDriver`, `Suspend`, `Resume`, `LoseLiveness` |
| closers elsewhere | `AbortRound`, `RecoverRound`, `CrashProcess` |
| `agui_event_bus.py`, subscribe | `Subscribe`, `Replay`, `EnsureTerminal`, `LastReplayEnds`, `Register`, `CatchUp`, `Receive` over `Yield` |
| `turn_orchestrator.py`, `chat.py`, direct stream | `ReadDirect`, `DirectEnds` |
| `chatStreamClient.ts`, `chatRuntimeReducer.ts` | `Show`, `Fold`, `Disconnect` |

A segment is a message or a tool call; its text is a sequence of numbered chunks,
so that a hole, a repetition and a swap are all visible. Chunks of text segments
are rows; those of thinking and tool arguments are live only until one aggregate
row holds them all. Commit and fanout are one step because the event loop does
not change hands between them. The phases of `subscribe` are cut more finely than
the awaits of the code, which only adds behaviours. A Round is resumed by a client
whose cursor is at the last row, the question. `RecoverRound(elsewhere)` is the
recovery of this process or, with `RollingStart`, the startup cleanup of another
one. The resets that a start event of every kind performs are one rule in
`Fold`. The cache of terminal runs, title and other ephemeral events, and an
agent generator that ends without any terminal event are left out, and so is
what a user's stop hides: after it the client drops the deltas of that run
(`localOutputStopped`, `chatRuntimeReducer.ts:866`).

### CronRuns

The `cron_job_runs` rows (`status`, `phase`, `owner`, `lease`, `sandbox`), the
job (`job`, `manual`, `outdated`) and *tasks*: one execution of `_run_queued` or
`_run`, in any process, each used once, with its program counter, its claim
(`fenced`), its connected sandbox (`box`), the write it is about to commit
(`goal`) and its turn (`agent`).

| code | actions |
|---|---|
| `cron_service.py`, jobs | `SetJob`, `ChangeRule` |
| `cron_worker.py`, queue and claim | `Enqueue`, `Claim`, `ClaimOwn`, `Look`, `Spawn` |
| `routes/cron.py`, trigger | `Trigger`, `SpawnFails` |
| `cron_service.py`, `run_cron_job` | `Verify`, `Check`, `Acquire`, `Freeze`, `Begin`, `Dispatch`, `Publish`, `Finish`, `Stumble`, and `Store`, the commit of what these have read |
| `turn_orchestrator.py` | `AgentEnds` |
| heartbeat, reconciler | `HeartbeatLost`, `HeartbeatFails`, `LeaseLapses`, `Reconcile`, `Crash` |

A task's name is its claim token. Every task runs as if in a process of its own
(the per-process set of run ids only removes behaviours). A run stands for one
due minute or one trigger, so the uniqueness of fires is built in. Deleting the
job is `"gone"`, disabling the user `"barred"`. Renewing a live lease changes
nothing. The fence around workspace files and the change summaries are left out.
`_set_run_phase`, `_mark_run_failed` and the final write read the row without
locking it; they are two steps, with `store` between them.

Two constants name what the passing run assumes; the proofs assume neither.
`SharedQueue` FALSE: no other worker looks at the queue between the commit of a
trigger and the claim of the task it spawned (`cron_runs_manual` shows what
happens otherwise). `SlowCommits` FALSE: a lease does not lapse between such a
read and its commit, a few milliseconds against a lease of minutes. With it TRUE,
`AgentStartsOnce` fails: a task that has read its live lease, is overtaken by the
reconciler and then commits `executing` over the new claim. This is listed as a
hazard without a property, because no document promises anything about it. What
holds all the same is proved: who alone starts an agent again, and who alone
replaces an outcome (section 6).

### WorkspaceMutations

The rows of one user's workspace (`wsStatus`, `tree`, `folder`, `used`), the
journal of each change (`state`, `plan`, `intent`), its claims (`hold`, `turn`,
`lapsed`, `gen`), the sandbox (`marker`, `disk`, `dirs`), the requests
(`phase`) and the reconcilers (`rec`).

| code | actions |
|---|---|
| `workspace_service.py`, planning | `Read`, `Draft`, `Retry`, `Send` |
| `_begin_prepared_mutation`, `acquire_claims` | `Begin`, `BeginRefused`, `ObjectIsPruned` |
| the fenced scripts in the sandbox | `Run`, `RunUnheard`, `RunFenced` over `Fits`, `Perform`, `Passes`, `Publish` |
| record and failure | `Record`, `RecordRefused`, `Fail`, `Die` |
| leases (`workspace_mutation_coordinator.py`) | `Lapse`, `Renew`, `Take` |
| reconciliation | `Advance`, `Examine`, `ExamineFenced`, `Conclude`, `ConcludeRefused`, `ReconcilerFails` |
| switch of the sandbox | `BeginDrain`, `FinishDrain`, `Rebuild` |
| a shell in the sandbox | `Drift` |

A journal is frozen before its claims are asked for: `plan` has the rows before
and after, the directory as it was read (`base`) and where the change goes
(`to`). A text is the set of contributions it holds, one byte each, and each is
made at a place, a line or a cell (`Places` says which share one). `MergeOf` is
what is sent of a draft: the draft as it is when its base is the current row or,
for the drafts in `Unmergeable`, whatever has become of it; otherwise a three-way
merge per place, in which the draft stands where it differs from its base and the
current text everywhere else. So the draft wins at its own place, as the code
says it does. `Unmergeable` stands for a base version that has been pruned
(`workspace_service.py:4999`) and for bytes no merge is known for: a changed
shape of a table, undecodable text (`workspace_auto_merge.py:106`, `:176`,
`:387`). Which drafts these are is fixed per request and its retries; that a base
is pruned between the two is left out. A generation stands for itself and for the
token issued with it. A takeover adds one to every claim of the change, which
`turn` counts. A deletion whose answer is lost may have removed any part of its
files; the other scripts are atomic renames. A script compares markers and brings
older ones up to date before it touches a file; one that is fenced may have
raised some of them. There is one directory at a time and it is below the root.

### WorkspaceObjects

One content: its row (`objRow`), its file (`objFile`), the saves that want it
(`save`), the versions and heads that name it (`version`, `heads`, `pins`) and
the collectors (`objClaim`, `gcStep`, `gcOf`).

| code | actions |
|---|---|
| `_begin_prepared_mutation`, `write_content`, `ensure_content_object`, `_persist_*` | `BeginSave`, `CheckObject`, `InstallSave`, `KeepContent`, `RecordSave`, `FailSave` |
| heads, protections, deletion | `ReplaceHead`, `ProtectVersion`, `ReleaseVersion`, `DeleteVersions` |
| `run_history_gc`, `_prune_version_content`, `_prune_unreferenced_objects`, `remove_content_objects` | `TakeObject`, `LookAtVersion`, `LookAtObject`, `Mark`, `RemoveContent`, `FinishPruning`, `CollectorDies`, `ClaimLapses` |

Every save here has this very content, which is the case the collection has to
get right. `Windowed` lets other transactions commit between a collector's reads
and the commit of its mark, which the isolation level permits (`objects_window`).
`Stalls` lets a collector outlive its claim of 120 s, which has no heartbeat.
Both are FALSE in the passing run; neither is excluded by the code, and the proof
assumes neither: it holds up to the moment when one of them has had its effect
(section 6). Where a collector dies after its mark, a transient reference makes
the next one put the version back to "materialized" although its file is gone
(`workspace_service.py:5595`), so that `ContentIsKept` speaks of versions only as
long as no collector has died; of heads it speaks always. Restoring a version and
applying a change set also claim the object; plain saves do not, and are what is
modelled. A record transaction that reads before a mark and writes after it is
left out as one more form of the same window.

### DraftAttachments

One attachment: its row (`att`, `attGen`, `removed`, `bound`, `named`), its bytes
(`parts`, `file`, `copy`), the session (`mentioned`, `session`), uploads, claims,
and per path a cleanup job (`chore`, `worker`, `leaseOn`) with the tasks that run
them (`cleaner`).

| code | actions |
|---|---|
| upload | `BeginUpload`, `BindUpload`, `WritePart`, `InstallPart`, `FinishUpload`, `FailUpload` |
| claim | `BeginClaim`, `CopyDraft`, `FinishClaim`, `FailClaim` |
| messages and removal | `SendRound`, `DeleteSession`, `DeleteDraft`, `ExpireDraft` |
| `sandbox_cleanup_service.py` | `ClaimChore`, `RemovePath`, `FailRemoval`, `EndChore`, `CleanerDies`, `ChoreLapses` |

Assumed: a request stays alive until it has handled the outcome of its calls to
the sandbox; a failed call has no effect later on; there is one session; that the
sandbox was replaced shows only as a "blocked" job. `MaxGenerations` bounds the
generations, `MaxLapses` the leases that lapse under a living task and the deaths
of cleaning tasks, `FewLateClaims` cuts the run (not the proof) at the second
generation of an attachment whose session is gone.

### SandboxBinding

The row (`binding`, `fits`, `shown`), the containers (`life`), per process its
cache and lifecycle lock (`cached`, `cachedFits`, `keeper`), per caller where it
is and what it holds (`home`, `need`, `stage`, `want`, `may`, `config`, `box`),
and an administrator's switch (`switching`).

| code | actions |
|---|---|
| callers | `Ask`, `Peek`, `Peeked`, `Distrust`, `Enter`, `Leaves` |
| `get_or_resume`, `_get_or_resume_unlocked` | `Checked`, `Queried`, `Connected`, `Created` over `Chosen`, `Follow`, `Serve`, `BindOrYield` |
| `_compare_and_swap_sandbox_binding`, losing candidates | `Replaced` over `Swap`, `BindFails`, `Discarded` |
| renewal, pausing, processes | `Renewed`, `Pause`, `PauseLands`, `Restart`, `Expires` |
| profiles | `ProfileChanges`, `SwitchBegins`, `SwitchEnds` |

A fingerprint names a profile and its version; of each that is kept only whether
it is still the user's matters, hence Booleans. A profile the user had before is
not given back to him. The two commits of an administrator's switch are
`SwitchEnds` followed by `ProfileChanges`. `CalmSandbox` restricts the run (not
the proof): a file request meets no paused sandbox, and during a switch all
callers are runs. The routes of the file panels are callers of kind "panel"; they
are left out of the passing run, because `sandbox_panel` refutes the property with
them. The proofs include them and say what is theirs alone to do. Pushing skills into the sandbox
and deleting a user are left out.

### Composites

Components that share no state are checked side by side: a variable `which` says
which of them moves in a behaviour, and the others stay as they are, in one state
at rest. So each property is asked of its component alone, and one run asks
several questions. Where symmetry is used, the parts share their model values, so
that one group of permutations serves them all. `MCChat` is HumanRound beside
WorkspaceMutations; `MCUser` RunSlots, DraftAttachments and SandboxBinding;
`MCServices` EventBus, CronRuns and WorkspaceObjects; `MCSettling` the liveness of
five of them.

## 4. The runs

| run | bounds | states | shows |
|---|---|---|---|
| `chat` (MCChat) | a Round: 2 workers, 2 interactions; a workspace: 3 changes, 2 reconcilers, 1 file, 2 names of a directory, 2 drafts at one place and one that is not merged, 2 faults | 278,854 | `EffectOnce`, `HonestAbort`, `OneDriver`, `ClosedOnce`, `StartedIsNeverReclaimed`, `StaleWorkerWritesNothing`, `KeepsContract`; `FilesAgree`, `BaseIsKept`, `QuotaIsKept`, `DrainIsQuiet`, `OneEffectPerKey`, `NoLateWrite`, `NoLostUpdate` |
| `user` (MCUser) | 3 attempts, 2 sessions, 2 slots; 2 uploads, 1 claim, 2 cleaning tasks, 3 generations; 2 callers, 2 processes, 3 containers | 420,623 | `SlotsAreExclusive`, `RecoverySparesTheLiving`, `FreshLockIsKept`, `AbortedInitNeverRuns`; `FilesFollowRows`; `CandidatesStayHidden`, `ReplacedForCause` |
| `services` (MCServices) | 1 client, 2 segments of 2 chunks; 1 cron run, 3 tasks, 2 sandboxes; 3 saves, 2 collectors, 1 death | about 2 million | `ContentIsExact`, `YieldsInOrder`, `TerminalIsLast`, `CleanEof`; `AgentStartsOnce`, `OutcomeIsKnown`, `RunsInItsSandbox`, `OutcomeStays`; `ContentIsKept` |
| `settling` (MCSettling) | 2 workers, 1 interaction; 1 change, 2 reconcilers; 2 saves, 2 collectors; 2 tasks, 1 sandbox; 1 upload, 1 claim, 1 cleaning task; fair | about 50,000 | `StartedWorkSettles`, `PreparedIsResolved`, `EveryRunSettles`, `PruningEnds`, `RemovedIsCleaned` |
| `run_slots_live` | 3 attempts, 1 session, one abort at most beside other requests, fair | 54,193 | `ZombieStops`, `OrphanIsClosed`, `SlotComesBack` |
| `event_bus_live` | 1 client, 2 segments, 1 chunk each, fair | 289,630 | `RowsArrive`, `TerminalWakes` |
| `human_round_waiting` | 2 workers, 1 interaction | | violates `WaitingIsKept` |
| `run_slots_epoch` | without vision fallback | | violates `AbortedInitNeverRuns` |
| `run_slots_disconnect` | no abort | | violates `DisconnectKeepsLock` |
| `cron_runs_manual` | with `SharedQueue` | | violates `AgentStartsOnce` |
| `objects_window` | with `Windowed` | | violates `HeadsHaveContent` |
| `sandbox_panel` | runs and panels | | violates `ReplacedForCause` |

Each property is broken by a mutant: a definition of the model changed the way a
plausible bug would change the code (`PROJECT.json`, "mutants"; the mutated
definitions stand before the ones they replace). Type invariants are not run:
they are proved, for every module.

What the properties say:

* `EffectOnce`: an approved tool is called at most once and only after "allow",
  over crashes, lapsed leases, retries and second workers. `KeepsContract` says
  the same in steps, and that nothing decided is decided again.
* `HonestAbort`: after an abort that reported certainty, no tool of the Round is
  or comes to be in flight. The report is computed from rows alone.
* `OneDriver`, `StaleWorkerWritesNothing`: two workers never both have writes that
  the open Round accepts; one whose claim was taken leaves everything as it is.
* `ClosedOnce`: whoever closes the Round writes one terminal event and leaves
  nothing pending. `StartedIsNeverReclaimed`: a started continuation is not
  replayed; `StartedWorkSettles`: nor does it hang, nor does an approved call stay
  "executing".
* `SlotsAreExclusive`: rows taken out for a cleanup count too, so that putting one
  back cannot meet the unique constraint or exceed the limit.
* `RecoverySparesTheLiving`: reclaiming, sweeping and startup cleanup close no
  Round that a driver's lock or a live claim answers for.
* `FreshLockIsKept`: a fresh lock is deleted only when its owner moves on or by
  the abort that read this very row.
* `AbortedInitNeverRuns`: an abort during preparation prevents the Round.
* `ZombieStops`, `OrphanIsClosed`, `SlotComesBack`: drivers without a lock, Rounds
  without a driver and locks without an owner all end.
* `ContentIsExact`: the browser never shows a hole or a repetition, and a segment
  whose end it has seen it shows completely.
* `YieldsInOrder`, `TerminalIsLast`, `CleanEof`, `RowsArrive`, `TerminalWakes`:
  order, finality and completeness of what a subscription gives.
* `AgentStartsOnce`, `OutcomeIsKnown`, `OutcomeStays`, `RunsInItsSandbox`,
  `EveryRunSettles`: a run's agent is started once, a success is its agent's,
  outcomes are final, the sandbox is the frozen one, and no run is stranded.
* `FilesAgree`: whatever stalls, dies or is taken over, outside of open changes
  rows and files say the same, two rows never share a place, and a reconciler
  finds one side of an open change or the other; unless a shell interferes.
* `BaseIsKept`: while a change is open nobody changes what it started from or
  takes the place it goes to: claims, and not the final compare-and-set, decide
  conflicts. `NoLateWrite`: files change only as part of an open change.
* `QuotaIsKept`: the counter is the sum of the texts, and what open changes have
  reserved still fits. `DrainIsQuiet`: no change is open during a switch.
* `OneEffectPerKey`: retries of one request have one effect. `NoLostUpdate`: the
  save of a draft that can be merged changes nothing but the place it writes at, so
  that what others have put elsewhere stays and what they took away does not come
  back, whatever came between its base and its commit. Nothing is said of its own
  place, where the draft wins, nor of a draft that is not merged, which overwrites
  the file (section 8). `PreparedIsResolved`: a change that has begun is completed
  or failed.
* `ContentIsKept`, `PruningEnds`: no content in use is collected; a removal that
  was begun ends, whoever dies at it.
* `FilesFollowRows`, `RemovedIsCleaned`: what a row calls ready or claimed is there
  and whole; what is left of a removed attachment is somebody's to delete, and in
  the end it is gone and stays gone.
* `CandidatesStayHidden`, `ReplacedForCause`: a container that lost the race for
  the row is never used; a bound one gives way only when it is gone or not of the
  user's profile.

Why the bounds are enough. A race here is between an owner, the one that takes
over and one that cleans up; cleaners are mostly not workers of the models but
actions of the environment, so two workers, or three where a third may come after
the second (attempts, tasks, changes), produce every pairing. Two interactions
let a Round be suspended again after it was resumed; since at most one is pending
at a time, a third adds length and no new configuration. Two sessions and two
slots are the least for which a restored slot can collide. Attempts, tasks and
changes are used up, so the runs cover histories of three, not endless ones; the
inductive proofs of section 6 have no such bound. Runs of a job share nothing but
the job, whose state may change at any step: one run is enough. Two chunks are
the least for which a segment can be joined in its middle; subscribers do not
interact, so one client suffices. One claim of an attachment suffices because a
second one needs "ready", which the first one's end gives; the proof has any
number. Three changes, two of which write at one place while the third is saved
unmerged, give every pair there is: two drafts that meet at a place, two that do
not, and either beside a whole-file overwrite, before or after it.

Constraints cut the combinations of what is explored on its own anyway. In the
workspace, three changes are at work at a time until the first fault, two until
the second and one after it (`OneMatter` of `MCChat`). Aborts meet two requests
for one session, three requests for two sessions meet without aborts (`OneMatter`
of `MCUser`; `LoneAbort` of `MCRunSlots` likewise). A third generation of an
attachment is not followed once its session is gone (`FewLateClaims`). File
requests, paused sandboxes, an administrator's switch and a third container are
explored one at a time (`CalmSandbox`). At most one segment has reached
its last chunk (`OneLong` of `MCServices`). A constraint of TLC stops only at the
states that violate it, which are themselves checked; and none of these bounds
is in the proofs (section 6). `MaxChunks`
bounds `sent`; no other counter of the EventBus can grow without bound; `ended`
and `effects` stay within 0..1 as properties, not by a guard.

The systems may stop (a Round is closed, attempts and tasks are used up), so
deadlock is not checked. Symmetry is used in runs without liveness properties
only.

## 5. Fairness

* `HumanRound`: weak fairness of each worker's own steps (the event loop runs,
  tools return or time out), of leases lapsing, and of the reconciler, a background
  task that loops (`approval_reconciler.py`). Nothing is assumed of the user, of
  claims, or of recovery that a visit to the session would trigger.
* `RunSlots`: weak fairness of each driver's heartbeats and of its reaction to its
  tokens; of the lapse of locks and claims whose owner is gone; of requests
  beginning and, under the mutex, going on; and strong fairness of the steps there
  that can be interrupted by a database error, reclaiming and sweeping (an error
  every time for ever is not a schedule the code can do anything about). It is
  asked of the requests together, not of each, which assumes less than a fair
  mutex gives. The user asks again: recovery is triggered by requests, so
  `OrphanIsClosed` and `SlotComesBack` end with "or nobody asks any more".
* `EventBus`: open connections are served and a producer that is running reaches
  its next write. Clients need not reconnect, producers need not finish. `RowsArrive`
  says that a subscriber comes to have the whole log or loses its connection, which
  implies that each single row arrives.
* `CronRuns`: weak fairness of each task's steps, of turns ending, of the
  heartbeat noticing a lost claim, of a dead task's lease lapsing, of the workers
  looking at the queue and of the reconciler. Tasks are used up, hence "or no task
  is left" in `EveryRunSettles`. The heartbeat of a live task need not fail, and a
  live task's lease need not lapse.
* `WorkspaceMutations`: weak fairness of the owner's and the reconcilers' next
  steps and of the lapse of claims nobody renews; strong fairness of the takeover,
  since reconcilers are busy with other changes in between (they run before every
  write of the user and at every start). Requests need not begin.
* `WorkspaceObjects`: collectors and saves that were begun go on, a dead
  collector's claim lapses, and the maintenance loop takes up what was left.
* `DraftAttachments`: requests end, cleaning loops go round, the leases of dead
  tasks lapse, and a sandbox that does not answer does so some time (strong
  fairness of the removal and of taking a job).

## 6. The proofs

`*_proofs.tla`, checked by `tlapm`. All are for arbitrary sets of workers,
interactions, attempts, sessions, runs, tasks, changes, clients and so on, and
any values of the bounds, unless said otherwise; the assumptions are the named
ones of the modules (the "absent" values are not elements of the sets they
complete; "nothing" is not a text; `Limit` is a positive number). The inductive invariants were checked
with TLC on small instances before they were proved.

**HumanRound.** The inductive invariant `IInv` is `TypeOK` and three parts.

* `DispatchInv` (for `EffectOnce`): crossed approvals were allowed, and at most
  one worker stands between the dispatch and the call of an approval, with its
  effect count still 0. It rests on dispatch needing "approved" and leaving it.
* `DriverInv` (for `ClosedOnce`, `OneDriver`): an open question and a running agent
  loop exclude each other and each is unique, which is why a worker that consumes
  its interaction may start to loop.
* `RiskInv` (for `HonestAbort`): while an approval is undecided or undispatched no
  direct call is in flight. This is the reason why `_round_has_uncertain_dispatch`
  may report certainty from rows alone, and it needs the other two.

Proved from it: `TypeCorrect`, `EffectOnceHolds`, `HonestAbortHolds`,
`ClosedOnceHolds`, `OneDriverHolds`, the action properties
`StartedIsNeverReclaimedHolds` and `StaleWorkerWritesNothingHolds`, and
`KeepsContractHolds`: the initial state maps to the contract's, and each
action to one of the contract's steps or to a stutter (`ContractStep`).

**RunSlots.** `IInv` is `TypeOK`, `AdmissionInv` (only the holder of the mutex is
acquiring, and only before its sweep does it hold rows in memory),
`SlotsAreExclusive` itself, and `RunInv` (a driver, a resumed Round and its lock
belong to one session). `AdmissionInv` is what makes restoring a row safe: nobody
can place a lock while one is held in memory. Proved: `SlotsAreExclusiveHolds`,
`RecoverySparesTheLivingHolds`, `FreshLockIsKeptHolds`, and
`AbortedInitNeverRunsHolds` from the assumption `VisionFallback`.

**CronRuns.** In every behaviour, with a shared queue and with slow commits. `IInv`
is `TypeOK` and four parts: `TaskInv` says where a task may be and with what,
`SandboxInv` that a task past its freeze has connected to the sandbox of its run,
`TriggerInv` that the only task of a run without a claim is its trigger's, and
`SuccessIsEarned`. Proved: `TypeCorrect`, `RunsInItsSandboxHolds`,
`SuccessIsEarnedHolds` (the second half of `OutcomeIsKnown`), and
`ReplacedByLateWritesOnlyHolds`: an outcome is replaced only by a task of the run
that had read the row before and commits its own success or failure.

`StartsOnceInTimeHolds` says who may start an agent. `AgentStartsOnce` is false
here, so a history variable `late` collects the tasks whose claim was taken
between a read and its write; it changes nothing of what happens (`WatchedSpec`).
Of the tasks that have a claim and are not in `late`, at most one of a run starts
its agent; one more may, which is the task of a manual run that found it claimed.
So neither requeueing nor crashes nor second workers start an agent again.
`CommitInv` carries the argument: the row of a task that has crossed into
execution in time is past every phase that is requeued, its claim is that task's
or nobody's (`Carried`), and no second such task crosses. With `late` empty and
no unclaimed task this is `AgentStartsOnce`.

**EventBus.** `BusInv` types everything on its way to a client; with it,
`TerminalIsLastHolds`: every commit looks at the log first. `OrderInv` is one
statement per client: a replay holds the rows behind `latest` one after the other
(`ReplaysOn`); a queue holds rows of the log as they are, in their order
(`QueuesRows`); those of its rows that are not behind `latest` were delivered by
the catch-up, so that dropping them loses nothing (`SeesAll`); what was given
rises and stays within `latest` (`Rises`); and who has got past the terminal row
has shown it (`Ends`). This is what registering a queue before the last replay is
for, and why `seen` is kept.

`TextInv` is the balance behind `ContentIsExact`. `LogText` says what a Round can
have written: the rows of a segment begin with its start, go on with chunks in the
order of their numbers, and end with its end, which an aggregate of all chunks
precedes when they were live only. `Told(c)` says of each client

* `Shows`: its text is the first chunks of every segment, and its cursor says
  which rows are among them; behind an aggregate or an end it has all of them;
* `Passes`: the rows between its cursor and `latest` are aggregates of what it has
  been shown live, and no segment is both raw and replaced by its aggregate;
* `InLine`: in a queue, the chunks of a segment are in their order, and neither
  before its start nor after its end;
* `Gapless`: every row behind the replay (`From`) is in the queue, but for the
  aggregates that a direct stream is not given; and a start comes with its chunks;
* `Hears`: when the chunks of a segment are shown live, those between what is
  shown and what is sent are all in the queue, as long as the segment is under way.

What is committed keeps these by `RowsTold`, a live chunk by `LiveTold`, and what a
connection reads by `HeadTold` (`ReadDirectTold`, `ReceiveTold`) and `ReplayTold`:
the head of a queue, or the next row, is either exactly what the text lacks or
passes for what has been shown. A queue that is registered in the middle of a
segment hears it from `required` on by its aggregate only (`RegisterTold`); a client
that hangs up keeps `Shows` alone, from which `Subscribe` starts again.

`WaitInv` is about what is still to come: a direct stream has a producer; on a
closed Round whoever is about to go live has not had the terminal, and, unless
another process closed it (`RollingStart`), a live subscriber has it before it.
Together with `Passes`, `ReplaysOn` and `Gapless` it gives the safety half of the
two liveness properties: a row that a live subscriber does not show yet is in its
replay or its queue (`RowsAreAheadHolds`), and nobody waits on a closed Round for a
terminal that is not on its way (`TerminalIsAheadHolds`). What fairness adds is
that the connection goes on reading. TLC checked the two (they are stated in
`EventBus_proofs`) with the bounds of `services` and without `RollingStart`.

Proved: `BusTypeCorrect`, `TerminalIsLastHolds`, `YieldsInOrderHolds`,
`CleanEofHolds`, `ContentIsExactHolds`, `RowsAreAheadHolds`, `TerminalIsAheadHolds`.

**WorkspaceMutations.** The parts, in the order in which they rest on each other.

* `WsTypeOK`; `DrainIsQuiet`; `KeyInv`, of requests with one key at most one is
  past its look-up, for `OneEffectPerKeyHolds`.
* `FenceInv`: a script still to run belongs to an open change or a marker in the
  sandbox is newer than its generations (`Stale`); the turns of reconcilers are
  distinct, and one that has advanced the markers is past every earlier turn
  (`Knows`). With markers that only grow this is `NoLateWriteHolds`.
* `JournalInv`: a journal has the shape of its operation (`Shaped`); what it froze
  of a row is the row of now or one with a lower revision (`Earlier`); a draft that
  can be merged differs from what its journal froze at its own place only
  (`SameButAt`), whatever it was merged with; a request that has done nothing has
  contributed nothing (`Fresh`). A commit compares the row with the frozen one, and
  `NoLostUpdateHolds` follows. Of `Places` it needs that places are disjoint.
* `BaseInv` and `OpenInv`: the directory's revision vouches for its listing; an
  open change fits the directory (`Placed`), and any two share no entry, no tree
  and no destination (`Apart`), which is what begins only past the conflict check.
  A commit leaves the base of every other open change alone: `BaseIsKeptHolds`.
* `LayoutInv`: rows are in directories there are, each in a place of its own.
* `DiskInv`: every open change has an area (its paths, and all below the directory
  if it changes the tree); areas are disjoint, and in its area only the change has
  rows. The files in the area are those of the frozen rows (`Before`) or of the new
  ones (`After`), for a deletion somewhere between (`InPart`); a request or a
  reconciler that knows more knows the truth (`Sides`, `Told`). Everywhere else the
  files are the rows'. A script takes `Before` to `After` (`PerformBrings`), either
  is recognised (`VerdictIs`), and committing, failing and beginning a change move
  its area between the two regimes. That the script of an owner finds nobody has
  examined the files yet is the fence again. This gives `FilesAgreeHolds`.
* `QuotaInv`: the counter is the size of the rows, and the size and what is booked
  for open changes stay within the quota; a commit adds no more than was booked for
  it. The sums of the model take one element after another; `SumIsThere` and
  `SumIsOne` show that such a sum exists over a finite set and that there is only
  one (two would first differ on a smallest set), so each is the number of pairs of
  an element and a number up to its share (`Total`), and lemmas about finite sets
  do the rest. From `RoomAssumption`: finitely many rows, and what there is at
  first fits. `QuotaIsKeptHolds`.

**WorkspaceObjects.** For all values of `Windowed` and `Stalls`. A collector removes
the file only between its mark and its end, and all that time the row says
"pruning"; so it is enough to follow the row: while it says so no save gets past
its check and nothing is a head (`MarkHolds`), what was copied is there
(`HeldIsThere`), and as long as no collector died a marked object has no version in
use (`UseHolds`). Two things break this and the code excludes neither: a second
collector at work, because the claim lapsed under the first (`Alone`), and a save
past its check while a collector is between its reads and its mark (`KeptOut`).
The history variable `disturbed` is TRUE from the first such moment on, and changes
nothing. Proved: `ContentIsKeptUndisturbed`, that `ContentIsKept` holds in every
state up to that moment, so that nothing else ever costs a head its content: not
the death of collectors, lapsed claims of dead ones, a second collector that comes
after the first, or a save that comes before the look or after the mark; and
`ObjectsTypeCorrect`. `objects_window` shows that the second exception is needed.

**DraftAttachments.** `DraftInv`: bytes are written for a bound row only
(`WrittenInv`), at most one claim is out and the row is its own unless deleted
(`ClaimsInv`), jobs belong to a removal (`ChoresInv`), so the file of a row that is
not removed is safe (`KeptInv`); and a job is called completed only while nothing
is left or a request is still out, which arms it again when it ends (`LeftInv`).
Proved: `DraftTypeCorrect`, `FilesFollowRowsHolds`, without further assumptions.

**SandboxBinding.** For callers of every kind, panels included. `SandboxInv` adds to
the types that whoever checks or asks has something in hand (`HandsAreFull`), that
what is bound was shown and what is named was made (`BoundIsShown`,
`NamedIsMade`), that nobody holds the same container to be of the user's profile
while another holds it not to be (`Agreement`), and that whoever replaces a
container has a cause that does not go away (`CauseLasts`): it is gone, which is
for ever, or nobody holds it to fit, which a change of the profile cannot make true
again. Proved: `SandboxTypeCorrect`; `TurnedAwayByPanelsOnlyHolds`, that a binding
which is neither lost nor of another profile is replaced only by a panel with a
running container in hand, never by a run's creation, replacement or late answer;
and `ExposedByPanelsOnlyHolds`, that a container which was never bound gets into a
cache or a caller's hands only where a panel made it and could not write the row.
Without panels these are `ReplacedForCause` and `CandidatesStayHidden`;
`sandbox_panel` shows that the first exception is needed.

## 7. Only model-checked

The liveness properties (`StartedWorkSettles`, `PreparedIsResolved`,
`EveryRunSettles`, `PruningEnds`, `RemovedIsCleaned`, `ZombieStops`,
`OrphanIsClosed`, `SlotComesBack`, `RowsArrive`, `TerminalWakes`): the prover does
not handle `ENABLED`, on which fairness rests.

Five safety properties of passing runs hold there because of a named assumption
that the code does not guarantee, and are therefore not theorems as they stand:
`AgentStartsOnce`, `OutcomeStays` and the first half of `OutcomeIsKnown`
(`SharedQueue`, `SlowCommits`), `ReplacedForCause` and `CandidatesStayHidden` (no
panels). `ContentIsKept` (`Windowed`, `Stalls`) is a theorem up to a disturbance.
What is proved of each without the assumption is in section 6. All other safety
properties of the passing runs are proved as they are; `AbortedInitNeverRuns` for
deployments with a vision fallback, the other setting being `run_slots_epoch`'s.
No model uses a recursive operator.

## 8. Where code and documents disagree

* `human_round_waiting`: `chat-spec.md:1352` keeps a Round that waits for its user
  until it is answered or aborted. A task cancellation or an exception that
  arrives between the commit of the question and the worker's note of it closes
  the Round (`turn_orchestrator.py:281`, `agent_service.py:4218`).
* `run_slots_epoch`: `chat-spec.md:924` lets an abort during initialisation
  short-circuit the old request. Without a vision fallback the request is not
  looked at again while attachments are staged (`agent_service.py:2463`), and the
  Round is created after the abort has been confirmed.
* `run_slots_disconnect`: `chat-spec.md:1373` lets a producer run on when its
  client disconnects. Between the start of the driver and `chat.py:1016` a
  disconnect still releases the driver's lock, and the heartbeat stops the driver.
* `cron_runs_manual`: `cron-spec.md:289` makes the claim the fence of everything a
  run writes. A manual run that a reconciler claims before its own task has looked
  at it is run by that task too, without a claim (`cron_worker.py:834`).
* `objects_window`: `workspace-spec.md:86` protects current heads and open changes
  from the history's collection always. A save that begins between a collector's
  reads and the commit of its mark is seen by neither check; its head ends up
  without a file (`workspace_service.py:5638`).
* `sandbox_panel`: `sandbox-spec.md:156` lets only a caller whose previous id is
  still bound write the binding. The routes of the file panels write what their
  process has cached whatever is bound by then (`routes/sessions.py:449`, and
  `routes/cron.py:340`).

One is read in the code and not run: `workspace-spec.md:78` rules out that the
last writer of a whole file wins, except where the draft's base was pruned.
`write_content_auto_merge` also writes the whole draft when no merge is known for
the bytes (`workspace_service.py:5067`): when rows, columns or sheets of a table
were added or removed on either side, or the text of the base or of the current
version cannot be decoded. The model does what the code does (`Unmergeable`), and `NoLostUpdate`
is silent about these drafts.

One more is a hazard without a run of its own: a Round closed by the startup
cleanup of another process wakes no subscriber of this one (`main.py:299`). With
`RollingStart` TRUE, `TerminalWakes` does not hold; connections then end only when
the browser gives up.

## 9. Not modelled

The components marked `not_modelled` in `PROJECT.json`, each with its reason.
Three are protocols and planned (section 2). Of the agent pool: a cached agent is
returned after an await without looking at the user's sandbox again
(`agent_pool_service.py:565`), the snapshot of expired sessions is not looked at
again before each is removed (`:824`), and invalidating a user's agents skips the
ones being created (`:883`); these are hazards without a property so far. Of the
cron clock: minutes that meet a conflict, a changed rule or an error are not
dispatched again, and catching up evaluates past minutes under the current rule.

The rest is data or I/O: contents of files and merges, change sets and imports,
session files, text of checkpoints and memory, model clients, MCP connections,
skills, channels, authentication, administration, the sandbox provider itself. Of
the modelled components, prompts, tool policies, usage totals, titles and SSE
framing are left out. The database is taken to be serialisable for transactions
that lock their rows; where the code reads without a lock the model splits the
step, or names the assumption (`SlowCommits`, `Windowed`).
