------------------------------ MODULE RunSlots ------------------------------
(***************************************************************************)
(* The run slots of one user: the UserRunLock rows that admit a request to *)
(* a session, the coordinator that hands them out and reclaims the stale   *)
(* ones, the life of a request from admission through Agent initialisation *)
(* to a driven Round, and the abort endpoint that takes the slot away.     *)
(*                                                                         *)
(* An attempt is one admission: it is used once, so it is also the uuid of *)
(* the lock it is given and of the Round it creates.  A refused attempt is *)
(* a request that was never admitted; it may be made again.  Ages are      *)
(* Booleans: a lock is fresh until its heartbeat is sse_subscribe_timeout  *)
(* old, a continuation claim is live until its lease has run out.          *)
(* The interactions behind a waiting Round are HumanRound's business.      *)
(***************************************************************************)
EXTENDS Naturals, FiniteSets

CONSTANTS Attempts,        \* requests to send a message or to resume a Round
          Sessions,        \* chat sessions of the user
          Limit,           \* agent_user_concurrency_limit
          NoOne,           \* absence of an attempt
          VisionFallback,  \* the model has a vision fallback configured
          MayAbort         \* whether the user aborts

ASSUME RunSlotsAssumption ==
    /\ NoOne \notin Attempts
    /\ NoOne \notin Sessions
    /\ Limit \in Nat \ {0}
    /\ VisionFallback \in BOOLEAN
    /\ MayAbort \in BOOLEAN

VARIABLES
    mutex,      \* the attempt that holds the user's acquire mutex
    lock,       \* session -> lock_id of its UserRunLock row
    slot,       \* session -> slot of its row, kept while the row is taken out
    fresh,      \* session -> the row's heartbeat is recent
    taken,      \* session -> stale lock_id the coordinator deleted and holds
    busy,       \* sessions the coordinator found active without a lock
    pc,         \* attempt -> where it is
    at,         \* attempt -> its session, also the session of its Round
    run,        \* attempt -> the Round it drives or is to resume
    round,      \* attempt -> status of the Round it created
    claim,      \* Round -> attempt that owns its accepted answer
    live,       \* Round -> the claim's lease has not run out
    cancelled,  \* attempts with a cancel request newer than their guard time
    token,      \* attempts whose cancel token is set
    lost,       \* attempts whose liveness token is set
    abort       \* what the abort endpoint has read, while it is at work

locks == <<lock, slot, fresh>>
admission == <<mutex, taken, busy>>
claims == <<claim, live>>
signals == <<cancelled, token, lost>>
vars == <<locks, admission, pc, at, run, round, claims, signals, abort>>

-----------------------------------------------------------------------------
NoAbort == [step |-> "none", session |-> NoOne, target |-> NoOne, lock |-> NoOne]

Acquiring == {"begun", "swept"}
Admitted  == {"placed", "init", "prepare", "handover", "drive"}
Driving   == {"handover", "drive"}

Maybe(S) == S \cup {NoOne}

TypeOK ==
    /\ mutex \in Maybe(Attempts)
    /\ lock \in [Sessions -> Maybe(Attempts)]
    /\ slot \in [Sessions -> Nat]
    /\ fresh \in [Sessions -> BOOLEAN]
    /\ taken \in [Sessions -> Maybe(Attempts)]
    /\ busy \subseteq Sessions
    /\ pc \in [Attempts -> {"new", "gone"} \cup Acquiring \cup Admitted]
    /\ at \in [Attempts -> Maybe(Sessions)]
    /\ run \in [Attempts -> Maybe(Attempts)]
    /\ round \in [Attempts -> {"none", "running", "waiting", "closed"}]
    /\ claim \in [Attempts -> Maybe(Attempts)]
    /\ live \in [Attempts -> BOOLEAN]
    /\ cancelled \subseteq Attempts
    /\ token \subseteq Attempts
    /\ lost \subseteq Attempts
    /\ abort \in [step : {"none", "read", "closed"}, session : Maybe(Sessions),
                  target : Maybe(Attempts), lock : Maybe(Attempts)]
    /\ \A w \in Attempts : pc[w] # "new" => at[w] \in Sessions
    /\ \A w \in Attempts : pc[w] \in Driving => run[w] \in Attempts

Init ==
    /\ mutex = NoOne
    /\ lock = [s \in Sessions |-> NoOne]
    /\ slot = [s \in Sessions |-> 0]
    /\ fresh = [s \in Sessions |-> FALSE]
    /\ taken = [s \in Sessions |-> NoOne]
    /\ busy = {}
    /\ pc = [w \in Attempts |-> "new"]
    /\ at = [w \in Attempts |-> NoOne]
    /\ run = [w \in Attempts |-> NoOne]
    /\ round = [w \in Attempts |-> "none"]
    /\ claim = [w \in Attempts |-> NoOne]
    /\ live = [w \in Attempts |-> FALSE]
    /\ cancelled = {} /\ token = {} /\ lost = {}
    /\ abort = NoAbort

-----------------------------------------------------------------------------
(* What the coordinator looks at.                                          *)

Held == {s \in Sessions : lock[s] # NoOne}
Open(r) == round[r] \in {"running", "waiting"}

\* Mutant: a lock is not reclaimed while its session has a running Round.
StaleAndIdle(s) ==
    /\ lock[s] # NoOne /\ ~fresh[s]
    /\ \A r \in Attempts : at[r] = s => round[r] # "running"

\* The heartbeat of the row is stale_threshold_seconds old.
Stale(s) == lock[s] # NoOne /\ ~fresh[s]

\* has_active_continuation_work on some open Round of s
ActiveWork(s) == \E r \in Attempts : at[r] = s /\ Open(r) /\ claim[r] # NoOne /\ live[r]

\* The claims on the Rounds Rs are cleared.
DropClaims(Rs) ==
    /\ claim' = [r \in Attempts |-> IF r \in Rs THEN NoOne ELSE claim[r]]
    /\ live' = [r \in Attempts |-> live[r] /\ r \notin Rs]

\* A Round leaves "running" or "waiting", or comes back to it, without a claim.
Settle(r, status) ==
    /\ round' = [round EXCEPT ![r] = status]
    /\ DropClaims({r})

\* The Rounds of the sessions S that a cleanup closes as orphans.
Orphans(S) == {r \in Attempts : at[r] \in S /\ round[r] = "running"}

\* _cleanup_orphaned_rounds_detailed on sessions without lock or active work:
\* the orphans in Rs are failed, an expired claim on a waiting Round is cleared.
CloseOrphans(S, Rs) ==
    /\ round' = [r \in Attempts |-> IF r \in Rs THEN "closed" ELSE round[r]]
    /\ DropClaims(Rs \cup {r \in Attempts : at[r] \in S /\ round[r] = "waiting"})

-----------------------------------------------------------------------------
(* Admission, under the user's mutex.                                      *)

\* A request asks for a slot in s, to send or to answer the waiting Round r.
\* Stale locks are deleted and committed before anything else is looked at.
Begin(w, s) ==
    /\ pc[w] = "new" /\ mutex = NoOne
    /\ mutex' = w
    /\ pc' = [pc EXCEPT ![w] = "begun"]
    /\ at' = [at EXCEPT ![w] = s]
    /\ \E r \in {NoOne} \cup {q \in Attempts : at[q] = s /\ round[q] = "waiting"} :
          run' = [run EXCEPT ![w] = r]
    /\ taken' = [x \in Sessions |-> IF Stale(x) THEN lock[x] ELSE NoOne]
    /\ lock' = [x \in Sessions |-> IF Stale(x) THEN NoOne ELSE lock[x]]
    /\ UNCHANGED <<slot, fresh, busy, round, claims, signals, abort>>

\* The rows of the sessions S are not coming back.
Erase(S) ==
    /\ lock' = [s \in Sessions |-> IF s \in S THEN NoOne ELSE lock[s]]
    /\ slot' = [s \in Sessions |-> IF s \in S THEN 0 ELSE slot[s]]
    /\ fresh' = [s \in Sessions |-> fresh[s] /\ s \notin S]

\* Put the row back with its old slot and its old timestamps.
Restore(x) ==
    /\ lock' = [lock EXCEPT ![x] = taken[x]]
    /\ UNCHANGED <<slot, fresh>>

\* One deleted lock: restored if its session still has active continuation
\* work, otherwise the session's running Rounds are closed.
Reclaim(w, x) ==
    /\ pc[w] = "begun" /\ taken[x] # NoOne
    /\ taken' = [taken EXCEPT ![x] = NoOne]
    /\ IF ActiveWork(x)
       THEN Restore(x) /\ UNCHANGED <<round, claims>>
       ELSE CloseOrphans({x}, Orphans({x})) /\ Erase({x})
    /\ UNCHANGED <<mutex, busy, pc, at, run, signals, abort>>

\* The cleanup of x raises part of the way: the lock is restored.
ReclaimFails(w, x) ==
    /\ pc[w] = "begun" /\ taken[x] # NoOne /\ ~ActiveWork(x)
    /\ taken' = [taken EXCEPT ![x] = NoOne]
    /\ \E Rs \in SUBSET Orphans({x}) : CloseOrphans({x}, Rs)
    /\ Restore(x)
    /\ UNCHANGED <<mutex, busy, pc, at, run, signals, abort>>

\* Mutant: every session is swept, the ones with a surviving lock included.
SweepLocked(w) ==
    /\ pc[w] = "begun" /\ \A x \in Sessions : taken[x] = NoOne
    /\ busy' = {x \in Sessions \ Held : ActiveWork(x)}
    /\ LET idle == {x \in Sessions : ~ActiveWork(x)}
       IN CloseOrphans(idle, Orphans(idle))
    /\ pc' = [pc EXCEPT ![w] = "swept"]
    /\ UNCHANGED <<locks, mutex, taken, at, run, signals, abort>>

\* Mutant: Rounds whose lock an earlier cleaner deleted are not looked for.
SweepNothing(w) ==
    /\ pc[w] = "begun" /\ \A x \in Sessions : taken[x] = NoOne
    /\ busy' = {x \in Sessions \ Held : ActiveWork(x)}
    /\ pc' = [pc EXCEPT ![w] = "swept"]
    /\ UNCHANGED <<locks, mutex, taken, at, run, round, claims, signals, abort>>

\* Every session without a lock is classified before a slot is given out: its
\* Rounds may have lost their lock to a cleaner that crashed.
Sweep(w) ==
    /\ pc[w] = "begun" /\ \A x \in Sessions : taken[x] = NoOne
    /\ busy' = {x \in Sessions \ Held : ActiveWork(x)}
    /\ LET idle == {x \in Sessions \ Held : ~ActiveWork(x)}
       IN CloseOrphans(idle, Orphans(idle))
    /\ pc' = [pc EXCEPT ![w] = "swept"]
    /\ UNCHANGED <<locks, mutex, taken, at, run, signals, abort>>

MayPlace(s) ==
    /\ s \notin Held \cup busy
    /\ Cardinality(Held) + Cardinality(busy) < Limit

\* Mutant: the slot is the number of rows there are, not the lowest free one.
PlaceByCount(w) ==
    /\ pc[w] = "swept" /\ MayPlace(at[w])
    /\ slot' = [slot EXCEPT ![at[w]] = Cardinality(Held)]
    /\ lock' = [lock EXCEPT ![at[w]] = w]
    /\ fresh' = [fresh EXCEPT ![at[w]] = TRUE]
    /\ pc' = [pc EXCEPT ![w] = "placed"]
    /\ mutex' = NoOne /\ busy' = {}
    /\ UNCHANGED <<taken, at, run, round, claims, signals, abort>>

\* The lowest free slot is inserted with the lock row.
Place(w) ==
    /\ pc[w] = "swept" /\ MayPlace(at[w])
    /\ \E n \in 0 .. Limit - 1 :
          /\ \A s \in Held : slot[s] # n
          /\ \A m \in 0 .. n - 1 : \E s \in Held : slot[s] = m
          /\ slot' = [slot EXCEPT ![at[w]] = n]
    /\ lock' = [lock EXCEPT ![at[w]] = w]
    /\ fresh' = [fresh EXCEPT ![at[w]] = TRUE]
    /\ pc' = [pc EXCEPT ![w] = "placed"]
    /\ mutex' = NoOne /\ busy' = {}
    /\ UNCHANGED <<taken, at, run, round, claims, signals, abort>>

\* The request goes away without a slot; the mutex holder's memory with it.
Withdraw(w) ==
    /\ mutex' = NoOne /\ busy' = {}
    /\ taken' = [x \in Sessions |-> NoOne]
    /\ Erase({x \in Sessions : taken[x] # NoOne})
    /\ pc' = [pc EXCEPT ![w] = "new"]
    /\ at' = [at EXCEPT ![w] = NoOne]
    /\ run' = [run EXCEPT ![w] = NoOne]
    /\ UNCHANGED <<round, claims, signals, abort>>

\* 429: the session is active or the user's slots are all in use.
Refuse(w) == pc[w] = "swept" /\ ~MayPlace(at[w]) /\ Withdraw(w)

\* A database error or the end of the process while the mutex is held.
AcquireFails(w) == pc[w] \in Acquiring /\ Withdraw(w)

-----------------------------------------------------------------------------
(* The admitted request, until its Round is driven.                        *)

\* Mutant: the lock of the session is deleted, whoever owns it.
FreeSession(L, s) == Erase({s})

\* release_user_run_lock by lock_id: another owner's row is left alone.
Free(L, s) == IF lock[s] = L /\ L # NoOne THEN Erase({s}) ELSE UNCHANGED locks

\* The attempt is over and what it kept in memory is gone.
Vanish(w) ==
    /\ pc' = [pc EXCEPT ![w] = "gone"]
    /\ run' = [run EXCEPT ![w] = NoOne]
    /\ cancelled' = cancelled \ {w}
    /\ token' = token \ {w}
    /\ lost' = lost \ {w}
    /\ UNCHANGED <<admission, at, abort>>

\* The attempt gives its lock back on its way out, or the release fails.
Leave(w) == Vanish(w) /\ (Free(w, at[w]) \/ UNCHANGED locks)

\* run_guard_started_at is taken: cancel requests from here on concern w.
TakeGuard(w) ==
    /\ pc[w] = "placed"
    /\ pc' = [pc EXCEPT ![w] = "init"]
    /\ UNCHANGED <<locks, admission, at, run, round, claims, signals, abort>>

\* A Round of the session waits for its user: nothing new may be sent.
WaitingIn(s) == \E r \in Attempts : at[r] = s /\ round[r] = "waiting"

\* The Agent is ready and nobody aborted meanwhile: the turn is submitted.
InitDone(w) ==
    /\ pc[w] = "init" /\ w \notin cancelled
    /\ IF run[w] = NoOne THEN ~WaitingIn(at[w]) ELSE round[run[w]] = "waiting"
    /\ pc' = [pc EXCEPT ![w] = "prepare"]
    /\ UNCHANGED <<locks, admission, at, run, round, claims, signals, abort>>

\* Init failed, timed out or was aborted, preparation failed or was refused,
\* the client left while the turn was being prepared.
GiveUp(w) ==
    /\ pc[w] \in {"placed", "init", "prepare"}
    /\ Leave(w)
    /\ UNCHANGED <<round, claims>>

\* The client of a send leaves during Agent initialisation: the generator is
\* cancelled outside the block whose finally releases the lock.
LeaveDuringInit(w) ==
    /\ pc[w] = "init" /\ run[w] = NoOne
    /\ Vanish(w)
    /\ UNCHANGED <<locks, round, claims>>

\* An SSE heartbeat while the turn is prepared, then the orchestrator's.
RenewLock(w) ==
    /\ pc[w] \in {"prepare"} \cup Driving /\ w \notin lost \cup token
    /\ lock[at[w]] = w /\ ~fresh[at[w]]
    /\ fresh' = [fresh EXCEPT ![at[w]] = TRUE]
    /\ UNCHANGED <<lock, slot, admission, pc, at, run, round, claims, signals, abort>>

\* Mutant: no second look at the cancel requests after the vision fallback.
CreateUnchecked(w) ==
    /\ pc[w] = "prepare" /\ run[w] = NoOne
    /\ round' = [round EXCEPT ![w] = "running"]
    /\ run' = [run EXCEPT ![w] = w]
    /\ pc' = [pc EXCEPT ![w] = "handover"]
    /\ UNCHANGED <<locks, admission, at, claims, signals, abort>>

\* prepare_chat_round: attachments are staged and images described, then the
\* Round is created and its driver started.  Only the vision fallback looks
\* for cancel requests again, and nothing looks at the lock.
CreateRound(w) ==
    /\ pc[w] = "prepare" /\ run[w] = NoOne
    /\ VisionFallback => w \notin cancelled
    /\ round' = [round EXCEPT ![w] = "running"]
    /\ run' = [run EXCEPT ![w] = w]
    /\ pc' = [pc EXCEPT ![w] = "handover"]
    /\ UNCHANGED <<locks, admission, at, claims, signals, abort>>

\* The request's generator sees the running turn and keeps its hands off the lock.
Handover(w) ==
    /\ pc[w] = "handover"
    /\ pc' = [pc EXCEPT ![w] = "drive"]
    /\ UNCHANGED <<locks, admission, at, run, round, claims, signals, abort>>

\* The client left before that: the generator's finally releases the lock
\* under the driver.
DisconnectHandover(w) ==
    /\ pc[w] = "handover"
    /\ pc' = [pc EXCEPT ![w] = "drive"]
    /\ Free(w, at[w])
    /\ UNCHANGED <<admission, at, run, round, claims, signals, abort>>

\* A resume claims the accepted answer of the waiting Round and drives it.
ClaimContinuation(w) ==
    /\ pc[w] = "prepare" /\ run[w] # NoOne
    /\ LET r == run[w]
       IN /\ round[r] = "waiting"
          /\ claim[r] = NoOne \/ ~live[r]
          /\ claim' = [claim EXCEPT ![r] = w]
          /\ live' = [live EXCEPT ![r] = TRUE]
    /\ pc' = [pc EXCEPT ![w] = "drive"]
    /\ UNCHANGED <<locks, admission, at, run, round, signals, abort>>

-----------------------------------------------------------------------------
(* The driver.                                                             *)

\* A resumed Round is written only under its live claim.
MayWrite(w) ==
    /\ pc[w] \in Driving /\ round[run[w]] = "running"
    /\ run[w] # w => claim[run[w]] \in {w, NoOne}

StartContinuation(w) ==
    /\ pc[w] = "drive"
    /\ LET r == run[w]
       IN /\ round[r] = "waiting" /\ claim[r] = w /\ live[r]
          /\ round' = [round EXCEPT ![r] = "running"]
    /\ UNCHANGED <<locks, admission, pc, at, run, claims, signals, abort>>

\* The answer has been consumed: the claim ends with the interaction.
Consume(w) ==
    /\ MayWrite(w) /\ claim[run[w]] = w /\ live[run[w]]
    /\ DropClaims({run[w]})
    /\ UNCHANGED <<locks, admission, pc, at, run, round, signals, abort>>

\* renew_continuation_claim: the token fences, the deadline does not.
RenewClaim(w) ==
    /\ pc[w] \in Driving /\ claim[run[w]] = w /\ ~live[run[w]]
    /\ live' = [live EXCEPT ![run[w]] = TRUE]
    /\ UNCHANGED <<locks, admission, pc, at, run, round, claim, signals, abort>>

\* The driver ends its part of the Round: "waiting" asks the user, "closed"
\* is a terminal event.
End(w, status) ==
    /\ MayWrite(w)
    /\ Settle(run[w], status)
    /\ Leave(w)

\* The cancel token is seen: a Round that is still open is cancelled.
StopCancelled(w) ==
    /\ pc[w] \in Driving /\ w \in token
    /\ Settle(run[w], "closed")
    /\ Leave(w)

\* The Round was closed by someone else, or the claim is not the driver's
\* any more: it stops without writing.
StopSuperseded(w) ==
    /\ pc[w] \in Driving
    /\ \/ round[run[w]] = "closed"
       \/ run[w] # w /\ claim[run[w]] \notin {w, NoOne}
       \/ run[w] # w /\ claim[run[w]] = NoOne /\ round[run[w]] = "waiting"
    /\ Leave(w)
    /\ UNCHANGED <<round, claims>>

\* Mutant: any row of the session will do.
HeartbeatOfSession(w) ==
    /\ pc[w] \in Driving /\ w \notin token \cup lost
    /\ lock[at[w]] = NoOne
    /\ lost' = lost \cup {w}
    /\ UNCHANGED <<locks, admission, pc, at, run, round, claims, cancelled, token, abort>>

\* The heartbeat finds no row with the driver's lock_id.
HeartbeatMissing(w) ==
    /\ pc[w] \in Driving /\ w \notin token \cup lost
    /\ lock[at[w]] # w
    /\ lost' = lost \cup {w}
    /\ UNCHANGED <<locks, admission, pc, at, run, round, claims, cancelled, token, abort>>

\* The heartbeat fails max_failures times in a row.
HeartbeatFails(w) ==
    /\ pc[w] \in Driving /\ w \notin token \cup lost
    /\ lost' = lost \cup {w}
    /\ UNCHANGED <<locks, admission, pc, at, run, round, claims, cancelled, token, abort>>

\* Ownership lost and no cancel: the driver stops silently and keeps what is
\* left of its lock for the coordinator.
StopLost(w) ==
    /\ pc[w] \in Driving /\ w \in lost \ token
    /\ Vanish(w)
    /\ UNCHANGED <<locks, round, claims>>

\* The process dies: the rows it wrote stay.
Crash(w) ==
    /\ pc[w] \in Admitted
    /\ Vanish(w)
    /\ UNCHANGED <<locks, round, claims>>

-----------------------------------------------------------------------------
(* The abort endpoint.                                                     *)

\* What get_main_running_round may return for s: any open Round of it.
MainRound(s) == {r \in Attempts : at[r] = s /\ Open(r)}

\* The Round and the lock are read, the cancel request is written, and the
\* token of a driver in this process is set.
AbortBegin(s) ==
    /\ MayAbort /\ abort = NoAbort
    /\ MainRound(s) # {} \/ (lock[s] # NoOne /\ fresh[s])
    /\ \E r \in IF MainRound(s) = {} THEN {NoOne} ELSE MainRound(s) :
          abort' = [step |-> "read", session |-> s, target |-> r, lock |-> lock[s]]
    /\ cancelled' = cancelled \cup {w \in Attempts : at[w] = s /\ pc[w] \in {"init", "prepare"}}
    /\ \E here \in SUBSET {w \in Attempts : at[w] = s /\ pc[w] \in Driving} :
          token' = token \cup here
    /\ UNCHANGED <<locks, admission, pc, at, run, round, claims, lost>>

\* cancel_user_run: the Round that was read is closed if it is still open.
AbortClose ==
    /\ abort.step = "read"
    /\ IF abort.target = NoOne THEN UNCHANGED <<round, claims>> ELSE Settle(abort.target, "closed")
    /\ abort' = [abort EXCEPT !.step = "closed"]
    /\ UNCHANGED <<locks, admission, pc, at, run, signals>>

\* The lock that was read is released, nobody else's.
AbortRelease ==
    /\ abort.step = "closed"
    /\ Free(abort.lock, abort.session)
    /\ abort' = NoAbort
    /\ UNCHANGED <<admission, pc, at, run, round, claims, signals>>

\* 503 at any point after the cancel request: what was done stays done.
AbortFails ==
    /\ abort # NoAbort
    /\ abort' = NoAbort
    /\ UNCHANGED <<locks, admission, pc, at, run, round, claims, signals>>

-----------------------------------------------------------------------------
(* A worker process starts: cleanup without the mutex.                     *)

\* Stale locks are deleted unless the session has active continuation work.
StartupLocks ==
    /\ \E s \in Sessions : Stale(s) /\ ~ActiveWork(s)
    /\ Erase({s \in Sessions : Stale(s) /\ ~ActiveWork(s)})
    /\ UNCHANGED <<admission, pc, at, run, round, claims, signals, abort>>

\* A running Round of an unlocked session without active work is closed, a
\* waiting one loses its expired claim; the lock is looked up again under the
\* Round's row lock.  How old the Round is is not tracked: any may be old.
StartupCloses(r) ==
    /\ Open(r)
    /\ at[r] \notin Held /\ ~ActiveWork(at[r])
    /\ IF round[r] = "running" THEN Settle(r, "closed") ELSE DropClaims({r}) /\ UNCHANGED round
    /\ UNCHANGED <<locks, admission, pc, at, run, signals, abort>>

-----------------------------------------------------------------------------
(* Time.                                                                   *)

LockAges(s) ==
    /\ lock[s] # NoOne /\ fresh[s]
    /\ fresh' = [fresh EXCEPT ![s] = FALSE]
    /\ UNCHANGED <<lock, slot, admission, pc, at, run, round, claims, signals, abort>>

LeaseLapses(r) ==
    /\ claim[r] # NoOne /\ live[r]
    /\ live' = [live EXCEPT ![r] = FALSE]
    /\ UNCHANGED <<locks, admission, pc, at, run, round, claim, signals, abort>>

-----------------------------------------------------------------------------
Acquire(w) ==
    \/ \E s \in Sessions : Begin(w, s)
    \/ \E s \in Sessions : Reclaim(w, s) \/ ReclaimFails(w, s)
    \/ Sweep(w) \/ Place(w) \/ Refuse(w) \/ AcquireFails(w)

Request(w) ==
    \/ TakeGuard(w) \/ InitDone(w) \/ GiveUp(w) \/ LeaveDuringInit(w)
    \/ RenewLock(w) \/ CreateRound(w) \/ ClaimContinuation(w)
    \/ Handover(w) \/ DisconnectHandover(w)

Drive(w) ==
    \/ StartContinuation(w) \/ Consume(w) \/ RenewClaim(w) \/ End(w, "waiting") \/ End(w, "closed")
    \/ StopCancelled(w) \/ StopSuperseded(w) \/ StopLost(w)
    \/ HeartbeatMissing(w) \/ HeartbeatFails(w) \/ Crash(w)

Environment ==
    \/ \E s \in Sessions : AbortBegin(s) \/ LockAges(s)
    \/ AbortClose \/ AbortRelease \/ AbortFails
    \/ StartupLocks
    \/ \E r \in Attempts : StartupCloses(r) \/ LeaseLapses(r)

Next == (\E w \in Attempts : Acquire(w) \/ Request(w) \/ Drive(w)) \/ Environment

Spec == Init /\ [][Next]_vars

-----------------------------------------------------------------------------
(* Safety.                                                                 *)

\* The rows of the user, those the coordinator holds in memory included, have
\* different slots below the limit: neither a new slot nor a restored one can
\* hit the unique constraint on (user, slot) or exceed the limit.
Row(s) == lock[s] # NoOne \/ taken[s] # NoOne
SlotsAreExclusive ==
    \A s \in Sessions : Row(s) =>
        /\ slot[s] < Limit
        /\ \A x \in Sessions \ {s} : Row(x) => slot[x] # slot[s]
        /\ lock[s] = NoOne \/ taken[s] = NoOne

\* Its driver holds a fresh lock, or an accepted answer has a live claim.
Owned(r) ==
    \/ \E w \in Attempts : pc[w] \in Driving /\ run[w] = r /\ lock[at[w]] = w
    \/ ActiveWork(at[r])

Recovery ==
    \/ \E w \in Attempts :
          Sweep(w) \/ \E s \in Sessions : Reclaim(w, s) \/ ReclaimFails(w, s)
    \/ StartupLocks \/ \E r \in Attempts : StartupCloses(r)

\* Recovery closes no Round and clears no claim that somebody still answers
\* for, whatever stale locks, half-done cleanups and starting processes there
\* are (chat-spec: healthy concurrent sessions of the user are not reclaimed,
\* active work protects its session).
RecoverySparesTheLiving ==
    [][Recovery => \A r \in Attempts :
          Owned(r) => round'[r] = round[r] /\ claim'[r] = claim[r]]_vars

\* A fresh lock row goes away only with the attempt that owns it or by the
\* abort that read exactly this row: a late release or a slow abort of an old
\* run never deletes the lock of the run that came after it.
FreshLockIsKept ==
    [][\A s \in Sessions : lock[s] # NoOne /\ fresh[s] /\ lock'[s] # lock[s] =>
          \/ pc'[lock[s]] # pc[lock[s]]
          \/ abort.step = "closed" /\ abort.lock = lock[s]]_vars

\* An abort that falls into the preparation of a turn prevents its Round
\* (chat-spec: the abort-epoch guard short-circuits the old request).
AbortedInitNeverRuns ==
    [][\A w \in cancelled : round[w] = "none" => round'[w] = "none"]_vars

\* A client that disconnects does not touch the lock of its running turn
\* (chat-spec: when SSE breaks, the producer goes on).
DisconnectKeepsLock ==
    [][\A w \in Attempts :
          /\ pc[w] \in Driving /\ pc'[w] \in Driving
          /\ lock[at[w]] = w /\ fresh[at[w]] /\ abort = NoAbort
          => lock'[at[w]] = w]_vars

-----------------------------------------------------------------------------
(* Liveness, while the user keeps asking for a slot.                       *)

\* The heartbeats run and the driver looks at its signals before each event;
\* a request under the mutex goes on, and in the end without a database error;
\* what nobody renews gets old; somebody asks again.
Fairness ==
    /\ \A w \in Attempts :
          WF_vars(HeartbeatMissing(w) \/ StopLost(w) \/ StopCancelled(w))
    /\ WF_vars(\E w \in Attempts : Place(w) \/ Refuse(w) \/ \E s \in Sessions : Begin(w, s))
    /\ SF_vars(\E w \in Attempts, s \in Sessions : Reclaim(w, s))
    /\ SF_vars(\E w \in Attempts : Sweep(w))
    /\ WF_vars(\/ \E s \in Sessions : lock[s] # NoOne /\ pc[lock[s]] = "gone" /\ LockAges(s)
               \/ \E r \in Attempts : claim[r] # NoOne /\ pc[claim[r]] = "gone" /\ LeaseLapses(r))

LiveSpec == Spec /\ Fairness

NobodyAsks == \A w \in Attempts : pc[w] # "new"
Driven(r) == \E w \in Attempts : pc[w] \in Driving /\ run[w] = r

\* A driver without its lock stops: two runs never drive on side by side.
ZombieStops ==
    \A w \in Attempts :
        pc[w] \in Driving /\ lock[at[w]] # w ~> pc[w] \notin Driving \/ lock[at[w]] = w

\* A Round whose driver is gone does not stay running, wherever the driver,
\* or the cleaner that deleted its lock, died.
OrphanIsClosed ==
    \A r \in Attempts :
        round[r] = "running" /\ ~Driven(r) ~> round[r] # "running" \/ Driven(r) \/ NobodyAsks

\* The slot of a request that left without releasing it comes back.
SlotComesBack ==
    \A s \in Sessions, w \in Attempts :
        lock[s] = w /\ pc[w] = "gone" ~> lock[s] # w \/ NobodyAsks
=============================================================================
