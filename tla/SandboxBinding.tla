--------------------------- MODULE SandboxBinding ---------------------------
(***************************************************************************)
(* The one sandbox of a user: the user_sandboxes row that binds it, the     *)
(* containers behind it, and the requests of several processes that look it *)
(* up, connect or resume it, replace a lost one and throw away the          *)
(* candidate that lost the race for the row.  In a process the user's       *)
(* lifecycle lock serialises them; between processes only the row does.     *)
(*                                                                         *)
(* Synchronous code between two awaits is one step.  A fingerprint names a  *)
(* profile and its version: of each one that is kept, only whether it is    *)
(* still the user's matters.  A profile the user had before is not given    *)
(* back to him, so a fingerprint that is not his stays so.                  *)
(***************************************************************************)
CONSTANTS Processes,     \* API workers; each also runs cron jobs
          Callers,       \* requests and tasks that need the sandbox
          NoCaller,
          Needs,         \* what the callers need the sandbox for
          Boxes,         \* ids of containers
          NoBox          \* no id

\* A run (Chat, Cron), the shared workspace ("file"), a caller that accepts
\* nothing but the bound container ("exact"), and a route that looks the
\* sandbox up and writes the row itself ("panel").
AllNeeds == {"run", "file", "exact", "panel"}

ASSUME SandboxAssumption == NoBox \notin Boxes /\ Needs \subseteq AllNeeds

VARIABLES
    binding,      \* user_sandboxes.sandbox_id
    fits,         \* the row's fingerprint is the one of the user's profile
    life,         \* what the control plane says of a container
    cached,       \* process -> SandboxSessionService._cache of the user
    cachedFits,   \* process -> the fingerprint kept with it is the user's
    keeper,       \* process -> who holds the user's lifecycle lock
    home,         \* caller -> its process
    need,         \* caller -> what it needs the sandbox for
    stage,        \* caller -> where it is
    want,         \* caller -> the id it asks for
    may,          \* caller -> create_if_missing
    config,       \* caller -> the runtime_config it resolved is the user's
    box,          \* caller -> the instance in its hands
    shown,        \* containers that have been bound
    switching     \* an administrator is giving the user another backend

row == <<binding, fits, shown>>
service == <<cached, cachedFits>>
call == <<need, stage, want, may, config, box>>
sandboxVars == <<row, life, service, keeper, home, call, switching>>

MaybeBox == Boxes \cup {NoBox}

\* Steps under the lifecycle lock.
Locked == {"checking", "querying", "connecting", "resuming", "creating",
           "replacing", "losing", "renewing"}

SandboxTypeOK ==
    /\ binding \in MaybeBox /\ fits \in BOOLEAN /\ shown \subseteq Boxes
    /\ life \in [Boxes -> {"none", "running", "paused", "gone"}]
    /\ cached \in [Processes -> MaybeBox] /\ cachedFits \in [Processes -> BOOLEAN]
    /\ keeper \in [Processes -> Callers \cup {NoCaller}]
    /\ home \in [Callers -> Processes] /\ need \in [Callers -> AllNeeds]
    /\ stage \in [Callers -> {"idle", "waiting", "peeking", "using"} \cup Locked]
    /\ want \in [Callers -> MaybeBox] /\ may \in [Callers -> BOOLEAN]
    /\ config \in [Callers -> BOOLEAN]
    /\ box \in [Callers -> MaybeBox] /\ switching \in BOOLEAN

\* Nothing is bound, nobody is at work.
Unbound ==
    /\ binding = NoBox /\ fits = FALSE /\ shown = {}
    /\ life = [b \in Boxes |-> "none"]
    /\ cached = [p \in Processes |-> NoBox] /\ cachedFits = [p \in Processes |-> FALSE]
    /\ keeper = [p \in Processes |-> NoCaller]
    /\ need = [c \in Callers |-> "run"]
    /\ stage = [c \in Callers |-> "idle"] /\ want = [c \in Callers |-> NoBox]
    /\ may = [c \in Callers |-> TRUE]
    /\ config = [c \in Callers |-> FALSE] /\ box = [c \in Callers |-> NoBox]
    /\ switching = FALSE

SandboxInit == Unbound /\ home \in [Callers -> Processes]

-----------------------------------------------------------------------------
(* What a caller does next.                                                 *)

\* _cache_matches_runtime
Hit(p, id) == cached[p] # NoBox /\ (id # NoBox => cached[p] = id) /\ cachedFits[p]

Plan(to, id, ok) == [to |-> to, id |-> id, ok |-> ok]
Stop == Plan("idle", NoBox, FALSE)

\* An id that is bound, or none: the state of a bound container decides.
PlanFor(p, id, ok) ==
    CASE Hit(p, id) -> Plan("checking", id, ok)
      [] ~Hit(p, id) /\ id = NoBox -> IF ok THEN Plan("creating", id, ok) ELSE Stop
      [] ~Hit(p, id) /\ id # NoBox /\ fits -> Plan("querying", id, ok)
      [] OTHER -> IF ok THEN Plan("replacing", id, ok) ELSE Stop

\* _get_or_resume_unlocked up to its first await: an id that is not bound any
\* more gives way to the one that is, which is not created anew.
Chosen(p, id, ok) ==
    IF id \in {NoBox, binding} \/ Hit(p, id) THEN PlanFor(p, id, ok)
    ELSE IF ok /\ binding # NoBox THEN PlanFor(p, binding, FALSE)
    ELSE Stop

Unlock(c) == keeper' = [keeper EXCEPT ![home[c]] = NoCaller]
Forget(p) == cached' = [cached EXCEPT ![p] = NoBox] /\ cachedFits' = [cachedFits EXCEPT ![p] = FALSE]
Remember(p, b, v) == cached' = [cached EXCEPT ![p] = b] /\ cachedFits' = [cachedFits EXCEPT ![p] = v]

\* The caller is at a step where only the instance in its hands matters.
Settled(c, step, b) ==
    /\ stage' = [stage EXCEPT ![c] = step] /\ box' = [box EXCEPT ![c] = b]
    /\ want' = [want EXCEPT ![c] = NoBox] /\ may' = [may EXCEPT ![c] = TRUE]
    /\ config' = [config EXCEPT ![c] = FALSE]
    /\ need' = [need EXCEPT ![c] = IF step = "idle" THEN "run" ELSE @]

\* The caller has its answer, gets an error or goes away; the lock goes with it.
GoesAway(c) ==
    /\ Settled(c, "idle", NoBox)
    /\ keeper' = [p \in Processes |-> IF keeper[p] = c THEN NoCaller ELSE keeper[p]]

\* A cache that does not fit is dropped before the control plane is asked.
Follow(c, plan) ==
    IF plan.to = "idle" THEN GoesAway(c) /\ UNCHANGED service
    ELSE /\ stage' = [stage EXCEPT ![c] = plan.to]
         /\ want' = [want EXCEPT ![c] = plan.id]
         /\ may' = [may EXCEPT ![c] = plan.ok]
         /\ config' = [config EXCEPT ![c] = TRUE]
         /\ UNCHANGED need
         /\ box' = [box EXCEPT ![c] = IF plan.to = "checking" THEN cached[home[c]] ELSE NoBox]
         /\ IF plan.to \in {"querying", "creating"} THEN Forget(home[c]) ELSE UNCHANGED service

\* The cached instance is of no use: on to the control plane.
Onwards(c) ==
    IF want[c] # NoBox THEN Plan("querying", want[c], may[c])
    ELSE IF may[c] THEN Plan("creating", NoBox, TRUE)
    ELSE Stop

Bind(b, v) == binding' = b /\ fits' = v /\ shown' = shown \cup {b}

\* The instance is handed to a caller; a new run renews its lease first and
\* keeps it, another request is served and over.
Hand(c, b) ==
    IF need[c] = "run" THEN Settled(c, "renewing", b) /\ UNCHANGED keeper
    ELSE GoesAway(c)

\* It is handed out as it is; a panel's route then writes it into the row, whatever
\* that binds by now (_upsert_user_sandbox), if the row can be written.
Serve(c, b, v) ==
    /\ Hand(c, b)
    /\ UNCHANGED row \/ (need[c] = "panel" /\ Bind(b, v))

\* A candidate, or an instance nobody bound, is destroyed; then the id that won
\* is looked up, if there is one.
Discard(c, b, winner) ==
    /\ stage' = [stage EXCEPT ![c] = "losing"]
    /\ box' = [box EXCEPT ![c] = b]
    /\ want' = [want EXCEPT ![c] = winner]
    /\ may' = [may EXCEPT ![c] = FALSE]
    /\ UNCHANGED <<need, config, keeper>>

-----------------------------------------------------------------------------
(* A caller asks.                                                           *)

\* No run lock of the user is fresh.
NobodyRuns == \A c \in Callers : stage[c] # "idle" => need[c] # "run"

\* What a caller has read of the row before it waits for the lock; a run reads
\* it under the lock (acquire_user_sandbox).
Ask(c, why) ==
    /\ stage[c] = "idle"
    /\ need' = [need EXCEPT ![c] = why]
    /\ stage' = [stage EXCEPT ![c] = "waiting"]
    /\ want' = [want EXCEPT ![c] = IF why = "run" THEN NoBox ELSE binding]
    /\ may' = [may EXCEPT ![c] = why # "exact"]
    /\ why = "exact" => binding # NoBox
    /\ why \in {"file", "panel"} => NobodyRuns
    /\ UNCHANGED <<row, life, service, keeper, home, config, box, switching>>

\* Files are served from a cached instance that fits, without the lock.
Peek(c) ==
    /\ stage[c] = "waiting" /\ need[c] \in {"file", "panel"}
    /\ want[c] # NoBox /\ Hit(home[c], want[c])
    /\ stage' = [stage EXCEPT ![c] = "peeking"]
    /\ box' = [box EXCEPT ![c] = cached[home[c]]]
    /\ UNCHANGED <<row, life, service, keeper, home, need, want, may, config, switching>>

\* An instance that does not fit is dropped; a panel that tries again drops any.
Distrust(c) ==
    /\ stage[c] = "waiting" /\ need[c] \in {"file", "panel"} /\ cached[home[c]] # NoBox
    /\ need[c] = "panel" \/ ~(want[c] # NoBox /\ Hit(home[c], want[c]))
    /\ Forget(home[c])
    /\ UNCHANGED <<row, life, keeper, home, call, switching>>

\* is_cached_healthy: a slow check says nothing of an instance that replaced it.
Peeked(c) ==
    /\ stage[c] = "peeking"
    /\ LET p == home[c] IN
       \E healthy \in BOOLEAN :
          /\ healthy => life[box[c]] = "running"
          /\ IF healthy /\ cached[p] = box[c]
             THEN GoesAway(c) /\ UNCHANGED service
             ELSE /\ stage' = [stage EXCEPT ![c] = "waiting"]
                  /\ box' = [box EXCEPT ![c] = NoBox]
                  /\ IF cached[p] = box[c] THEN Forget(p) ELSE UNCHANGED service
                  /\ UNCHANGED <<keeper, need, want, may, config>>
    /\ UNCHANGED <<row, life, home, switching>>

\* The lock is taken and the call runs up to its first await.
Enter(c) ==
    LET p == home[c]
        id == IF need[c] = "run" THEN binding ELSE want[c]
        plan == Chosen(p, id, may[c])
    IN /\ stage[c] = "waiting" /\ keeper[p] = NoCaller
       /\ IF plan.to = "idle"
          THEN GoesAway(c) /\ UNCHANGED service
          ELSE /\ Follow(c, plan)
               /\ keeper' = [keeper EXCEPT ![p] = c]
       /\ UNCHANGED <<row, life, home, switching>>

\* Mutant: the row is written whatever it binds.
BindAnyway(c, b, v) == Bind(b, v) /\ Hand(c, b) /\ Remember(home[c], b, v)

\* _upsert_user_sandbox_id of a caller that came without an id: the row is
\* written if it binds nothing else, or the instance is given up.
BindOrYield(c, b, v) ==
    IF need[c] = "panel" THEN Serve(c, b, v) /\ Remember(home[c], b, v)
    ELSE IF binding \in {NoBox, b}
    THEN Bind(b, v) /\ Hand(c, b) /\ Remember(home[c], b, v)
    ELSE Discard(c, b, binding) /\ Forget(home[c]) /\ UNCHANGED row

\* The health check of the cached instance comes back.
Checked(c) ==
    /\ stage[c] = "checking"
    /\ LET p == home[c] IN
       \E healthy \in BOOLEAN :
          /\ healthy => life[box[c]] = "running"
          /\ IF healthy /\ cached[p] = box[c]
             THEN IF want[c] = NoBox THEN BindOrYield(c, box[c], cachedFits[p])
                  ELSE Serve(c, box[c], cachedFits[p]) /\ UNCHANGED service
             ELSE /\ IF Onwards(c).to = "idle" THEN GoesAway(c)
                     ELSE /\ stage' = [stage EXCEPT ![c] = Onwards(c).to]
                          /\ box' = [box EXCEPT ![c] = NoBox]
                          /\ UNCHANGED <<need, want, may, config, keeper>>
                  /\ IF cached[p] = box[c] THEN Forget(p) ELSE UNCHANGED service
                  /\ UNCHANGED row
    /\ UNCHANGED <<life, home, switching>>

\* The control plane says what became of the id: one operation fits it, and
\* only a container that is gone for certain is replaced.
Queried(c) ==
    LET state == life[want[c]]
        to == CASE state = "running" -> "connecting"
                [] state = "paused" -> "resuming"
                [] OTHER -> IF may[c] THEN "replacing" ELSE "idle"
    IN /\ stage[c] = "querying"
       /\ IF to = "idle" THEN GoesAway(c)
          ELSE stage' = [stage EXCEPT ![c] = to] /\ UNCHANGED <<need, want, may, config, box, keeper>>
       /\ UNCHANGED <<row, life, service, home, switching>>

\* Sandbox.connect or Sandbox.resume succeeds.
Connected(c) ==
    /\ \/ stage[c] = "connecting" /\ life[want[c]] = "running" /\ UNCHANGED life
       \/ /\ stage[c] = "resuming" /\ life[want[c]] = "paused"
          /\ life' = [life EXCEPT ![want[c]] = "running"]
    /\ Remember(home[c], want[c], config[c])
    /\ Serve(c, want[c], config[c])
    /\ UNCHANGED <<home, switching>>

\* Without an id a container is made; it is bound in the same breath.
Created(c) ==
    /\ stage[c] = "creating"
    /\ \E b \in Boxes :
          /\ life[b] = "none"
          /\ life' = [life EXCEPT ![b] = "running"]
          /\ BindOrYield(c, b, config[c])
    /\ UNCHANGED <<home, switching>>

\* Mutant: a candidate is kept in the cache before it is bound.
SwapCached(c, b) ==
    /\ Remember(home[c], b, config[c])
    /\ IF binding = want[c]
       THEN Bind(b, config[c]) /\ Hand(c, b)
       ELSE Discard(c, b, binding) /\ UNCHANGED row

\* _compare_and_swap_sandbox_binding: the caller whose row it still is wins.
Swap(c, b) ==
    IF binding = want[c]
    THEN Bind(b, config[c]) /\ Hand(c, b) /\ Remember(home[c], b, config[c])
    ELSE Discard(c, b, binding) /\ UNCHANGED <<row, service>>

\* A candidate for a container that is lost or of another backend is ready.
Replaced(c) ==
    /\ stage[c] = "replacing"
    /\ \E b \in Boxes :
          /\ life[b] = "none"
          /\ life' = [life EXCEPT ![b] = "running"]
          /\ Swap(c, b)
    /\ UNCHANGED <<home, switching>>

\* The row cannot be written: the candidate is destroyed, the caller fails.
BindFails(c) ==
    /\ stage[c] = "replacing" \/ (stage[c] = "creating" /\ need[c] # "panel")
    /\ \E b \in Boxes :
          /\ life[b] = "none"
          /\ life' = [life EXCEPT ![b] = "running"]
          /\ Discard(c, b, NoBox)
    /\ IF stage[c] = "creating" THEN Forget(home[c]) ELSE UNCHANGED service
    /\ UNCHANGED <<row, home, switching>>

\* The instance in hand is destroyed, or cannot be; the winner is looked up
\* and is not created.
Discarded(c) ==
    /\ stage[c] = "losing"
    /\ life' \in {life, [life EXCEPT ![box[c]] = "gone"]}
    /\ Follow(c, IF want[c] = NoBox THEN Stop ELSE Chosen(home[c], want[c], FALSE))
    /\ IF stage'[c] = "idle" THEN TRUE ELSE UNCHANGED keeper
    /\ UNCHANGED <<row, home, switching>>

\* _require_instance_renewal
Renewed(c) ==
    /\ stage[c] = "renewing"
    /\ IF life[box[c]] = "running"
       THEN Settled(c, "using", box[c]) /\ Unlock(c)
       ELSE GoesAway(c)
    /\ UNCHANGED <<row, life, service, home, switching>>

\* A call to the sandbox or to the database fails, the caller is cancelled, or
\* the run or the request that used the sandbox ends.
Leaves(c) ==
    /\ stage[c] # "idle"
    /\ GoesAway(c)
    /\ UNCHANGED <<row, life, service, home, switching>>

\* A process ends and starts again.
Restart(p) ==
    /\ \A c \in Callers : home[c] = p => stage[c] \in {"idle", "using"}
    /\ cached[p] # NoBox
    /\ Forget(p)
    /\ UNCHANGED <<row, life, keeper, home, call, switching>>

-----------------------------------------------------------------------------
(* Around the callers.                                                      *)

\* AgentPoolService's cleanup pauses the sandbox of a user without a run: the
\* cache forgets it first, the lifecycle lock is not taken.
Pause(p) ==
    /\ cached[p] # NoBox /\ NobodyRuns
    /\ Forget(p)
    /\ UNCHANGED <<row, life, keeper, home, call, switching>>

\* A pause that was asked for arrives, however late.
PauseLands(b) ==
    /\ life[b] = "running"
    /\ life' = [life EXCEPT ![b] = "paused"]
    /\ UNCHANGED <<row, service, keeper, home, call, switching>>

\* The container reaches the end of its lease, or is lost.
Expires(b) ==
    /\ life[b] \in {"running", "paused"}
    /\ life' = [life EXCEPT ![b] = "gone"]
    /\ UNCHANGED <<row, service, keeper, home, call, switching>>

\* What was resolved before is not the user's profile any more.
NewProfile ==
    /\ cachedFits' = [p \in Processes |-> FALSE]
    /\ config' = [c \in Callers |-> FALSE]

\* A runtime field of the user's profile is changed.
ProfileChanges ==
    /\ fits' = FALSE /\ NewProfile
    /\ UNCHANGED <<binding, shown, life, cached, keeper, home, need, stage, want, may, box, switching>>

\* An administrator gives the user another backend, or a new sandbox: kill
\* takes the cached instance, or connects to the bound one under its own
\* fingerprint, and may fail.  Runs are not in the way if it is forced.
SwitchBegins(p) ==
    /\ ~switching /\ (binding # NoBox \/ cached[p] # NoBox)
    /\ switching' = TRUE
    /\ LET target == IF cached[p] # NoBox THEN cached[p] ELSE binding IN
       life' \in {life, [life EXCEPT ![target] = "gone"]}
    /\ Forget(p)
    /\ UNCHANGED <<row, keeper, home, call>>

\* The row is cleared whatever came of it, and whatever it binds by now.
SwitchEnds ==
    /\ switching /\ switching' = FALSE
    /\ binding' = NoBox /\ fits' = FALSE
    /\ NewProfile \/ UNCHANGED <<cachedFits, config>>
    /\ UNCHANGED <<shown, life, cached, keeper, home, need, stage, want, may, box>>

-----------------------------------------------------------------------------
Ensures(c) ==
    \/ \E why \in Needs : Ask(c, why)
    \/ Peek(c) \/ Distrust(c) \/ Peeked(c) \/ Enter(c) \/ Checked(c) \/ Queried(c)
    \/ Connected(c) \/ Created(c) \/ Replaced(c) \/ BindFails(c) \/ Discarded(c)
    \/ Renewed(c) \/ Leaves(c)

SandboxNext ==
    \/ \E c \in Callers : Ensures(c)
    \/ \E p \in Processes : Restart(p) \/ Pause(p) \/ SwitchBegins(p)
    \/ \E b \in Boxes : PauseLands(b) \/ Expires(b)
    \/ ProfileChanges \/ SwitchEnds

SandboxSpec == SandboxInit /\ [][SandboxNext]_sandboxVars

-----------------------------------------------------------------------------
(* Safety.                                                                  *)

\* A bound sandbox gives way to another one only when it is lost for certain or
\* belongs to another backend: two processes that find it dead, a slow answer
\* about an older one, or a first creation next to another never turn the
\* binding away from a sandbox that works (sandbox-spec: compare-and-swap).
ReplacedForCause ==
    [][binding # NoBox /\ binding' \notin {NoBox, binding} =>
          life[binding] = "gone" \/ ~fits]_sandboxVars

\* A candidate is nobody's but its maker's until it is bound: no cache and no
\* caller ever has a container that was never the user's sandbox
\* (sandbox-spec: unbound candidates are not exposed).
CandidatesStayHidden ==
    /\ \A p \in Processes : cached[p] \in shown \cup {NoBox}
    /\ \A c \in Callers : {want[c], IF stage[c] = "losing" THEN NoBox ELSE box[c]}
                              \subseteq shown \cup {NoBox}

-----------------------------------------------------------------------------
(* What is left of the safety properties when panels are among the callers.  *)

\* A route of the file panels is handed an instance, which it writes into the row.
PanelIsServed(c) ==
    /\ need[c] = "panel" /\ stage[c] \in {"checking", "connecting", "resuming", "creating"}
    /\ stage'[c] = "idle"

\* Whoever the callers are, a binding that is neither lost nor of another backend
\* is turned away by one write only, that of a panel which has just been handed
\* a running container (_upsert_user_sandbox is not conditional on the old id).
TurnedAwayByPanelsOnly ==
    [][binding # NoBox /\ binding' \notin {NoBox, binding} =>
          \/ life[binding] = "gone" \/ ~fits
          \/ life'[binding'] = "running" /\ \E c \in Callers : PanelIsServed(c)]_sandboxVars

\* Containers a cache has, or a caller that is not just throwing one away.
Exposed ==
    ({cached[p] : p \in Processes} \cup {want[c] : c \in Callers}
        \cup {box[c] : c \in {d \in Callers : stage[d] # "losing"}}) \ {NoBox}

\* A container that was never bound becomes exposed in one way only: a panel has
\* made it and could not write the row.  No replacement, lost race or failed
\* write of any other caller lets a candidate out.
ExposedByPanelsOnly ==
    [][\A b \in (Exposed' \ shown') \ Exposed :
          life[b] = "none" /\ \E c \in Callers : PanelIsServed(c) /\ stage[c] = "creating"]_sandboxVars

-----------------------------------------------------------------------------
(* The inductive invariant behind the safety properties.                    *)

\* What is bound has been bound.
BoundIsShown == binding \in shown \cup {NoBox}

\* The row, a cache or a caller names what was made.
Made == {b \in Boxes : life[b] # "none"}
NamedIsMade ==
    /\ shown \subseteq Made
    /\ \A p \in Processes : cached[p] \in Made \cup {NoBox}
    /\ \A c \in Callers : {want[c], box[c]} \subseteq Made \cup {NoBox}

\* A check has an instance in hand, a question about a container its id.
HandsAreFull ==
    \A c \in Callers :
        /\ stage[c] \in {"checking", "peeking"} => box[c] # NoBox
        /\ stage[c] \in {"querying", "connecting", "resuming", "replacing"} => want[c] # NoBox

\* Whoever is about to reach a container by its id.
Reaching == {"checking", "querying", "connecting", "resuming"}
Asks(c, b) == want[c] = b /\ stage[c] \in Reaching

\* Somebody holds the container to be of the user's profile, or not to be.
HeldFit(b) ==
    \/ binding = b /\ fits
    \/ \E p \in Processes : cached[p] = b /\ cachedFits[p]
    \/ \E c \in Callers : Asks(c, b) /\ config[c]
HeldUnfit(b) ==
    \/ binding = b /\ ~fits
    \/ \E p \in Processes : cached[p] = b /\ ~cachedFits[p]
    \/ \E c \in Callers : Asks(c, b) /\ ~config[c]

\* The row, the caches and the callers agree about a container.
Agreement == \A b \in Boxes : ~(HeldFit(b) /\ HeldUnfit(b))

\* Whoever replaces a container has a cause that does not go away.
CauseLasts ==
    \A c \in Callers :
        stage[c] = "replacing" =>
            life[want[c]] = "gone" \/ ~HeldFit(want[c])

SandboxInv ==
    /\ SandboxTypeOK /\ HandsAreFull
    /\ BoundIsShown /\ NamedIsMade
    /\ Agreement /\ CauseLasts
=============================================================================
