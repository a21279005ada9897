--------------------------- MODULE DraftAttachments ---------------------------
(***************************************************************************)
(* One file that a user attaches to a draft: its row, uploads that may take *)
(* it over from each other, claims that copy it into a session, messages    *)
(* that send it, its removal, and the cleanup jobs that delete its bytes.   *)
(*                                                                         *)
(* A request stays alive until it has handled the outcome of its calls to   *)
(* the sandbox, and a call that has failed has no effect later on.          *)
(***************************************************************************)
EXTENDS Naturals

CONSTANTS Uploaders,       \* requests that upload the attachment
          Claimers,        \* requests that claim it for the session
          Cleaners,        \* tasks that run cleanup jobs
          NoCleaner,       \* no task
          MaxGenerations,  \* a bound on the generations, but for a first removal
          MaxLapses        \* a bound on leases that lapse under a living task, and on deaths

ASSUME DraftAssumption ==
    NoCleaner \notin Cleaners /\ MaxGenerations \in Nat /\ MaxLapses \in Nat

VARIABLES
    att,       \* ComposerDraftAttachment.state, "none" without a row
    attGen,    \* its generation
    removed,   \* deleted_at is set
    bound,     \* its sandbox is known
    named,     \* claimed_path is set
    parts,     \* generations whose .part file is in the draft's directory
    file,      \* the file itself is there
    copy,      \* the copy in the session's directory
    mentioned, \* a Round of the session names it
    session,   \* the session exists
    upStep, upGen,   \* uploads: how far, and for which generation
    cpStep, cpGen,   \* claims
    chore,     \* SandboxCleanupJob.state of each path
    worker,    \* its owner_token
    leaseOn,   \* its lease has not lapsed
    cleaner,   \* what each cleaning task is at
    lapses

attRow == <<att, attGen, removed, bound, named>>
bytes == <<parts, file, copy>>
chat == <<mentioned, session>>
uploads == <<upStep, upGen>>
copying == <<cpStep, cpGen>>
chores == <<chore, worker, leaseOn>>
draftVars == <<attRow, bytes, chat, uploads, copying, chores, cleaner, lapses>>

CleanupPaths == {"draft", "copy", "session"}
Generations == 0 .. MaxGenerations

DraftTypeOK ==
    /\ att \in {"none", "uploading", "ready", "failed", "claiming", "claimed", "attached", "deleted"}
    /\ attGen \in Nat
    /\ removed \in BOOLEAN /\ bound \in BOOLEAN /\ named \in BOOLEAN
    /\ file \in BOOLEAN /\ mentioned \in BOOLEAN /\ session \in BOOLEAN
    /\ parts \subseteq Generations
    /\ copy \in {"none", "torn", "whole"}
    /\ upStep \in [Uploaders -> {"idle", "reserved", "bound", "written", "installed"}]
    /\ cpStep \in [Claimers -> {"idle", "copying", "copied"}]
    /\ upGen \in [Uploaders -> Generations] /\ cpGen \in [Claimers -> Generations]
    /\ chore \in [CleanupPaths -> {"none", "queued", "running", "retry", "completed", "blocked"}]
    /\ worker \in [CleanupPaths -> Cleaners \cup {NoCleaner}] /\ leaseOn \in [CleanupPaths -> BOOLEAN]
    /\ cleaner \in [Cleaners -> [at : {"idle", "claimed", "removed", "failed"}, path : CleanupPaths]]
    /\ lapses \in 0 .. MaxLapses

AtRest == [at |-> "idle", path |-> "draft"]

DraftInit ==
    /\ att = "none" /\ attGen = 0
    /\ removed = FALSE /\ bound = FALSE /\ named = FALSE
    /\ parts = {} /\ file = FALSE /\ copy = "none"
    /\ mentioned = FALSE /\ session = TRUE
    /\ upStep = [u \in Uploaders |-> "idle"] /\ upGen = [u \in Uploaders |-> 0]
    /\ cpStep = [k \in Claimers |-> "idle"] /\ cpGen = [k \in Claimers |-> 0]
    /\ chore = [p \in CleanupPaths |-> "none"] /\ worker = [p \in CleanupPaths |-> NoCleaner]
    /\ leaseOn = [p \in CleanupPaths |-> FALSE]
    /\ cleaner = [c \in Cleaners |-> AtRest]
    /\ lapses = 0

-----------------------------------------------------------------------------
\* Mutant: a job that exists is left as it is.
ArmedOnce(p) == chore[p] = "none"

\* A job is made, or armed again: a late writer may have made the path anew.
Armed(p) ==
    \/ chore[p] = "none"
    \/ p # "session" /\ chore[p] \in {"completed", "running"}

\* Of a row whose sandbox is not known nothing was written.
Enqueued(ps) ==
    LET todo == {p \in ps : (p = "session" \/ bound) /\ Armed(p)} IN
    /\ chore' = [p \in CleanupPaths |-> IF p \in todo THEN "queued" ELSE chore[p]]
    /\ worker' = [p \in CleanupPaths |-> IF p \in todo THEN NoCleaner ELSE worker[p]]
    /\ leaseOn' = [p \in CleanupPaths |-> p \notin todo /\ leaseOn[p]]

Begins(state) ==
    /\ attGen < MaxGenerations
    /\ att' = state /\ attGen' = attGen + 1

-----------------------------------------------------------------------------
(* Upload.                                                                 *)

UpGoes(u, step) == upStep' = [upStep EXCEPT ![u] = step]
OwnsUpload(u) == att = "uploading" /\ attGen = upGen[u]

\* A new row, one more try, or the takeover of an upload whose heartbeat has
\* stopped, which its writer need not know.
BeginUpload(u) ==
    /\ upStep[u] = "idle" /\ att \in {"none", "failed", "uploading"}
    /\ Begins("uploading")
    /\ upGen' = [upGen EXCEPT ![u] = attGen + 1]
    /\ UpGoes(u, "reserved")
    /\ UNCHANGED <<removed, bound, named, bytes, chat, copying, chores, cleaner, lapses>>

BindUpload(u) ==
    /\ upStep[u] = "reserved" /\ OwnsUpload(u)
    /\ bound' = TRUE
    /\ UpGoes(u, "bound")
    /\ UNCHANGED <<att, attGen, removed, named, bytes, chat, upGen, copying, chores, cleaner, lapses>>

WritePart(u) ==
    /\ upStep[u] = "bound"
    /\ parts' = parts \cup {upGen[u]}
    /\ UpGoes(u, "written")
    /\ UNCHANGED <<attRow, file, copy, chat, upGen, copying, chores, cleaner, lapses>>

\* Checked by size and digest, and renamed.
InstallPart(u) ==
    /\ upStep[u] = "written" /\ upGen[u] \in parts
    /\ parts' = parts \ {upGen[u]} /\ file' = TRUE
    /\ UpGoes(u, "installed")
    /\ UNCHANGED <<attRow, copy, chat, upGen, copying, chores, cleaner, lapses>>

\* Mutant: whoever comes late clears the directory.
EndUploadClearing(u, state) ==
    /\ UpGoes(u, "idle")
    /\ att' = IF OwnsUpload(u) THEN state ELSE att
    /\ IF ~OwnsUpload(u) THEN Enqueued({"draft"}) ELSE UNCHANGED chores
    /\ UNCHANGED <<attGen, removed, bound, named, bytes, chat, upGen, copying, cleaner, lapses>>

\* The row gets the outcome if it is still this upload's; if it was removed in
\* the meantime, what was written is cleaned up again.
EndUpload(u, state) ==
    /\ UpGoes(u, "idle")
    /\ att' = IF OwnsUpload(u) THEN state ELSE att
    /\ IF ~OwnsUpload(u) /\ removed THEN Enqueued({"draft"}) ELSE UNCHANGED chores
    /\ UNCHANGED <<attGen, removed, bound, named, bytes, chat, upGen, copying, cleaner, lapses>>

FinishUpload(u) == upStep[u] = "installed" /\ EndUpload(u, "ready")
\* No sandbox, a call that fails, a cancelled request, or a row that is lost.
FailUpload(u) == upStep[u] \in {"reserved", "bound", "written", "installed"} /\ EndUpload(u, "failed")

-----------------------------------------------------------------------------
(* Claim.  The session was found when the batch of claims began.           *)

CpGoes(k, step) == cpStep' = [cpStep EXCEPT ![k] = step]
OwnsClaim(k) == att = "claiming" /\ attGen = cpGen[k]

BeginClaim(k) ==
    /\ cpStep[k] = "idle" /\ att = "ready"
    /\ Begins("claiming")
    /\ named' = TRUE
    /\ cpGen' = [cpGen EXCEPT ![k] = attGen + 1]
    /\ CpGoes(k, "copying")
    /\ UNCHANGED <<removed, bound, bytes, chat, uploads, chores, cleaner, lapses>>

CopyDraft(k) ==
    /\ cpStep[k] = "copying" /\ file
    /\ copy' = "whole"
    /\ CpGoes(k, "copied")
    /\ UNCHANGED <<attRow, parts, file, chat, uploads, cpGen, chores, cleaner, lapses>>

FinishClaim(k) ==
    /\ cpStep[k] = "copied"
    /\ CpGoes(k, "idle")
    /\ att' = IF OwnsClaim(k) THEN "claimed" ELSE att
    /\ IF OwnsClaim(k) THEN UNCHANGED chores ELSE Enqueued({"copy"})
    /\ UNCHANGED <<attGen, removed, bound, named, bytes, chat, uploads, cpGen, cleaner, lapses>>

\* A copy that fails may leave part of it; one that is cancelled, all of it.
FailClaim(k) ==
    /\ cpStep[k] \in {"copying", "copied"}
    /\ copy' \in IF cpStep[k] = "copying" /\ file THEN {copy, "torn"} ELSE {copy}
    /\ CpGoes(k, "idle")
    /\ att' = IF OwnsClaim(k) THEN "ready" ELSE att
    /\ IF att = "deleted" THEN Enqueued({"copy"}) ELSE UNCHANGED chores
    /\ UNCHANGED <<attGen, removed, bound, named, parts, file, chat, uploads, cpGen, cleaner, lapses>>

-----------------------------------------------------------------------------
(* Messages and removal.                                                   *)

\* A Round is written together with the attachment's new state.
SendRound ==
    /\ session /\ att \in {"claimed", "attached"}
    /\ att' = "attached" /\ mentioned' = TRUE
    /\ UNCHANGED <<attGen, removed, bound, named, bytes, session, uploads, copying, chores, cleaner, lapses>>

DeleteSession ==
    /\ session
    /\ session' = FALSE /\ mentioned' = FALSE
    /\ Enqueued({"session"})
    /\ UNCHANGED <<attRow, bytes, uploads, copying, cleaner, lapses>>

\* The draft's directory goes; the copy too, unless a Round has it.
RemoveAttachment ==
    /\ att' = IF mentioned THEN "attached" ELSE "deleted"
    /\ attGen' = attGen + 1 /\ removed' = TRUE
    /\ Enqueued({"draft"} \cup IF named /\ ~mentioned THEN {"copy"} ELSE {})
    /\ UNCHANGED <<bound, named, bytes, chat, uploads, copying, cleaner, lapses>>

\* By the user: of an attachment not yet uploaded a tombstone is kept.
DeleteDraft ==
    \/ /\ att \notin {"none", "deleted"}
       /\ removed => attGen < MaxGenerations
       /\ RemoveAttachment
    \/ /\ att = "none"
       /\ att' = "deleted" /\ attGen' = 1 /\ removed' = TRUE
       /\ UNCHANGED <<bound, named, bytes, chat, uploads, copying, chores, cleaner, lapses>>

\* After 24 hours, by a cleaning loop.
ExpireDraft == att \notin {"none", "deleted"} /\ ~removed /\ RemoveAttachment

-----------------------------------------------------------------------------
(* Cleanup jobs.                                                           *)

ClaimChore(c, p) ==
    /\ cleaner[c].at = "idle"
    /\ \/ chore[p] \in {"queued", "retry"}
       \/ chore[p] = "running" /\ ~leaseOn[p]
    /\ chore' = [chore EXCEPT ![p] = "running"]
    /\ worker' = [worker EXCEPT ![p] = c]
    /\ leaseOn' = [leaseOn EXCEPT ![p] = TRUE]
    /\ cleaner' = [cleaner EXCEPT ![c] = [at |-> "claimed", path |-> p]]
    /\ UNCHANGED <<attRow, bytes, chat, uploads, copying, lapses>>

ChoreGoes(c, step) == cleaner' = [cleaner EXCEPT ![c].at = step]

RemovePath(c) ==
    LET p == cleaner[c].path IN
    /\ cleaner[c].at = "claimed"
    /\ IF p = "draft" THEN parts' = {} /\ file' = FALSE ELSE UNCHANGED <<parts, file>>
    /\ copy' = IF p = "draft" THEN copy ELSE "none"
    /\ ChoreGoes(c, "removed")
    /\ UNCHANGED <<attRow, chat, uploads, copying, chores, lapses>>

\* The sandbox does not answer, or stops half-way.
FailRemoval(c) ==
    LET p == cleaner[c].path IN
    /\ cleaner[c].at = "claimed"
    /\ IF p = "draft" THEN parts' \in {parts, {}} /\ file' \in {file, FALSE} ELSE UNCHANGED <<parts, file>>
    /\ copy' \in IF p # "draft" /\ copy = "whole" THEN {copy, "torn"} ELSE {copy}
    /\ ChoreGoes(c, "failed")
    /\ UNCHANGED <<attRow, chat, uploads, copying, chores, lapses>>

\* The claim is still this task's.
HasChore(c) == chore[cleaner[c].path] = "running" /\ worker[cleaner[c].path] = c

\* "blocked": the sandbox is not the one the file was written to.
EndChore(c) ==
    LET p == cleaner[c].path IN
    /\ cleaner[c].at \in {"removed", "failed"}
    /\ \E outcome \in IF cleaner[c].at = "removed" THEN {"completed"} ELSE {"retry", "blocked"} :
          chore' = [chore EXCEPT ![p] = IF HasChore(c) THEN outcome ELSE @]
    /\ leaseOn' = [leaseOn EXCEPT ![p] = ~HasChore(c) /\ @]
    /\ cleaner' = [cleaner EXCEPT ![c] = AtRest]
    /\ UNCHANGED <<attRow, bytes, chat, uploads, copying, worker, lapses>>

CleanerDies(c) ==
    /\ cleaner[c].at # "idle" /\ lapses < MaxLapses
    /\ lapses' = lapses + 1
    /\ cleaner' = [cleaner EXCEPT ![c] = AtRest]
    /\ UNCHANGED <<attRow, bytes, chat, uploads, copying, chores>>

ChoreTended(p) == worker[p] # NoCleaner /\ cleaner[worker[p]].at # "idle" /\ cleaner[worker[p]].path = p

\* After five minutes, which a slow removal may take.
ChoreLapses(p) ==
    /\ chore[p] = "running" /\ leaseOn[p]
    /\ IF ChoreTended(p) THEN lapses < MaxLapses /\ lapses' = lapses + 1 ELSE UNCHANGED lapses
    /\ leaseOn' = [leaseOn EXCEPT ![p] = FALSE]
    /\ UNCHANGED <<attRow, bytes, chat, uploads, copying, chore, worker, cleaner>>

-----------------------------------------------------------------------------
Upload(u) == BeginUpload(u) \/ BindUpload(u) \/ WritePart(u) \/ InstallPart(u) \/ FinishUpload(u)
ClaimStep(k) == BeginClaim(k) \/ CopyDraft(k) \/ FinishClaim(k)
Clean(c) == RemovePath(c) \/ FailRemoval(c) \/ EndChore(c)

DraftNext ==
    \/ \E u \in Uploaders : Upload(u) \/ FailUpload(u)
    \/ \E k \in Claimers : ClaimStep(k) \/ FailClaim(k)
    \/ SendRound \/ DeleteSession \/ DeleteDraft \/ ExpireDraft
    \/ \E c \in Cleaners : Clean(c) \/ CleanerDies(c) \/ \E p \in CleanupPaths : ClaimChore(c, p)
    \/ \E p \in CleanupPaths : ChoreLapses(p)

DraftSpec == DraftInit /\ [][DraftNext]_draftVars

\* Requests end, cleaning loops go round, leases lapse, and a sandbox that does
\* not answer answers some time.
DraftFairness ==
    /\ \A u \in Uploaders : WF_draftVars(FinishUpload(u) \/ FailUpload(u))
    /\ \A k \in Claimers : WF_draftVars(FinishClaim(k) \/ FailClaim(k))
    /\ \A c \in Cleaners : WF_draftVars(EndChore(c))
    /\ SF_draftVars(\E c \in Cleaners : RemovePath(c))
    /\ SF_draftVars(\E c \in Cleaners, p \in CleanupPaths : ClaimChore(c, p))
    /\ WF_draftVars(\E p \in CleanupPaths : ChoreLapses(p) /\ ~ChoreTended(p))

-----------------------------------------------------------------------------
(* Properties.                                                             *)

AttachmentsAreKept ==
    /\ att = "ready" => file
    /\ att \in {"claimed", "attached"} /\ session => copy = "whole"
    /\ mentioned => att = "attached"

AtWork == (\E u \in Uploaders : upStep[u] # "idle") \/ \E k \in Claimers : cpStep[k] # "idle"

NothingIsForgotten ==
    /\ removed /\ (parts # {} \/ file) /\ ~AtWork => chore["draft"] \notin {"none", "completed"}
    /\ att = "deleted" /\ copy # "none" /\ ~AtWork => chore["copy"] \notin {"none", "completed"}

\* Rows and files agree, whatever uploads take over, however late a request or a
\* cleaning task is, and in whatever order the file is removed, expires and is
\* sent.  What is called ready or claimed is there and whole, and what a Round
\* names stays; bytes that are left of a removed attachment are somebody's to
\* delete, a request's that is still out or a job's that is not called completed.
FilesFollowRows == AttachmentsAreKept /\ NothingIsForgotten

NothingLeft == parts = {} /\ ~file /\ copy = "none"

\* The bytes of a removed attachment are gone in the end and stay gone, however
\* late an upload or a claim comes back, unless its sandbox was replaced.
RemovedIsCleaned ==
    att = "deleted" ~> [](NothingLeft \/ chore["draft"] = "blocked" \/ chore["copy"] = "blocked")
=============================================================================
