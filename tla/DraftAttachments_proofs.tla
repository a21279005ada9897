----------------------- MODULE DraftAttachments_proofs -----------------------
(***************************************************************************)
(* Proofs about DraftAttachments, for any number of uploads, claims and    *)
(* cleaning tasks.                                                         *)
(*                                                                         *)
(* The file of a row that is not removed is safe because the jobs that     *)
(* would delete it are made by a removal only; the bytes of one that is    *)
(* removed are safe from being forgotten because a job is called completed *)
(* only while nothing is left or some request is still out, and that       *)
(* request arms the job again when it ends.                                *)
(***************************************************************************)
EXTENDS DraftAttachments, TLAPS

Uploading == \E u \in Uploaders : upStep[u] # "idle"
Claiming == \E k \in Claimers : cpStep[k] # "idle"

RowInv ==
    /\ removed => att \in {"attached", "deleted"}
    /\ att = "deleted" => removed
    /\ att = "none" => ~bound
    /\ mentioned => att = "attached"

\* Nothing is written for a row whose sandbox is not known.
WrittenInv ==
    /\ parts # {} \/ file => bound
    /\ \A u \in Uploaders : upStep[u] \in {"bound", "written", "installed"} => bound
    /\ copy # "none" => bound /\ named

\* At most one claim is out, and the row is its own unless it was deleted.
ClaimsInv ==
    /\ \A k \in Claimers : cpStep[k] # "idle" => named /\ (OwnsClaim(k) \/ att = "deleted")
    /\ \A k, l \in Claimers : cpStep[k] # "idle" /\ cpStep[l] # "idle" => k = l

\* A job belongs to a removed draft, a deleted attachment, a deleted session.
ChoresInv ==
    /\ \A c \in Cleaners : cleaner[c].at # "idle" => chore[cleaner[c].path] # "none"
    /\ chore["draft"] # "none" => removed
    /\ chore["copy"] # "none" => att = "deleted"
    /\ chore["session"] # "none" => ~session

KeptInv ==
    /\ att \in {"ready", "claiming", "claimed"} => file
    /\ \A u \in Uploaders : upStep[u] = "installed" /\ ~removed => file
    /\ \A k \in Claimers : cpStep[k] = "copied" /\ OwnsClaim(k) /\ session => copy = "whole"
    /\ att \in {"claimed", "attached"} /\ session => copy = "whole"

DraftIsGone == parts = {} /\ ~file

\* What is left is somebody's to delete; a task that has removed a path and has
\* still the job leaves nothing, but for what a request has written since.
LeftInv ==
    /\ removed /\ ~DraftIsGone /\ ~Uploading => chore["draft"] \notin {"none", "completed"}
    /\ att = "deleted" /\ copy # "none" /\ ~Claiming => chore["copy"] \notin {"none", "completed"}
    /\ \A c \in Cleaners : cleaner[c].at = "removed" /\ HasChore(c) =>
          /\ cleaner[c].path = "draft" => DraftIsGone \/ Uploading
          /\ cleaner[c].path = "copy" => copy = "none" \/ Claiming

DraftInv == DraftTypeOK /\ RowInv /\ WrittenInv /\ ClaimsInv /\ ChoresInv /\ KeptInv /\ LeftInv

-----------------------------------------------------------------------------
LEMMA AtRestIsIdle == AtRest \in [at : {"idle", "claimed", "removed", "failed"}, path : CleanupPaths]
  BY DEF AtRest, CleanupPaths

\* What enqueue_cleanup does to the jobs: those it does not concern stay, and
\* one that it concerns is not left running or completed.
LEMMA Queued ==
    ASSUME DraftTypeOK, NEW ps, Enqueued(ps)
    PROVE  /\ chore' \in [CleanupPaths -> {"none", "queued", "running", "retry", "completed", "blocked"}]
           /\ worker' \in [CleanupPaths -> Cleaners \cup {NoCleaner}]
           /\ leaseOn' \in [CleanupPaths -> BOOLEAN]
           /\ \A p \in CleanupPaths :
                 /\ p \notin ps => chore'[p] = chore[p]
                 /\ chore[p] # "none" => chore'[p] # "none"
                 /\ p \in ps /\ p # "session" /\ bound => chore'[p] \in {"queued", "retry", "blocked"}
                 /\ chore'[p] = "running" => chore[p] = "running" /\ worker'[p] = worker[p]
  <1> DEFINE todo == {p \in ps : (p = "session" \/ bound) /\ Armed(p)}
  <1>1. /\ chore' = [p \in CleanupPaths |-> IF p \in todo THEN "queued" ELSE chore[p]]
        /\ worker' = [p \in CleanupPaths |-> IF p \in todo THEN NoCleaner ELSE worker[p]]
        /\ leaseOn' = [p \in CleanupPaths |-> p \notin todo /\ leaseOn[p]]
    BY DEF Enqueued
  <1>2. \A p \in todo : p \in ps
    OBVIOUS
  <1>3. \A p \in ps : p # "session" /\ bound /\ p \notin todo =>
           chore[p] # "none" /\ chore[p] \notin {"completed", "running"}
    BY DEF Armed
  <1> HIDE DEF todo
  <1>4. leaseOn' \in [CleanupPaths -> BOOLEAN]
    <2>1. \A p \in CleanupPaths : (p \notin todo /\ leaseOn[p]) \in BOOLEAN
      OBVIOUS
    <2> QED  BY <1>1, <2>1
  <1>5. /\ chore' \in [CleanupPaths -> {"none", "queued", "running", "retry", "completed", "blocked"}]
        /\ worker' \in [CleanupPaths -> Cleaners \cup {NoCleaner}]
    BY <1>1 DEF DraftTypeOK
  <1>6. \A p \in CleanupPaths :
           /\ p \notin ps => chore'[p] = chore[p]
           /\ chore[p] # "none" => chore'[p] # "none"
           /\ chore'[p] = "running" => chore[p] = "running" /\ worker'[p] = worker[p]
    BY <1>1, <1>2
  <1>7. \A p \in CleanupPaths : p \in ps /\ p # "session" /\ bound => chore'[p] \in {"queued", "retry", "blocked"}
    BY <1>1, <1>3 DEF DraftTypeOK
  <1> QED  BY <1>4, <1>5, <1>6, <1>7

LEMMA UploadGoesOn ==
    ASSUME DraftInv, NEW u \in Uploaders,
           BeginUpload(u) \/ BindUpload(u) \/ WritePart(u) \/ InstallPart(u)
    PROVE  DraftInv'
  <1> USE DEF DraftInv, DraftTypeOK, attRow, bytes, chat, uploads, copying, chores
  <1>1. ASSUME BeginUpload(u) PROVE DraftInv'
    <2>1. DraftTypeOK'
      BY <1>1, DraftAssumption DEF BeginUpload, Begins, UpGoes, Generations
    <2>2. RowInv' /\ WrittenInv'
      BY <1>1, DraftAssumption DEF BeginUpload, Begins, UpGoes, Generations, RowInv, WrittenInv
    <2>3. ClaimsInv' /\ ChoresInv'
      BY <1>1, DraftAssumption
         DEF BeginUpload, Begins, UpGoes, Generations, ClaimsInv, ChoresInv, OwnsClaim, RowInv
    <2>4. KeptInv'
      BY <1>1, DraftAssumption
         DEF BeginUpload, Begins, UpGoes, Generations, KeptInv, OwnsClaim, RowInv, ClaimsInv,
             ChoresInv
    <2>5. LeftInv'
      BY <1>1, DraftAssumption
         DEF BeginUpload, Begins, UpGoes, Generations, LeftInv, DraftIsGone, Uploading,
             Claiming, HasChore, RowInv, WrittenInv, ClaimsInv, ChoresInv
    <2> QED  BY <2>1, <2>2, <2>3, <2>4, <2>5 DEF DraftInv
  <1>2. ASSUME BindUpload(u) PROVE DraftInv'
    <2>1. DraftTypeOK'
      BY <1>2 DEF BindUpload, OwnsUpload, UpGoes
    <2>2. RowInv' /\ WrittenInv'
      BY <1>2 DEF BindUpload, OwnsUpload, UpGoes, RowInv, WrittenInv
    <2>3. ClaimsInv' /\ ChoresInv'
      BY <1>2 DEF BindUpload, OwnsUpload, UpGoes, ClaimsInv, ChoresInv, OwnsClaim, RowInv
    <2>4. KeptInv'
      BY <1>2
         DEF BindUpload, OwnsUpload, UpGoes, KeptInv, OwnsClaim, RowInv, ClaimsInv, ChoresInv
    <2>5. LeftInv'
      BY <1>2
         DEF BindUpload, OwnsUpload, UpGoes, LeftInv, DraftIsGone, Uploading, Claiming,
             HasChore, RowInv, WrittenInv, ClaimsInv, ChoresInv
    <2> QED  BY <2>1, <2>2, <2>3, <2>4, <2>5 DEF DraftInv
  <1>3. ASSUME WritePart(u) PROVE DraftInv'
    <2>1. DraftTypeOK'
      BY <1>3 DEF WritePart, UpGoes
    <2>2. RowInv' /\ WrittenInv'
      BY <1>3 DEF WritePart, UpGoes, RowInv, WrittenInv
    <2>3. ClaimsInv' /\ ChoresInv'
      BY <1>3 DEF WritePart, UpGoes, ClaimsInv, ChoresInv, OwnsClaim, RowInv
    <2>4. KeptInv'
      BY <1>3 DEF WritePart, UpGoes, KeptInv, OwnsClaim, RowInv, ClaimsInv, ChoresInv
    <2>5. LeftInv'
      BY <1>3
         DEF WritePart, UpGoes, LeftInv, DraftIsGone, Uploading, Claiming, HasChore, RowInv,
             WrittenInv, ClaimsInv, ChoresInv
    <2> QED  BY <2>1, <2>2, <2>3, <2>4, <2>5 DEF DraftInv
  <1>4. ASSUME InstallPart(u) PROVE DraftInv'
    <2>1. DraftTypeOK'
      BY <1>4 DEF InstallPart, UpGoes
    <2>2. RowInv' /\ WrittenInv'
      BY <1>4 DEF InstallPart, UpGoes, RowInv, WrittenInv
    <2>3. ClaimsInv' /\ ChoresInv'
      BY <1>4 DEF InstallPart, UpGoes, ClaimsInv, ChoresInv, OwnsClaim, RowInv
    <2>4. KeptInv'
      BY <1>4 DEF InstallPart, UpGoes, KeptInv, OwnsClaim, RowInv, ClaimsInv, ChoresInv
    <2>5. LeftInv'
      BY <1>4
         DEF InstallPart, UpGoes, LeftInv, DraftIsGone, Uploading, Claiming, HasChore, RowInv,
             WrittenInv, ClaimsInv, ChoresInv
    <2> QED  BY <2>1, <2>2, <2>3, <2>4, <2>5 DEF DraftInv
  <1> QED  BY <1>1, <1>2, <1>3, <1>4


\* An upload that ends: it owned a row that is not removed, or it arms the job.
LEMMA UploadEnds ==
    ASSUME DraftInv, NEW u \in Uploaders, NEW state \in {"ready", "failed"},
           state = "ready" => upStep[u] = "installed", upStep[u] # "idle", EndUpload(u, state)
    PROVE  DraftInv'
  <1> USE DEF DraftInv, attRow, bytes, chat, uploads, copying, chores
  <1>1. /\ upStep' = [upStep EXCEPT ![u] = "idle"]
        /\ att' = IF OwnsUpload(u) THEN state ELSE att
        /\ UNCHANGED <<attGen, removed, bound, named, bytes, chat, upGen, copying, cleaner, lapses>>
    BY DEF EndUpload, UpGoes
  <1>2. CASE UNCHANGED chores /\ (OwnsUpload(u) \/ ~removed)
    <2>2. ~removed /\ (OwnsUpload(u) => att = "uploading")
      BY <1>2 DEF OwnsUpload, RowInv
    <2>3. DraftTypeOK'
      BY <1>1, <1>2 DEF DraftTypeOK
    <2>4. RowInv' /\ WrittenInv' /\ ClaimsInv' /\ ChoresInv'
      BY <1>1, <1>2, <2>2 DEF DraftTypeOK, RowInv, WrittenInv, ClaimsInv, ChoresInv, OwnsClaim
    <2>5. KeptInv'
      BY <1>1, <1>2, <2>2 DEF DraftTypeOK, KeptInv, OwnsClaim
    <2>6. LeftInv'
      BY <1>1, <1>2, <2>2 DEF DraftTypeOK, RowInv, ChoresInv, LeftInv, HasChore, Claiming
    <2> QED  BY <2>3, <2>4, <2>5, <2>6
  <1>3. CASE Enqueued({"draft"}) /\ ~OwnsUpload(u) /\ removed
    <2>1. DraftTypeOK'
      BY <1>1, <1>3, Queued DEF DraftTypeOK
    <2>2. RowInv' /\ WrittenInv' /\ ClaimsInv' /\ ChoresInv'
      BY <1>1, <1>3, Queued DEF DraftTypeOK, RowInv, WrittenInv, ClaimsInv, ChoresInv, OwnsClaim, CleanupPaths
    <2>3. KeptInv'
      BY <1>1, <1>3 DEF DraftTypeOK, KeptInv, OwnsClaim
    <2>4. LeftInv'
      BY <1>1, <1>3, Queued DEF DraftTypeOK, WrittenInv, LeftInv, HasChore, Claiming, DraftIsGone, CleanupPaths
    <2> QED  BY <2>1, <2>2, <2>3, <2>4
  <1> QED  BY <1>2, <1>3 DEF EndUpload

LEMMA ClaimGoesOn ==
    ASSUME DraftInv, NEW k \in Claimers, BeginClaim(k) \/ CopyDraft(k)
    PROVE  DraftInv'
  <1> USE DEF DraftInv, DraftTypeOK, attRow, bytes, chat, uploads, copying, chores
  <1>1. ASSUME BeginClaim(k) PROVE DraftInv'
    <2>1. DraftTypeOK'
      BY <1>1, DraftAssumption DEF BeginClaim, Begins, CpGoes, Generations
    <2>2. RowInv' /\ WrittenInv'
      BY <1>1, DraftAssumption DEF BeginClaim, Begins, CpGoes, Generations, RowInv, WrittenInv
    <2>3. ClaimsInv' /\ ChoresInv'
      BY <1>1, DraftAssumption
         DEF BeginClaim, Begins, CpGoes, Generations, ClaimsInv, ChoresInv, OwnsClaim, RowInv
    <2>4. KeptInv'
      BY <1>1, DraftAssumption
         DEF BeginClaim, Begins, CpGoes, Generations, KeptInv, OwnsClaim, RowInv, ClaimsInv,
             ChoresInv
    <2>5. LeftInv'
      BY <1>1, DraftAssumption
         DEF BeginClaim, Begins, CpGoes, Generations, LeftInv, DraftIsGone, Uploading,
             Claiming, HasChore, RowInv, WrittenInv, ClaimsInv, ChoresInv
    <2> QED  BY <2>1, <2>2, <2>3, <2>4, <2>5 DEF DraftInv
  <1>2. ASSUME CopyDraft(k) PROVE DraftInv'
    <2>1. DraftTypeOK'
      BY <1>2 DEF CopyDraft, CpGoes, ClaimsInv
    <2>2. RowInv' /\ WrittenInv'
      BY <1>2 DEF CopyDraft, CpGoes, ClaimsInv, RowInv, WrittenInv
    <2>3. ClaimsInv' /\ ChoresInv'
      BY <1>2 DEF CopyDraft, CpGoes, ClaimsInv, ClaimsInv, ChoresInv, OwnsClaim, RowInv
    <2>4. KeptInv'
      BY <1>2
         DEF CopyDraft, CpGoes, ClaimsInv, KeptInv, OwnsClaim, RowInv, ClaimsInv, ChoresInv
    <2>5. LeftInv'
      BY <1>2
         DEF CopyDraft, CpGoes, ClaimsInv, LeftInv, DraftIsGone, Uploading, Claiming, HasChore,
             RowInv, WrittenInv, ClaimsInv, ChoresInv
    <2> QED  BY <2>1, <2>2, <2>3, <2>4, <2>5 DEF DraftInv
  <1> QED  BY <1>1, <1>2


\* A claim that ends: the row is its own and there is no job, or the attachment
\* is deleted and it arms the job for its copy.
LEMMA ClaimEnds ==
    ASSUME DraftInv, NEW k \in Claimers, FinishClaim(k) \/ FailClaim(k)
    PROVE  DraftInv'
  <1> USE DEF DraftInv, attRow, bytes, chat, uploads, copying
  <1>1. /\ cpStep' = [cpStep EXCEPT ![k] = "idle"] /\ cpStep[k] # "idle"
        /\ UNCHANGED <<attGen, removed, bound, named, parts, file, chat, uploads, cpGen, cleaner, lapses>>
    BY DEF FinishClaim, FailClaim, CpGoes
  <1>2. \A l \in Claimers : cpStep'[l] = "idle"
    BY <1>1 DEF ClaimsInv, DraftTypeOK
  <1>3. CASE OwnsClaim(k)
    <2>1. att = "claiming" /\ ~removed /\ file /\ chore["draft"] = "none" /\ chore["copy"] = "none"
      BY <1>3 DEF OwnsClaim, RowInv, ChoresInv, KeptInv
    <2>2. att' \in {"ready", "claimed"} /\ UNCHANGED chores
      BY <1>3, <2>1 DEF FinishClaim, FailClaim
    <2>3. copy' \in {"none", "torn", "whole"} /\ (copy' # "none" => bound /\ named)
          /\ (att' = "claimed" /\ session => copy' = "whole")
      BY <1>1, <1>3, <2>1 DEF FinishClaim, FailClaim, WrittenInv, ClaimsInv, KeptInv, DraftTypeOK
    <2>4. DraftTypeOK'
      BY <1>1, <2>2, <2>3 DEF DraftTypeOK, chores
    <2>5. RowInv' /\ WrittenInv' /\ ClaimsInv' /\ ChoresInv'
      BY <1>1, <1>2, <2>1, <2>2, <2>3 DEF DraftTypeOK, RowInv, WrittenInv, ClaimsInv, ChoresInv, chores
    <2>6. KeptInv'
      BY <1>1, <1>2, <2>1, <2>2, <2>3 DEF DraftTypeOK, KeptInv
    <2>7. LeftInv'
      BY <1>1, <1>2, <2>1, <2>2, <2>3 DEF DraftTypeOK, LeftInv, HasChore, chores
    <2> QED  BY <2>4, <2>5, <2>6, <2>7
  <1>4. CASE ~OwnsClaim(k)
    <2>1. att = "deleted" /\ removed
      BY <1>1, <1>4 DEF ClaimsInv, RowInv
    <2>2. att' = att /\ Enqueued({"copy"})
      BY <1>4, <2>1 DEF FinishClaim, FailClaim
    <2>3. copy' \in {"none", "torn", "whole"} /\ (copy' # "none" => bound /\ named)
      BY <1>1 DEF FinishClaim, FailClaim, WrittenInv, ClaimsInv, DraftTypeOK
    <2>4. DraftTypeOK'
      BY <1>1, <2>2, <2>3, Queued DEF DraftTypeOK
    <2>5. RowInv' /\ WrittenInv' /\ ClaimsInv' /\ ChoresInv'
      BY <1>1, <1>2, <2>1, <2>2, <2>3, Queued
         DEF DraftTypeOK, RowInv, WrittenInv, ClaimsInv, ChoresInv, CleanupPaths
    <2>6. KeptInv'
      BY <1>1, <1>2, <2>1, <2>2 DEF DraftTypeOK, KeptInv
    <2>7. LeftInv'
      BY <1>1, <1>2, <2>1, <2>2, <2>3, Queued
         DEF DraftTypeOK, LeftInv, HasChore, Uploading, DraftIsGone, CleanupPaths
    <2> QED  BY <2>4, <2>5, <2>6, <2>7
  <1> QED  BY <1>3, <1>4

-----------------------------------------------------------------------------
LEMMA RemovalStep ==
    ASSUME DraftInv, att \notin {"none", "deleted"}, RemoveAttachment
    PROVE  DraftInv'
  <1> USE DEF DraftInv, attRow, bytes, chat, uploads, copying
  <1> DEFINE ps == {"draft"} \cup IF named /\ ~mentioned THEN {"copy"} ELSE {}
  <1>1. /\ att' = IF mentioned THEN "attached" ELSE "deleted"
        /\ attGen' = attGen + 1 /\ removed' = TRUE /\ Enqueued(ps)
        /\ UNCHANGED <<bound, named, bytes, chat, uploads, copying, cleaner, lapses>>
    BY DEF RemoveAttachment
  <1>2. /\ chore'["session"] = chore["session"]
        /\ bound => chore'["draft"] \in {"queued", "retry", "blocked"}
        /\ bound /\ named /\ ~mentioned => chore'["copy"] \in {"queued", "retry", "blocked"}
        /\ mentioned => chore'["copy"] = chore["copy"]
        /\ \A p \in CleanupPaths :
              /\ chore[p] # "none" => chore'[p] # "none"
              /\ chore'[p] = "running" => chore[p] = "running" /\ worker'[p] = worker[p]
    BY <1>1, Queued DEF CleanupPaths
  <1>3. DraftTypeOK'
    BY <1>1, Queued DEF DraftTypeOK
  <1> HIDE DEF ps
  <1>4. RowInv' /\ WrittenInv'
    BY <1>1 DEF DraftTypeOK, RowInv, WrittenInv
  <1>5. ClaimsInv' /\ ChoresInv'
    BY <1>1, <1>2 DEF DraftTypeOK, RowInv, ClaimsInv, ChoresInv, OwnsClaim, CleanupPaths
  <1>6. KeptInv'
    BY <1>1 DEF DraftTypeOK, RowInv, KeptInv, OwnsClaim
  <1>7. LeftInv'
    BY <1>1, <1>2 DEF DraftTypeOK, RowInv, WrittenInv, LeftInv, HasChore, Uploading, Claiming, DraftIsGone
  <1> QED  BY <1>3, <1>4, <1>5, <1>6, <1>7

LEMMA MessageStep ==
    ASSUME DraftInv, SendRound \/ DeleteSession \/ DeleteDraft \/ ExpireDraft
    PROVE  DraftInv'
  <1> USE DEF DraftInv, DraftTypeOK, attRow, bytes, chat, uploads, copying
  <1>1. ASSUME SendRound PROVE DraftInv'
    <2>1. DraftTypeOK'
      BY <1>1 DEF SendRound, chores
    <2>2. RowInv' /\ WrittenInv'
      BY <1>1 DEF SendRound, chores, RowInv, WrittenInv
    <2>3. ClaimsInv' /\ ChoresInv'
      BY <1>1 DEF SendRound, chores, ClaimsInv, ChoresInv, OwnsClaim, RowInv
    <2>4. KeptInv'
      BY <1>1 DEF SendRound, chores, KeptInv, OwnsClaim, RowInv, ClaimsInv, ChoresInv
    <2>5. LeftInv'
      BY <1>1
         DEF SendRound, chores, LeftInv, DraftIsGone, Uploading, Claiming, HasChore, RowInv,
             WrittenInv, ClaimsInv, ChoresInv
    <2> QED  BY <2>1, <2>2, <2>3, <2>4, <2>5 DEF DraftInv
  <1>2. ASSUME DeleteSession PROVE DraftInv'
    <2>1. DraftTypeOK'
      BY <1>2, Queued DEF DeleteSession, CleanupPaths
    <2>2. RowInv' /\ WrittenInv'
      BY <1>2, Queued DEF DeleteSession, CleanupPaths, RowInv, WrittenInv
    <2>3. ClaimsInv' /\ ChoresInv'
      BY <1>2, Queued DEF DeleteSession, CleanupPaths, ClaimsInv, ChoresInv, OwnsClaim, RowInv
    <2>4. KeptInv'
      BY <1>2, Queued
         DEF DeleteSession, CleanupPaths, KeptInv, OwnsClaim, RowInv, ClaimsInv, ChoresInv
    <2>5. LeftInv'
      BY <1>2, Queued
         DEF DeleteSession, CleanupPaths, LeftInv, DraftIsGone, Uploading, Claiming, HasChore,
             RowInv, WrittenInv, ClaimsInv, ChoresInv
    <2> QED  BY <2>1, <2>2, <2>3, <2>4, <2>5 DEF DraftInv
  <1>3. ASSUME att = "none", att' = "deleted", attGen' = 1, removed' = TRUE,
               UNCHANGED <<bound, named, bytes, chat, uploads, copying, chores, cleaner, lapses>>
        PROVE  DraftInv'
    <2>1. DraftIsGone /\ copy = "none" /\ \A p \in {"draft", "copy"} : chore[p] = "none"
      BY <1>3 DEF RowInv, WrittenInv, ChoresInv, DraftIsGone
    <2>2. DraftTypeOK'
      BY <1>3 DEF chores
    <2>3. RowInv' /\ WrittenInv' /\ ClaimsInv' /\ ChoresInv'
      BY <1>3 DEF RowInv, WrittenInv, ClaimsInv, ChoresInv, OwnsClaim, chores
    <2>4. KeptInv' /\ LeftInv'
      BY <1>3, <2>1
         DEF KeptInv, LeftInv, RowInv, DraftIsGone, ChoresInv, HasChore, OwnsClaim, chores
    <2> QED  BY <2>2, <2>3, <2>4
  <1>4. CASE DeleteDraft
    BY <1>3, <1>4, RemovalStep DEF DeleteDraft
  <1>5. CASE ExpireDraft
    BY <1>5, RemovalStep DEF ExpireDraft
  <1> QED  BY <1>1, <1>2, <1>4, <1>5

-----------------------------------------------------------------------------
LEMMA ChoreStep ==
    ASSUME DraftInv, NEW c \in Cleaners, NEW p \in CleanupPaths, ClaimChore(c, p) \/ CleanerDies(c)
    PROVE  DraftInv'
  <1> USE DEF DraftInv, DraftTypeOK, attRow, bytes, chat, uploads, copying, chores
  <1>1. ASSUME ClaimChore(c, p) PROVE DraftInv'
    <2>1. DraftTypeOK'
      BY <1>1, DraftAssumption DEF ClaimChore, CleanupPaths
    <2>2. RowInv' /\ WrittenInv'
      BY <1>1, DraftAssumption DEF ClaimChore, CleanupPaths, RowInv, WrittenInv
    <2>3. ClaimsInv' /\ ChoresInv'
      BY <1>1, DraftAssumption
         DEF ClaimChore, CleanupPaths, ClaimsInv, ChoresInv, OwnsClaim, RowInv
    <2>4. KeptInv'
      BY <1>1, DraftAssumption
         DEF ClaimChore, CleanupPaths, KeptInv, OwnsClaim, RowInv, ClaimsInv, ChoresInv
    <2>5. LeftInv'
      BY <1>1, DraftAssumption
         DEF ClaimChore, CleanupPaths, LeftInv, DraftIsGone, Uploading, Claiming, HasChore,
             RowInv, WrittenInv, ClaimsInv, ChoresInv
    <2> QED  BY <2>1, <2>2, <2>3, <2>4, <2>5 DEF DraftInv
  <1>2. ASSUME CleanerDies(c) PROVE DraftInv'
    <2>1. DraftTypeOK'
      BY <1>2, AtRestIsIdle, DraftAssumption DEF CleanerDies, AtRest
    <2>2. RowInv' /\ WrittenInv'
      BY <1>2, AtRestIsIdle, DraftAssumption DEF CleanerDies, AtRest, RowInv, WrittenInv
    <2>3. ClaimsInv' /\ ChoresInv'
      BY <1>2, AtRestIsIdle, DraftAssumption
         DEF CleanerDies, AtRest, ClaimsInv, ChoresInv, OwnsClaim, RowInv
    <2>4. KeptInv'
      BY <1>2, AtRestIsIdle, DraftAssumption
         DEF CleanerDies, AtRest, KeptInv, OwnsClaim, RowInv, ClaimsInv, ChoresInv
    <2>5. LeftInv'
      BY <1>2, AtRestIsIdle, DraftAssumption
         DEF CleanerDies, AtRest, LeftInv, DraftIsGone, Uploading, Claiming, HasChore, RowInv,
             WrittenInv, ClaimsInv, ChoresInv
    <2> QED  BY <2>1, <2>2, <2>3, <2>4, <2>5 DEF DraftInv
  <1> QED  BY <1>1, <1>2

LEMMA Lapse ==
    ASSUME DraftInv, NEW p \in CleanupPaths, ChoreLapses(p)
    PROVE  DraftInv'
  <1> USE DEF DraftInv, DraftTypeOK, attRow, bytes, chat, uploads, copying, chores
  <1>1. ASSUME ChoreLapses(p) PROVE DraftInv'
    <2>1. DraftTypeOK'
      BY <1>1, DraftAssumption DEF ChoreLapses
    <2>2. RowInv' /\ WrittenInv'
      BY <1>1, DraftAssumption DEF ChoreLapses, RowInv, WrittenInv
    <2>3. ClaimsInv' /\ ChoresInv'
      BY <1>1, DraftAssumption DEF ChoreLapses, ClaimsInv, ChoresInv, OwnsClaim, RowInv
    <2>4. KeptInv'
      BY <1>1, DraftAssumption
         DEF ChoreLapses, KeptInv, OwnsClaim, RowInv, ClaimsInv, ChoresInv
    <2>5. LeftInv'
      BY <1>1, DraftAssumption
         DEF ChoreLapses, LeftInv, DraftIsGone, Uploading, Claiming, HasChore, RowInv,
             WrittenInv, ClaimsInv, ChoresInv
    <2> QED  BY <2>1, <2>2, <2>3, <2>4, <2>5 DEF DraftInv
  <1> QED  BY <1>1


\* A task removes a path, wholly or in part: no path of a row or of a session
\* that is wanted.
LEMMA RemovalGoesOn ==
    ASSUME DraftInv, NEW c \in Cleaners, RemovePath(c) \/ FailRemoval(c)
    PROVE  DraftInv'
  <1> USE DEF DraftInv, attRow, bytes, chat, uploads, copying, chores
  <1> DEFINE p == cleaner[c].path
  <1>1. /\ UNCHANGED <<attRow, chat, uploads, copying, chores, lapses>>
        /\ \E step \in {"removed", "failed"} : cleaner' = [cleaner EXCEPT ![c].at = step]
        /\ cleaner[c].at = "claimed" /\ p \in CleanupPaths
    BY DEF RemovePath, FailRemoval, ChoreGoes, DraftTypeOK
  <1>2. /\ cleaner' \in [Cleaners -> [at : {"idle", "claimed", "removed", "failed"}, path : CleanupPaths]]
        /\ \A d \in Cleaners : cleaner'[d].path = cleaner[d].path /\ (d # c => cleaner'[d] = cleaner[d])
    BY <1>1 DEF DraftTypeOK
  <1>3. /\ parts' \in {parts, {}} /\ (file' => file) /\ copy' \in {copy, "torn", "none"}
        /\ file' \in BOOLEAN
        /\ copy' # "none" => copy # "none"
        /\ p # "draft" => UNCHANGED <<parts, file>>
        /\ p = "draft" => UNCHANGED copy
    BY <1>1 DEF RemovePath, FailRemoval, DraftTypeOK
  <1>4. cleaner'[c].at = "removed" => /\ p = "draft" => DraftIsGone'
                                      /\ p = "copy" => copy' = "none"
    BY <1>1, <1>2 DEF RemovePath, FailRemoval, ChoreGoes, DraftIsGone, DraftTypeOK
  <1>5. /\ p = "draft" => removed
        /\ p = "copy" => att = "deleted"
        /\ p = "session" => ~session
    BY <1>1 DEF ChoresInv
  <1> HIDE DEF p
  <1>6. DraftTypeOK'
    <2>1. parts' \subseteq Generations /\ copy' \in {"none", "torn", "whole"}
      BY <1>3 DEF DraftTypeOK
    <2> QED  BY <1>1, <1>2, <1>3, <2>1 DEF DraftTypeOK
  <1>7. RowInv' /\ WrittenInv'
    BY <1>1, <1>3 DEF RowInv, WrittenInv
  <1>8. ClaimsInv' /\ ChoresInv'
    BY <1>1, <1>2 DEF ClaimsInv, ChoresInv, OwnsClaim, p
  <1>9. KeptInv'
    BY <1>1, <1>3, <1>5 DEF KeptInv, RowInv, OwnsClaim, CleanupPaths
  <1>10. LeftInv'
    <2>1. ASSUME NEW d \in Cleaners, cleaner'[d].at = "removed", HasChore(d)'
          PROVE  /\ cleaner'[d].path = "draft" => DraftIsGone' \/ Uploading'
                 /\ cleaner'[d].path = "copy" => copy' = "none" \/ Claiming'
      <3>1. CASE d = c
        BY <1>2, <1>4, <2>1, <3>1 DEF p
      <3>2. CASE d # c
        BY <1>1, <1>2, <1>3, <2>1, <3>2 DEF LeftInv, HasChore, DraftIsGone, Uploading, Claiming
      <3> QED  BY <3>1, <3>2
    <2>2. /\ removed' /\ ~DraftIsGone' /\ ~Uploading' => chore'["draft"] \notin {"none", "completed"}
          /\ att' = "deleted" /\ copy' # "none" /\ ~Claiming' => chore'["copy"] \notin {"none", "completed"}
      BY <1>1, <1>3 DEF LeftInv, DraftIsGone, Uploading, Claiming
    <2> QED  BY <2>1, <2>2 DEF LeftInv
  <1> QED  BY <1>6, <1>7, <1>8, <1>9, <1>10

\* A task writes what became of its job, if the job is still its own.
LEMMA ChoreEnds == ASSUME DraftInv, NEW c \in Cleaners, EndChore(c) PROVE DraftInv'
  <1> USE DEF DraftInv, attRow, bytes, chat, uploads, copying
  <1> DEFINE p == cleaner[c].path
  <1>1. /\ UNCHANGED <<attRow, bytes, chat, uploads, copying, worker, lapses>>
        /\ cleaner[c].at \in {"removed", "failed"} /\ p \in CleanupPaths
        /\ cleaner' = [cleaner EXCEPT ![c] = AtRest]
        /\ leaseOn' = [leaseOn EXCEPT ![p] = ~HasChore(c) /\ @]
    BY DEF EndChore, DraftTypeOK
  <1>2. PICK outcome \in {"completed", "retry", "blocked"} :
           /\ outcome = "completed" => cleaner[c].at = "removed"
           /\ chore' = [chore EXCEPT ![p] = IF HasChore(c) THEN outcome ELSE @]
    BY DEF EndChore
  <1>3. \A q \in CleanupPaths :
           /\ chore[q] # "none" <=> chore'[q] # "none"
           /\ chore'[q] = "completed" =>
                 chore[q] = "completed" \/ (q = p /\ HasChore(c) /\ cleaner[c].at = "removed")
           /\ chore'[q] = "running" => chore[q] = "running"
    BY <1>1, <1>2 DEF DraftTypeOK, HasChore
  <1>4. cleaner'[c].at = "idle" /\ \A d \in Cleaners : d # c => cleaner'[d] = cleaner[d]
    BY <1>1 DEF DraftTypeOK, AtRest
  <1>5. DraftTypeOK'
    <2>1. chore' \in [CleanupPaths -> {"none", "queued", "running", "retry", "completed", "blocked"}]
      BY <1>1, <1>2 DEF DraftTypeOK
    <2>2. leaseOn' \in [CleanupPaths -> BOOLEAN]
      <3>1. (~HasChore(c) /\ leaseOn[p]) \in BOOLEAN
        OBVIOUS
      <3> QED  BY <1>1, <3>1 DEF DraftTypeOK
    <2>3. cleaner' \in [Cleaners -> [at : {"idle", "claimed", "removed", "failed"}, path : CleanupPaths]]
      BY <1>1, AtRestIsIdle DEF DraftTypeOK
    <2> QED  BY <1>1, <2>1, <2>2, <2>3 DEF DraftTypeOK
  <1>6. LeftInv'
    <2>1. ASSUME removed, ~DraftIsGone, ~Uploading PROVE chore'["draft"] \notin {"none", "completed"}
      BY <1>3, <2>1 DEF LeftInv, CleanupPaths
    <2>2. ASSUME att = "deleted", copy # "none", ~Claiming PROVE chore'["copy"] \notin {"none", "completed"}
      BY <1>3, <2>2 DEF LeftInv, CleanupPaths
    <2>3. ASSUME NEW d \in Cleaners, cleaner'[d].at = "removed", HasChore(d)'
          PROVE  d # c /\ cleaner[d].at = "removed" /\ HasChore(d) /\ cleaner'[d] = cleaner[d]
      BY <1>1, <1>3, <1>4, <2>3 DEF HasChore, DraftTypeOK
    <2> QED  BY <1>1, <2>1, <2>2, <2>3 DEF LeftInv, DraftIsGone, Uploading, Claiming
  <1> HIDE DEF p
  <1>7. RowInv' /\ WrittenInv' /\ KeptInv'
    BY <1>1 DEF RowInv, WrittenInv, KeptInv, OwnsClaim
  <1>8. ClaimsInv' /\ ChoresInv'
    BY <1>1, <1>3, <1>4 DEF ClaimsInv, ChoresInv, OwnsClaim, CleanupPaths, DraftTypeOK
  <1> QED  BY <1>5, <1>6, <1>7, <1>8

-----------------------------------------------------------------------------
\* The invariant: types, who may delete what, and who still has to.
THEOREM DraftInvariance == DraftSpec => []DraftInv
  <1>1. DraftInit => DraftInv
    <2> SUFFICES ASSUME DraftInit PROVE DraftInv
      OBVIOUS
    <2>1. DraftTypeOK
      <3>1. /\ removed \in BOOLEAN /\ bound \in BOOLEAN /\ named \in BOOLEAN
            /\ file \in BOOLEAN /\ mentioned \in BOOLEAN /\ session \in BOOLEAN
        BY DEF DraftInit
      <3>2. leaseOn \in [CleanupPaths -> BOOLEAN]
        BY DEF DraftInit
      <3>3. /\ att = "none" /\ attGen = 0 /\ parts = {} /\ copy = "none" /\ lapses = 0
            /\ upStep = [u \in Uploaders |-> "idle"] /\ upGen = [u \in Uploaders |-> 0]
            /\ cpStep = [k \in Claimers |-> "idle"] /\ cpGen = [k \in Claimers |-> 0]
            /\ chore = [p \in CleanupPaths |-> "none"] /\ worker = [p \in CleanupPaths |-> NoCleaner]
            /\ cleaner = [c \in Cleaners |-> AtRest]
        BY DEF DraftInit
      <3> QED  BY <3>1, <3>2, <3>3, AtRestIsIdle, DraftAssumption DEF DraftTypeOK, Generations
    <2>2. RowInv /\ WrittenInv /\ ClaimsInv /\ ChoresInv /\ KeptInv /\ LeftInv
      BY DEF DraftInit, AtRest, CleanupPaths, RowInv, WrittenInv, ClaimsInv, ChoresInv, KeptInv,
             LeftInv, DraftIsGone
    <2> QED  BY <2>1, <2>2 DEF DraftInv
  <1>2. DraftInv /\ [DraftNext]_draftVars => DraftInv'
    <2> SUFFICES ASSUME DraftInv, [DraftNext]_draftVars PROVE DraftInv'
      OBVIOUS
    <2>1. CASE UNCHANGED draftVars
      BY <2>1 DEF draftVars, attRow, bytes, chat, uploads, copying, chores, DraftInv, DraftTypeOK,
                  RowInv, WrittenInv, ClaimsInv, ChoresInv, KeptInv, LeftInv, OwnsClaim, HasChore,
                  DraftIsGone, Uploading, Claiming
    <2>2. ASSUME NEW u \in Uploaders, Upload(u) \/ FailUpload(u) PROVE DraftInv'
      BY <2>2, UploadGoesOn, UploadEnds DEF Upload, FinishUpload, FailUpload
    <2>3. ASSUME NEW k \in Claimers, ClaimStep(k) \/ FailClaim(k) PROVE DraftInv'
      BY <2>3, ClaimGoesOn, ClaimEnds DEF ClaimStep
    <2>4. ASSUME NEW c \in Cleaners, Clean(c) PROVE DraftInv'
      BY <2>4, RemovalGoesOn, ChoreEnds DEF Clean
    <2>5. ASSUME NEW c \in Cleaners, CleanerDies(c) PROVE DraftInv'
      <3>1. "draft" \in CleanupPaths
        BY DEF CleanupPaths
      <3> QED  BY <2>5, <3>1, ChoreStep
    <2>6. ASSUME NEW p \in CleanupPaths, ChoreLapses(p) \/ \E c \in Cleaners : ClaimChore(c, p)
          PROVE  DraftInv'
      <3>1. CASE ChoreLapses(p)
        BY <3>1, Lapse
      <3> QED  BY <2>6, <3>1, ChoreStep
    <2> QED  BY <2>1, <2>2, <2>3, <2>4, <2>5, <2>6, MessageStep DEF DraftNext
  <1> QED  BY <1>1, <1>2, PTL DEF DraftSpec

\* The types of the row, the bytes, the requests and the jobs.
THEOREM DraftTypeCorrect == DraftSpec => []DraftTypeOK
  <1>1. DraftInv => DraftTypeOK
    BY DEF DraftInv
  <1> QED  BY <1>1, DraftInvariance, PTL

\* Rows and files agree: what is called ready or claimed is there and whole,
\* what a Round names stays, and what is left of a removed attachment is
\* somebody's to delete (upload, claim, delete, enqueue_cleanup).
THEOREM FilesFollowRowsHolds == DraftSpec => []FilesFollowRows
  <1>1. DraftInv => FilesFollowRows
    BY DEF DraftInv, RowInv, KeptInv, LeftInv, DraftIsGone, Uploading, Claiming,
           FilesFollowRows, AttachmentsAreKept, NothingIsForgotten, AtWork
  <1> QED  BY <1>1, DraftInvariance, PTL

=============================================================================
