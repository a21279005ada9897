-------------------------- MODULE WorkspaceObjects --------------------------
(***************************************************************************)
(* One immutable content of a user's workspace: the object that holds it   *)
(* in the sandbox, the saves that want it kept, the versions and heads     *)
(* that name it, and the collectors that remove it when nothing does.      *)
(*                                                                         *)
(* Every save here has this very content and makes a version of an entry   *)
(* of its own.  A save that is left by its request is continued by a       *)
(* reconciler; the two are one here, and what a reconciler repeats may be  *)
(* repeated.  Retention has run out for every version that is not a head.  *)
(***************************************************************************)
EXTENDS Naturals

CONSTANTS Saves,       \* mutations that bring the content into an entry
          Collectors,  \* processes that run the history's garbage collection
          Nobody,      \* no collector
          NoVersion,   \* the target of a collector that is after the object alone
          Windowed,    \* others commit between a collector's reads and its mark
          Stalls,      \* a collector may outlive its claim, which has no heartbeat
          MaxDeaths    \* a bound on the collectors that die at work

ASSUME WorkspaceObjectsAssumption ==
    /\ Nobody \notin Collectors /\ NoVersion \notin Saves
    /\ Windowed \in BOOLEAN /\ Stalls \in BOOLEAN
    /\ MaxDeaths \in Nat

VARIABLES
    objRow,    \* WorkspaceContentObject.state, "none" before the row exists
    objFile,   \* the object's file is in the sandbox
    save,      \* where each save is
    version,   \* WorkspaceFileVersion.state of the version it makes
    heads,     \* saves whose version is their entry's head
    pins,      \* saves whose version is pinned, by a Round, a draft or a copy
    objClaim,  \* holder of the claim "object:<blob>"
    gcStep,    \* where each collector is
    gcOf,      \* the version it is after
    deaths     \* collectors that died at work

objVars == <<objRow, objFile, save, version, heads, pins, objClaim, gcStep, gcOf, deaths>>
entryRows == <<version, heads, pins>>
collection == <<objClaim, gcStep, gcOf>>

-----------------------------------------------------------------------------
\* Prepared mutations, each with a reference to the content.
Saving == {s \in Saves : save[s] \in {"begun", "ready", "installed", "kept"}}
References == Saving \cup heads \cup pins

ObjectsTypeOK ==
    /\ objRow \in {"none", "materialized", "pruning", "pruned"}
    /\ objFile \in BOOLEAN
    /\ save \in [Saves -> {"idle", "begun", "ready", "installed", "kept", "failed", "done"}]
    /\ version \in [Saves -> {"none", "materialized", "pruning", "pruned"}]
    /\ heads \subseteq Saves /\ pins \subseteq Saves
    /\ objClaim \in Collectors \cup {Nobody}
    /\ gcStep \in [Collectors -> {"idle", "claimed", "looked", "marked", "removed"}]
    /\ gcOf \in [Collectors -> Saves \cup {NoVersion}]
    /\ deaths \in 0 .. MaxDeaths

ObjectsInit ==
    /\ objRow = "none" /\ objFile = FALSE
    /\ save = [s \in Saves |-> "idle"]
    /\ version = [s \in Saves |-> "none"]
    /\ heads = {} /\ pins = {}
    /\ objClaim = Nobody
    /\ gcStep = [c \in Collectors |-> "idle"]
    /\ gcOf = [c \in Collectors |-> NoVersion]
    /\ deaths = 0

SaveGoes(s, step) == save' = [save EXCEPT ![s] = step]

\* A collector has locked the version, or the object, and is about to mark it.
LockedVersion(s) == \E c \in Collectors : gcStep[c] = "looked" /\ gcOf[c] = s
LockedObject == \E c \in Collectors : gcStep[c] = "looked"

-----------------------------------------------------------------------------
(* A save.                                                                 *)

\* The mutation commits, and with it its reference to the content.
BeginSave(s) ==
    /\ save[s] = "idle"
    /\ SaveGoes(s, "begun")
    /\ UNCHANGED <<objRow, objFile, entryRows, collection, deaths>>

\* Another transaction: a save of a content that is being removed is failed.
CheckObject(s) ==
    /\ save[s] = "begun"
    /\ SaveGoes(s, IF objRow = "pruning" THEN "failed" ELSE "ready")
    /\ UNCHANGED <<objRow, objFile, entryRows, collection, deaths>>

\* The working file is installed.
InstallSave(s) ==
    /\ save[s] = "ready"
    /\ SaveGoes(s, "installed")
    /\ UNCHANGED <<objRow, objFile, entryRows, collection, deaths>>

\* Its place is taken, or a reconciler finds that it was not applied.
FailSave(s) ==
    /\ save[s] \in {"begun", "ready"}
    /\ SaveGoes(s, "failed")
    /\ UNCHANGED <<objRow, objFile, entryRows, collection, deaths>>

\* The working file is copied to the object, unless the object is there.  A
\* reconciler looks again, and copies again.
KeepContent(s) ==
    /\ save[s] \in {"installed", "kept"}
    /\ objFile' = TRUE
    /\ SaveGoes(s, "kept")
    /\ UNCHANGED <<objRow, entryRows, collection, deaths>>

\* Version, object and head are recorded and the mutation's reference becomes
\* the head's.  Refused while the object is being removed: still prepared.
RecordSave(s) ==
    /\ save[s] = "kept" /\ objRow # "pruning" /\ ~LockedObject
    /\ objRow' = "materialized"
    /\ version' = [version EXCEPT ![s] = "materialized"]
    /\ heads' = heads \cup {s}
    /\ SaveGoes(s, "done")
    /\ UNCHANGED <<objFile, pins, collection, deaths>>

-----------------------------------------------------------------------------
(* What becomes of its version.                                            *)

\* The entry gets another content; its head and the reference move on.
ReplaceHead(s) ==
    /\ s \in heads
    /\ heads' = heads \ {s}
    /\ UNCHANGED <<objRow, objFile, save, version, pins, collection, deaths>>

\* A Round, a draft or a staged copy protects a version that it uses.
ProtectVersion(s) ==
    /\ version[s] = "materialized" /\ s \notin pins /\ ~LockedVersion(s)
    /\ pins' = pins \cup {s}
    /\ UNCHANGED <<objRow, objFile, save, version, heads, collection, deaths>>

ReleaseVersion(s) ==
    /\ s \in pins
    /\ pins' = pins \ {s}
    /\ UNCHANGED <<objRow, objFile, save, version, heads, collection, deaths>>

\* The entry is deleted with its versions and the references to them.
DeleteVersions(s) ==
    /\ version[s] # "none" /\ ~LockedVersion(s)
    /\ version' = [version EXCEPT ![s] = "none"]
    /\ heads' = heads \ {s} /\ pins' = pins \ {s}
    /\ UNCHANGED <<objRow, objFile, save, collection, deaths>>

-----------------------------------------------------------------------------
(* Collection: of a version and its object, or of an object no version has. *)

GcGoes(c, step) == gcStep' = [gcStep EXCEPT ![c] = step]

GcStops(c) ==
    /\ GcGoes(c, "idle")
    /\ gcOf' = [gcOf EXCEPT ![c] = NoVersion]
    /\ objClaim' = IF objClaim = c THEN Nobody ELSE objClaim

\* Mutant: only heads and pins count.
ProtectedHeads == heads \cup pins
\* Heads, pins and open mutations: any reference to the content counts.
Protected == References

Alive == {s \in Saves : version[s] \in {"materialized", "pruning"}}

\* Mutant: an interrupted removal is not taken up again.
TakeFresh(c, target) ==
    /\ gcStep[c] = "idle" /\ objClaim = Nobody /\ Protected = {}
    /\ IF target = NoVersion THEN objRow = "materialized" /\ Alive = {}
                             ELSE version[target] = "materialized"
    /\ objClaim' = c
    /\ gcOf' = [gcOf EXCEPT ![c] = target]
    /\ GcGoes(c, "claimed")
    /\ UNCHANGED <<objRow, objFile, save, entryRows, deaths>>

\* Chosen by a first look, and claimed.  The claim excludes other collectors, as
\* long as it lasts; a save, a copy and a new file have none.
TakeObject(c, target) ==
    /\ gcStep[c] = "idle" /\ objClaim = Nobody /\ Protected = {}
    /\ IF target = NoVersion THEN objRow \in {"materialized", "pruning"} /\ Alive = {}
                             ELSE target \in Alive
    /\ objClaim' = c
    /\ gcOf' = [gcOf EXCEPT ![c] = target]
    /\ GcGoes(c, "claimed")
    /\ UNCHANGED <<objRow, objFile, save, entryRows, deaths>>

MarkPruning(c) ==
    /\ objRow' = "pruning"
    /\ version' = [s \in Saves |-> IF s = gcOf[c] THEN "pruning" ELSE version[s]]
    /\ GcGoes(c, "marked")
    /\ UNCHANGED <<objFile, save, heads, pins, objClaim, gcOf, deaths>>

\* Nothing stands against it: marked, at once or after a moment in which other
\* transactions commit what the locks of version and object do not concern.
MarkOrWait(c) ==
    IF Windowed
    THEN GcGoes(c, "looked") /\ UNCHANGED <<objRow, objFile, save, entryRows, objClaim, gcOf, deaths>>
    ELSE MarkPruning(c)

LookAtVersion(c) ==
    LET s == gcOf[c]
        others == {k \in Saves \ {s} : version[k] = "materialized"}
    IN
    /\ gcStep[c] = "claimed" /\ s # NoVersion /\ ~LockedObject
    /\ \/ /\ version[s] \in {"none", "pruned"}
          /\ GcStops(c)
          /\ UNCHANGED <<objRow, objFile, save, entryRows, deaths>>
       \/ /\ version[s] \in {"materialized", "pruning"} /\ Protected # {}
          /\ version' = [version EXCEPT ![s] = "materialized"]
          /\ GcStops(c)
          /\ UNCHANGED <<objRow, objFile, save, heads, pins, deaths>>
       \/ /\ version[s] \in {"materialized", "pruning"} /\ Protected = {} /\ others # {}
          /\ version' = [version EXCEPT ![s] = "pruned"]
          /\ GcStops(c)
          /\ UNCHANGED <<objRow, objFile, save, heads, pins, deaths>>
       \/ /\ version[s] \in {"materialized", "pruning"} /\ Protected = {} /\ others = {}
          /\ MarkOrWait(c)

\* Of the object alone: versions that are not pruned protect it too.
LookAtObject(c) ==
    /\ gcStep[c] = "claimed" /\ gcOf[c] = NoVersion /\ ~LockedObject
    /\ \/ /\ objRow \notin {"materialized", "pruning"}
          /\ GcStops(c)
          /\ UNCHANGED <<objRow, objFile, save, entryRows, deaths>>
       \/ /\ objRow \in {"materialized", "pruning"} /\ Protected \cup Alive # {}
          /\ objRow' = "materialized"
          /\ GcStops(c)
          /\ UNCHANGED <<objFile, save, entryRows, deaths>>
       \/ /\ objRow \in {"materialized", "pruning"} /\ Protected \cup Alive = {}
          /\ MarkOrWait(c)

Mark(c) == gcStep[c] = "looked" /\ MarkPruning(c)

RemoveContent(c) ==
    /\ gcStep[c] = "marked"
    /\ objFile' = FALSE
    /\ GcGoes(c, "removed")
    /\ UNCHANGED <<objRow, save, entryRows, objClaim, gcOf, deaths>>

\* HISTORY_GC_FENCED if version or object are not being pruned any more.
FinishPruning(c) ==
    LET s == gcOf[c]
        held == objRow = "pruning" /\ (s # NoVersion => version[s] = "pruning")
    IN
    /\ gcStep[c] = "removed" /\ ~LockedObject
    /\ objRow' = IF held THEN "pruned" ELSE objRow
    /\ version' = [k \in Saves |-> IF held /\ k = s THEN "pruned" ELSE version[k]]
    /\ GcStops(c)
    /\ UNCHANGED <<objFile, save, heads, pins, deaths>>

\* A collector dies; its claim lapses in time.
CollectorDies(c) ==
    /\ gcStep[c] \in {"claimed", "marked", "removed"} /\ deaths < MaxDeaths
    /\ deaths' = deaths + 1
    /\ GcGoes(c, "idle")
    /\ gcOf' = [gcOf EXCEPT ![c] = NoVersion]
    /\ UNCHANGED <<objRow, objFile, save, entryRows, objClaim>>

ClaimLapses ==
    /\ objClaim # Nobody
    /\ Stalls \/ gcStep[objClaim] = "idle"
    /\ objClaim' = Nobody
    /\ UNCHANGED <<objRow, objFile, save, entryRows, gcStep, gcOf, deaths>>

-----------------------------------------------------------------------------
Saver(s) ==
    BeginSave(s) \/ CheckObject(s) \/ InstallSave(s) \/ FailSave(s) \/ KeepContent(s) \/ RecordSave(s)
User(s) == ReplaceHead(s) \/ ProtectVersion(s) \/ ReleaseVersion(s) \/ DeleteVersions(s)
Collect(c) ==
    LookAtVersion(c) \/ LookAtObject(c) \/ Mark(c) \/ RemoveContent(c) \/ FinishPruning(c)

ObjectsNext ==
    \/ \E s \in Saves : Saver(s) \/ User(s)
    \/ \E c \in Collectors :
          Collect(c) \/ CollectorDies(c) \/ \E target \in Saves \cup {NoVersion} : TakeObject(c, target)
    \/ ClaimLapses

ObjectsSpec == ObjectsInit /\ [][ObjectsNext]_objVars

-----------------------------------------------------------------------------
\* The content of a head is in the sandbox, whatever was collected, by whom and
\* however it ended.
HeadsHaveContent == heads # {} => objFile

\* So is that of every version that can be used, as long as no collector died
\* between its mark and the end.
ContentIsKept ==
    /\ HeadsHaveContent
    /\ deaths = 0 => \A s \in Saves : version[s] = "materialized" \/ s \in pins => objFile

ObjectsFairness ==
    /\ WF_objVars(ClaimLapses)
    /\ \A c \in Collectors : WF_objVars(Collect(c))
    /\ \A s \in Saves : WF_objVars(CheckObject(s) \/ InstallSave(s) \/ RecordSave(s))
                        /\ WF_objVars(save[s] = "installed" /\ KeepContent(s))
    /\ SF_objVars(\E c \in Collectors, t \in Saves \cup {NoVersion} : TakeObject(c, t))

\* A removal that has begun comes to an end, whoever dies at it, unless a
\* version that names the content is wanted again.
PruningEnds ==
    objRow = "pruning" ~> objRow # "pruning" \/ \E s \in Saves : version[s] = "materialized"
=============================================================================
