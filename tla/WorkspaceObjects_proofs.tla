----------------------- MODULE WorkspaceObjects_proofs -----------------------
(***************************************************************************)
(* Proofs about WorkspaceObjects, for any number of saves and collectors.  *)
(*                                                                         *)
(* A collector removes the file only between its mark and its end, and all *)
(* that time the object's row says "pruning".  So it is enough to follow   *)
(* that row: no save is on its way to a version and nothing is a head      *)
(* while it is "pruning".                                                  *)
(*                                                                         *)
(* Two things can break that, and the code excludes neither: a second      *)
(* collector begins when the claim has lapsed under one that still works,  *)
(* and a save gets past its check between another's look and its mark.  A  *)
(* history variable says whether either has happened; until then the       *)
(* content is kept, whatever the constants.                                *)
(***************************************************************************)
EXTENDS WorkspaceObjects, TLAPS

\* No two collectors are at work.
Alone ==
    \A c, d \in Collectors : gcStep[c] # "idle" /\ gcStep[d] # "idle" => c = d

\* Saves whose mutation has seen the object and goes on.
PastCheck == {s \in Saves : save[s] \in {"ready", "installed", "kept"}}

\* No save is past its check while a collector waits between look and mark.
KeptOut == LockedObject => PastCheck = {}

\* TRUE from the first moment that two collectors were at work, or that a save
\* was past its check while a collector was about to mark.
VARIABLE disturbed

WatchedObjectsInit == ObjectsInit /\ disturbed = FALSE
WatchedObjectsNext ==
    /\ ObjectsNext
    /\ disturbed' = (disturbed \/ ~Alone' \/ ~KeptOut')
WatchedObjectsSpec == WatchedObjectsInit /\ [][WatchedObjectsNext]_<<objVars, disturbed>>

\* The row says "pruning" from the mark to the end of a removal; meanwhile, and
\* while a collector is about to mark, nothing is a head and no save gets past
\* its check.
MarkHolds ==
    /\ \A c \in Collectors : gcStep[c] \in {"marked", "removed"} => objRow = "pruning"
    /\ objRow = "pruning" \/ LockedObject => heads = {} /\ PastCheck = {}

\* What a save has copied, and what a head names, is there.
HeldIsThere ==
    /\ \A s \in Saves : save[s] = "kept" => objFile
    /\ HeadsHaveContent

\* If no collector died: a version is marked only by a collector that is at it,
\* one that is about to mark will mark the only version in use, a marked object
\* has none, and what is in use is there.
UseHolds ==
    /\ \A s \in Saves : version[s] = "pruning" =>
          \E c \in Collectors : gcStep[c] \in {"marked", "removed"} /\ gcOf[c] = s
    /\ \A c \in Collectors : gcStep[c] = "looked" =>
          pins = {} /\ \A s \in Saves : version[s] = "materialized" => s = gcOf[c]
    /\ objRow = "pruning" => pins = {} /\ \A s \in Saves : version[s] # "materialized"
    /\ \A s \in Saves : version[s] = "materialized" \/ s \in pins => objFile

ObjectsInv ==
    /\ ObjectsTypeOK
    /\ Alone
    /\ MarkHolds
    /\ HeldIsThere
    /\ deaths = 0 => UseHolds

\* Once disturbed, only the types are left.
WatchedObjectsInv == ObjectsTypeOK /\ (disturbed \/ ObjectsInv)

-----------------------------------------------------------------------------
LEMMA TypesStart == ObjectsInit => ObjectsTypeOK
  <1> SUFFICES ASSUME ObjectsInit PROVE ObjectsTypeOK
    OBVIOUS
  <1>1. objFile \in BOOLEAN /\ MaxDeaths \in Nat
    BY WorkspaceObjectsAssumption DEF ObjectsInit
  <1>2. /\ save = [s \in Saves |-> "idle"] /\ version = [s \in Saves |-> "none"]
        /\ gcStep = [c \in Collectors |-> "idle"] /\ gcOf = [c \in Collectors |-> NoVersion]
        /\ objRow = "none" /\ heads = {} /\ pins = {} /\ objClaim = Nobody /\ deaths = 0
    BY DEF ObjectsInit
  <1> QED  BY <1>1, <1>2 DEF ObjectsTypeOK

LEMMA SaverTypes == ASSUME ObjectsTypeOK, NEW s \in Saves, Saver(s) \/ User(s) PROVE ObjectsTypeOK'
  <1> USE DEF ObjectsTypeOK, SaveGoes, entryRows, collection
  <1>1. CASE BeginSave(s) \/ CheckObject(s) \/ InstallSave(s) \/ FailSave(s)
    BY <1>1 DEF BeginSave, CheckObject, InstallSave, FailSave
  <1>2. CASE KeepContent(s) \/ RecordSave(s)
    BY <1>2 DEF KeepContent, RecordSave
  <1>3. CASE User(s)
    BY <1>3 DEF User, ReplaceHead, ProtectVersion, ReleaseVersion, DeleteVersions
  <1> QED  BY <1>1, <1>2, <1>3 DEF Saver

LEMMA GcTypes ==
    ASSUME ObjectsTypeOK, NEW c \in Collectors,
           Collect(c) \/ CollectorDies(c) \/ ClaimLapses
             \/ \E target \in Saves \cup {NoVersion} : TakeObject(c, target)
    PROVE  ObjectsTypeOK'
  <1> USE DEF ObjectsTypeOK, GcGoes, GcStops, entryRows, collection
  <1>1. CASE LookAtVersion(c)
    BY <1>1 DEF LookAtVersion, MarkOrWait, MarkPruning
  <1>2. CASE LookAtObject(c)
    BY <1>2 DEF LookAtObject, MarkOrWait, MarkPruning
  <1>3. CASE Mark(c)
    BY <1>3 DEF Mark, MarkPruning
  <1>8. CASE RemoveContent(c)
    <2>1. objFile' \in BOOLEAN
      BY <1>8 DEF RemoveContent
    <2>2. /\ gcStep' = [gcStep EXCEPT ![c] = "removed"]
          /\ UNCHANGED <<objRow, save, version, heads, pins, objClaim, gcOf, deaths>>
      BY <1>8 DEF RemoveContent
    <2> QED  BY <2>1, <2>2
  <1>4. CASE FinishPruning(c)
    BY <1>4 DEF FinishPruning
  <1>5. CASE CollectorDies(c)
    BY <1>5, WorkspaceObjectsAssumption DEF CollectorDies
  <1>6. CASE ClaimLapses
    BY <1>6 DEF ClaimLapses
  <1>7. ASSUME NEW target \in Saves \cup {NoVersion}, TakeObject(c, target) PROVE ObjectsTypeOK'
    BY <1>7 DEF TakeObject
  <1> QED  BY <1>1, <1>2, <1>3, <1>4, <1>5, <1>6, <1>7, <1>8 DEF Collect

\* The types of the object, the saves, the versions and the collectors.
THEOREM ObjectsTypeCorrect == ObjectsSpec => []ObjectsTypeOK
  <1>1. ObjectsTypeOK /\ [ObjectsNext]_objVars => ObjectsTypeOK'
    <2> SUFFICES ASSUME ObjectsTypeOK, [ObjectsNext]_objVars PROVE ObjectsTypeOK'
      OBVIOUS
    <2>1. CASE UNCHANGED objVars
      BY <2>1 DEF objVars, ObjectsTypeOK
    <2>2. CASE ClaimLapses
      BY <2>2 DEF ClaimLapses, ObjectsTypeOK, entryRows
    <2> QED  BY <2>1, <2>2, SaverTypes, GcTypes DEF ObjectsNext
  <1> QED  BY <1>1, TypesStart, PTL DEF ObjectsSpec

-----------------------------------------------------------------------------
(* Each step, as long as it leaves one collector at work and lets no save   *)
(* past its check while one is about to mark.                               *)

LEMMA SaverKeeps ==
    ASSUME ObjectsInv, ObjectsTypeOK', KeptOut', NEW s \in Saves, Saver(s)
    PROVE  ObjectsInv'
  <1>0. Alone' /\ deaths' = deaths /\ UNCHANGED <<gcStep, gcOf, pins>> /\ LockedObject' = LockedObject
    BY DEF ObjectsInv, Alone, LockedObject, Saver, BeginSave, CheckObject, InstallSave, FailSave,
           KeepContent, RecordSave, entryRows, collection
  <1> USE DEF ObjectsInv, ObjectsTypeOK, MarkHolds, HeldIsThere, HeadsHaveContent, UseHolds,
              SaveGoes, entryRows, collection, KeptOut, PastCheck
  <1>1. CASE BeginSave(s) \/ CheckObject(s) \/ InstallSave(s) \/ FailSave(s)
    BY <1>0, <1>1 DEF BeginSave, CheckObject, InstallSave, FailSave
  <1>2. CASE KeepContent(s)
    BY <1>0, <1>2 DEF KeepContent
  <1>3. CASE RecordSave(s)
    <2>1. objFile /\ ~LockedObject /\ objRow # "pruning" /\ objRow' = "materialized" /\ objFile' = objFile
      BY <1>3 DEF RecordSave
    <2>2. \A c \in Collectors : gcStep[c] \notin {"looked", "marked", "removed"}
      BY <2>1 DEF LockedObject
    <2> QED  BY <1>0, <1>3, <2>1, <2>2 DEF RecordSave
  <1> QED  BY <1>1, <1>2, <1>3 DEF Saver

LEMMA UserKeeps ==
    ASSUME ObjectsInv, ObjectsTypeOK', NEW s \in Saves, User(s)
    PROVE  ObjectsInv'
  <1>0. /\ Alone' /\ UNCHANGED <<deaths, gcStep, gcOf, objRow, objFile, save>>
        /\ LockedObject' = LockedObject /\ PastCheck' = PastCheck
    BY DEF ObjectsInv, Alone, LockedObject, PastCheck, User, ReplaceHead, ProtectVersion,
           ReleaseVersion, DeleteVersions, collection
  <1> USE DEF ObjectsInv, ObjectsTypeOK, MarkHolds, HeldIsThere, HeadsHaveContent, UseHolds
  <1>1. CASE ReplaceHead(s)
    BY <1>0, <1>1 DEF ReplaceHead
  <1>2. CASE ProtectVersion(s)
    BY <1>0, <1>2 DEF ProtectVersion, LockedVersion
  <1>3. CASE ReleaseVersion(s)
    BY <1>0, <1>3 DEF ReleaseVersion
  <1>4. CASE DeleteVersions(s)
    BY <1>0, <1>4 DEF DeleteVersions
  <1> QED  BY <1>1, <1>2, <1>3, <1>4 DEF User

-----------------------------------------------------------------------------
(* Collection.  Only one collector is at work, so that a step of c meets   *)
(* no other one's mark.                                                    *)

LEMMA OnlyOne ==
    ASSUME ObjectsInv, NEW c \in Collectors, gcStep[c] # "idle"
    PROVE  \A k \in Collectors : gcStep[k] # "idle" => k = c
  BY DEF ObjectsInv, Alone

\* A collector at work that leaves leaves none behind.
LEMMA NoneLeft ==
    ASSUME ObjectsInv, NEW c \in Collectors, gcStep[c] # "idle", GcStops(c)
    PROVE  (\A k \in Collectors : gcStep'[k] = "idle") /\ ~LockedObject'
  <1>1. \A k \in Collectors : gcStep'[k] = "idle"
    BY OnlyOne DEF ObjectsInv, ObjectsTypeOK, GcStops, GcGoes
  <1> QED  BY <1>1 DEF LockedObject

\* The mark comes when nothing refers to the content and no other version has it.
LEMMA Marked ==
    ASSUME ObjectsInv, ObjectsTypeOK', Alone', NEW c \in Collectors, gcStep[c] \in {"claimed", "looked"},
           heads = {} /\ PastCheck = {},
           deaths = 0 => pins = {} /\ \A k \in Saves : version[k] = "materialized" => k = gcOf[c],
           MarkPruning(c)
    PROVE  ObjectsInv'
  <1>1. /\ objRow' = "pruning" /\ gcStep' = [gcStep EXCEPT ![c] = "marked"]
        /\ version' = [s \in Saves |-> IF s = gcOf[c] THEN "pruning" ELSE version[s]]
        /\ UNCHANGED <<objFile, save, heads, pins, objClaim, gcOf, deaths>>
    BY DEF MarkPruning, GcGoes
  <1>2. gcStep'[c] = "marked" /\ \A k \in Collectors \ {c} : gcStep'[k] = "idle"
    BY <1>1, OnlyOne DEF ObjectsInv, ObjectsTypeOK
  <1>3. heads' = {} /\ PastCheck' = {} /\ \A s \in Saves : save'[s] # "kept"
    BY <1>1 DEF PastCheck
  <1>4. MarkHolds' /\ HeldIsThere'
    BY <1>1, <1>3 DEF MarkHolds, HeldIsThere, HeadsHaveContent
  <1>5. ASSUME deaths' = 0 PROVE UseHolds'
    <2>1. ASSUME NEW s \in Saves, version'[s] = "pruning" PROVE gcOf'[c] = s
      <3>1. CASE s # gcOf[c]
        <4>1. version[s] = "pruning" /\ deaths = 0
          BY <1>1, <1>5, <2>1, <3>1
        <4>2. PICK k \in Collectors : gcStep[k] \in {"marked", "removed"}
          BY <4>1 DEF ObjectsInv, UseHolds
        <4> QED  BY <4>2, OnlyOne
      <3> QED  BY <1>1, <3>1
    <2>2. pins' = {} /\ \A s \in Saves : version'[s] # "materialized"
      BY <1>1, <1>5
    <2>3. \A k \in Collectors : gcStep'[k] # "looked"
      BY <1>2
    <2> QED  BY <1>2, <2>1, <2>2, <2>3 DEF UseHolds
  <1> QED  BY <1>4, <1>5 DEF ObjectsInv

\* Or it waits, and the same is known until it marks.
LEMMA Waiting ==
    ASSUME ObjectsInv, ObjectsTypeOK', Alone', NEW c \in Collectors, gcStep[c] = "claimed",
           Protected = {}, \A k \in Saves : version[k] = "materialized" => k = gcOf[c],
           GcGoes(c, "looked"), UNCHANGED <<objRow, objFile, save, entryRows, objClaim, gcOf, deaths>>
    PROVE  ObjectsInv'
  <1>1. heads = {} /\ pins = {} /\ PastCheck = {}
    BY DEF Protected, References, Saving, PastCheck
  <1>2. gcStep'[c] = "looked" /\ \A k \in Collectors \ {c} : gcStep'[k] = "idle" /\ gcStep[k] = "idle"
    BY OnlyOne DEF ObjectsInv, ObjectsTypeOK, GcGoes
  <1>3. UNCHANGED <<objRow, objFile, save, version, heads, pins, gcOf, deaths>>
    BY DEF entryRows
  <1>4. MarkHolds' /\ HeldIsThere'
    <2>1. \A k \in Collectors : gcStep'[k] \notin {"marked", "removed"}
      BY <1>2
    <2>2. heads' = {} /\ PastCheck' = {}
      BY <1>1, <1>3 DEF PastCheck
    <2> QED  BY <1>3, <2>1, <2>2 DEF MarkHolds, HeldIsThere, HeadsHaveContent, ObjectsInv
  <1>5. ASSUME deaths' = 0 PROVE UseHolds'
    <2>1. UseHolds
      BY <1>3, <1>5 DEF ObjectsInv
    <2>2. \A s \in Saves : version[s] # "pruning"
      BY <1>2, <2>1 DEF UseHolds
    <2> QED  BY <1>1, <1>2, <1>3, <2>1, <2>2 DEF UseHolds
  <1> QED  BY <1>4, <1>5 DEF ObjectsInv

\* While a collector has not marked anything, no version is being removed and
\* none that is kept has lost its content.
LEMMA Unmarked ==
    ASSUME ObjectsInv, deaths = 0, NEW c \in Collectors, gcStep[c] = "claimed"
    PROVE  \A s \in Saves : version[s] # "pruning"
  BY OnlyOne DEF ObjectsInv, UseHolds

LEMMA LookKeeps ==
    ASSUME ObjectsInv, ObjectsTypeOK', Alone', NEW c \in Collectors,
           LookAtVersion(c) \/ LookAtObject(c)
    PROVE  ObjectsInv'
  <1>0. gcStep[c] = "claimed"
    BY DEF LookAtVersion, LookAtObject
  <1>1. CASE /\ MarkOrWait(c) /\ Protected = {}
             /\ \A k \in Saves : version[k] = "materialized" => k = gcOf[c]
    <2>1. CASE Windowed
      BY <1>0, <1>1, <2>1, Waiting DEF MarkOrWait
    <2>2. CASE ~Windowed
      <3>1. heads = {} /\ pins = {} /\ PastCheck = {}
        BY <1>1 DEF Protected, References, Saving, PastCheck
      <3> QED  BY <1>0, <1>1, <2>2, <3>1, Marked DEF MarkOrWait
    <2> QED  BY <2>1, <2>2
  <1>2. CASE GcStops(c) /\ UNCHANGED <<objRow, objFile, save, entryRows, deaths>>
    <2>1. (\A k \in Collectors : gcStep'[k] = "idle") /\ ~LockedObject'
      BY <1>0, <1>2, NoneLeft
    <2>2. Alone' /\ MarkHolds' /\ HeldIsThere'
      BY <1>2, <2>1 DEF ObjectsInv, MarkHolds, HeldIsThere, HeadsHaveContent, PastCheck, entryRows
    <2>3. deaths' = 0 => UseHolds'
      BY <1>0, <1>2, <2>1, Unmarked DEF ObjectsInv, UseHolds, entryRows
    <2> QED  BY <2>2, <2>3 DEF ObjectsInv
  <1>3. CASE /\ GcStops(c) /\ UNCHANGED <<objRow, objFile, save, heads, pins, deaths>>
             /\ gcOf[c] \in Saves /\ version[gcOf[c]] \in {"materialized", "pruning"}
             /\ \E state \in {"materialized", "pruned"} : version' = [version EXCEPT ![gcOf[c]] = state]
    <2>1. (\A k \in Collectors : gcStep'[k] = "idle") /\ ~LockedObject'
      BY <1>0, <1>3, NoneLeft
    <2>2. Alone' /\ MarkHolds' /\ HeldIsThere'
      BY <1>3, <2>1 DEF ObjectsInv, MarkHolds, HeldIsThere, HeadsHaveContent, PastCheck
    <2>3. ASSUME deaths' = 0 PROVE UseHolds'
      <3>1. deaths = 0 /\ \A s \in Saves : version[s] # "pruning"
        BY <1>0, <1>3, <2>3, Unmarked
      <3>2. version[gcOf[c]] = "materialized"
        BY <1>3, <3>1
      <3>3. \A s \in Saves : version'[s] # "pruning" /\ (version'[s] = "materialized" => version[s] = "materialized")
        BY <1>3, <3>1, <3>2 DEF ObjectsInv, ObjectsTypeOK
      <3> QED  BY <1>3, <2>1, <3>1, <3>3 DEF ObjectsInv, UseHolds
    <2> QED  BY <2>2, <2>3 DEF ObjectsInv
  <1>4. CASE /\ GcStops(c) /\ UNCHANGED <<objFile, save, entryRows, deaths>>
             /\ objRow' = "materialized"
    <2>1. (\A k \in Collectors : gcStep'[k] = "idle") /\ ~LockedObject'
      BY <1>0, <1>4, NoneLeft
    <2>2. Alone' /\ MarkHolds' /\ HeldIsThere'
      BY <1>4, <2>1 DEF ObjectsInv, MarkHolds, HeldIsThere, HeadsHaveContent, entryRows
    <2>3. deaths' = 0 => UseHolds'
      BY <1>0, <1>4, <2>1, Unmarked DEF ObjectsInv, UseHolds, entryRows
    <2> QED  BY <2>2, <2>3 DEF ObjectsInv
  <1>5. CASE LookAtVersion(c)
    <2>1. gcOf[c] \in Saves
      BY <1>5 DEF LookAtVersion, ObjectsInv, ObjectsTypeOK
    <2> QED  BY <1>1, <1>2, <1>3, <1>5, <2>1 DEF LookAtVersion
  <1>6. CASE LookAtObject(c)
    <2>1. Alive = {} => \A k \in Saves : version[k] # "materialized"
      BY DEF Alive
    <2> QED  BY <1>1, <1>2, <1>4, <1>6, <2>1 DEF LookAtObject
  <1> QED  BY <1>5, <1>6

LEMMA RemovalKeeps ==
    ASSUME ObjectsInv, ObjectsTypeOK', Alone', NEW c \in Collectors,
           Mark(c) \/ RemoveContent(c) \/ FinishPruning(c) \/ CollectorDies(c)
    PROVE  ObjectsInv'
  <1>0. CASE Mark(c)
    <2>1. gcStep[c] = "looked" /\ LockedObject
      BY <1>0 DEF Mark, LockedObject
    <2>2. /\ heads = {} /\ PastCheck = {}
          /\ deaths = 0 => pins = {} /\ \A k \in Saves : version[k] = "materialized" => k = gcOf[c]
      BY <2>1 DEF ObjectsInv, MarkHolds, UseHolds
    <2> QED  BY <1>0, <2>1, <2>2, Marked DEF Mark
  <1>1. CASE RemoveContent(c)
    <2>1. /\ objRow = "pruning" /\ heads = {} /\ PastCheck = {}
          /\ deaths = 0 => pins = {} /\ \A s \in Saves : version[s] # "materialized"
      BY <1>1 DEF RemoveContent, ObjectsInv, MarkHolds, UseHolds
    <2>2. gcStep' = [gcStep EXCEPT ![c] = "removed"]
          /\ gcStep \in [Collectors -> {"idle", "claimed", "looked", "marked", "removed"}]
      BY <1>1 DEF RemoveContent, GcGoes, ObjectsInv, ObjectsTypeOK
    <2>3. UNCHANGED <<objRow, save, version, heads, pins, gcOf, deaths>>
      BY <1>1 DEF RemoveContent, entryRows
    <2>4. PastCheck' = {} /\ \A s \in Saves : save[s] # "kept"
      BY <2>1, <2>3 DEF PastCheck
    <2>5. MarkHolds' /\ HeldIsThere'
      BY <2>1, <2>3, <2>4 DEF MarkHolds, HeldIsThere, HeadsHaveContent
    <2>6. deaths' = 0 => UseHolds'
      BY <1>1, <2>1, <2>2, <2>3 DEF RemoveContent, ObjectsInv, UseHolds
    <2> QED  BY <2>5, <2>6 DEF ObjectsInv
  <1>2. CASE FinishPruning(c)
    <2>1. (\A k \in Collectors : gcStep'[k] = "idle") /\ ~LockedObject' /\ objRow = "pruning"
      BY <1>2, NoneLeft DEF FinishPruning, ObjectsInv, MarkHolds
    <2>2. objRow' \in {"pruning", "pruned"} /\ UNCHANGED <<objFile, save, heads, pins, deaths>>
      BY <1>2, <2>1 DEF FinishPruning
    <2>3. MarkHolds' /\ HeldIsThere'
      BY <2>1, <2>2 DEF ObjectsInv, MarkHolds, HeldIsThere, HeadsHaveContent, PastCheck
    <2>4. ASSUME deaths' = 0 PROVE UseHolds'
      <3>1. \A s \in Saves : version[s] # "materialized" /\ s \notin pins
        BY <2>1, <2>2, <2>4 DEF ObjectsInv, UseHolds
      <3>2. \A s \in Saves : version[s] = "pruning" => s = gcOf[c]
        BY <1>2, <2>2, <2>4, OnlyOne DEF FinishPruning, ObjectsInv, UseHolds
      <3>3. \A s \in Saves : version'[s] \notin {"pruning", "materialized"}
        BY <1>2, <2>1, <3>1, <3>2 DEF FinishPruning
      <3>4. objRow' = "pruning" => pins' = {}
        BY <2>1, <2>2, <2>4 DEF ObjectsInv, UseHolds
      <3>5. \A s \in Saves : s \notin pins'
        BY <2>2, <3>1
      <3> QED  BY <2>1, <3>3, <3>4, <3>5 DEF UseHolds
    <2> QED  BY <2>3, <2>4 DEF ObjectsInv
  <1>3. CASE CollectorDies(c)
    <2>1. deaths' # 0
      BY <1>3, WorkspaceObjectsAssumption DEF CollectorDies, ObjectsInv, ObjectsTypeOK
    <2>2. MarkHolds' /\ HeldIsThere'
      BY <1>3 DEF CollectorDies, GcGoes, entryRows, ObjectsInv, ObjectsTypeOK, MarkHolds,
                  HeldIsThere, HeadsHaveContent, LockedObject, PastCheck
    <2> QED  BY <2>1, <2>2 DEF ObjectsInv
  <1> QED  BY <1>0, <1>1, <1>2, <1>3

\* One that begins is the only one at work, or it would disturb.
LEMMA TakeKeeps ==
    ASSUME ObjectsInv, ObjectsTypeOK', Alone', NEW c \in Collectors, NEW target \in Saves \cup {NoVersion},
           TakeObject(c, target)
    PROVE  ObjectsInv'
  <1>1. gcStep' = [gcStep EXCEPT ![c] = "claimed"] /\ gcStep'[c] = "claimed" /\ gcStep[c] = "idle"
    BY DEF TakeObject, GcGoes, ObjectsInv, ObjectsTypeOK
  <1>2. \A k \in Collectors \ {c} : gcStep'[k] = gcStep[k] /\ gcStep'[k] = "idle"
    BY <1>1 DEF Alone, ObjectsInv, ObjectsTypeOK
  <1>3. UNCHANGED <<objRow, objFile, save, version, heads, pins, deaths>>
    BY DEF TakeObject, entryRows
  <1>4. \A k \in Collectors : gcStep[k] = "idle" /\ gcStep'[k] \in {"idle", "claimed"}
    BY <1>1, <1>2
  <1>5. ~LockedObject'
    BY <1>4 DEF LockedObject
  <1>6. MarkHolds' /\ HeldIsThere'
    BY <1>3, <1>4, <1>5 DEF ObjectsInv, MarkHolds, HeldIsThere, HeadsHaveContent, PastCheck
  <1>7. deaths' = 0 => UseHolds'
    BY <1>3, <1>4 DEF ObjectsInv, UseHolds
  <1> QED  BY <1>6, <1>7 DEF ObjectsInv

LEMMA StepKeeps ==
    ASSUME ObjectsInv, ObjectsTypeOK', Alone', KeptOut', ObjectsNext
    PROVE  ObjectsInv'
  <1>1. ASSUME NEW s \in Saves, Saver(s) \/ User(s) PROVE ObjectsInv'
    BY <1>1, SaverKeeps, UserKeeps
  <1>2. ASSUME NEW c \in Collectors, Collect(c) \/ CollectorDies(c) PROVE ObjectsInv'
    BY <1>2, LookKeeps, RemovalKeeps DEF Collect
  <1>3. ASSUME NEW c \in Collectors, NEW target \in Saves \cup {NoVersion}, TakeObject(c, target)
        PROVE  ObjectsInv'
    BY <1>3, TakeKeeps
  <1>4. CASE ClaimLapses
    BY <1>4 DEF ClaimLapses, entryRows, ObjectsInv, ObjectsTypeOK, Alone, MarkHolds, HeldIsThere,
                HeadsHaveContent, UseHolds, LockedObject, PastCheck
  <1> QED  BY <1>1, <1>2, <1>3, <1>4 DEF ObjectsNext

\* The types always hold, and until something disturbs it the row of the object
\* keeps saves and heads away from a removal.
THEOREM WatchedObjectsInvariance == WatchedObjectsSpec => []WatchedObjectsInv
  <1>1. WatchedObjectsInit => WatchedObjectsInv
    BY TypesStart DEF WatchedObjectsInit, ObjectsInit, WatchedObjectsInv, ObjectsInv, Alone, MarkHolds,
                      HeldIsThere, HeadsHaveContent, UseHolds, LockedObject, PastCheck
  <1>2. WatchedObjectsInv /\ [WatchedObjectsNext]_<<objVars, disturbed>> => WatchedObjectsInv'
    <2> SUFFICES ASSUME WatchedObjectsInv, [WatchedObjectsNext]_<<objVars, disturbed>>
                 PROVE  WatchedObjectsInv'
      OBVIOUS
    <2>0. ObjectsTypeOK
      BY DEF WatchedObjectsInv
    <2>1. CASE UNCHANGED <<objVars, disturbed>>
      BY <2>1 DEF objVars, WatchedObjectsInv, ObjectsInv, ObjectsTypeOK, Alone, MarkHolds, HeldIsThere,
                  HeadsHaveContent, UseHolds, LockedObject, PastCheck
    <2>2. CASE WatchedObjectsNext
      <3>1. ObjectsNext /\ (disturbed' <=> disturbed \/ ~Alone' \/ ~KeptOut')
        BY <2>2 DEF WatchedObjectsNext
      <3>2. ObjectsTypeOK'
        <4>1. CASE ClaimLapses
          BY <2>0, <4>1 DEF ClaimLapses, ObjectsTypeOK, entryRows
        <4> QED  BY <2>0, <3>1, <4>1, SaverTypes, GcTypes DEF ObjectsNext
      <3>3. disturbed' \/ ObjectsInv'
        BY <3>1, <3>2, StepKeeps DEF WatchedObjectsInv
      <3> QED  BY <3>2, <3>3 DEF WatchedObjectsInv
    <2> QED  BY <2>1, <2>2
  <1> QED  BY <1>1, <1>2, PTL DEF WatchedObjectsSpec

\* Until two collectors were at work or a save got past its check while one was
\* about to mark, the content of a head is in the sandbox, and so is that of
\* every version in use as long as no collector died (_run_history_gc).
THEOREM ContentIsKeptUndisturbed == WatchedObjectsSpec => [](disturbed \/ ContentIsKept)
  <1>1. WatchedObjectsInv => disturbed \/ ContentIsKept
    BY DEF WatchedObjectsInv, ObjectsInv, HeldIsThere, UseHolds, ContentIsKept
  <1> QED  BY <1>1, WatchedObjectsInvariance, PTL

=============================================================================
