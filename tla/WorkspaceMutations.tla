------------------------- MODULE WorkspaceMutations -------------------------
(***************************************************************************)
(* The changes of one user's workspace: each is a journal row ("prepared"),*)
(* durable claims with generations, one fenced script in the sandbox and   *)
(* one database transaction that records it.  A change whose owner is gone *)
(* is taken over and settled by a reconciler that looks at the files.      *)
(*                                                                         *)
(* There is the root, at most one directory below it, and files in both.   *)
(* What a change creates has its own name as entry id.  A text is the set  *)
(* of contributions it holds, one byte each: a draft adds the contribution *)
(* of its request at a place in the text, which may be the place of others;*)
(* a three-way merge goes place by place, a restored version is an earlier *)
(* set.  A token is issued with every generation, so a generation stands   *)
(* for both.                                                               *)
(***************************************************************************)
EXTENDS Naturals, Integers, FiniteSets, FiniteSetsExt

CONSTANTS Mutations,    \* the requests
          Reconcilers,  \* processes that settle what others left
          Files,        \* files there are at first
          Folder,       \* the directory there may be at first
          Names,        \* names of files
          Dirs,         \* names the directory may have
          Top,          \* the root directory
          Nothing,      \* no text, no directory
          Places,       \* places more than one contribution is made at
          Unmergeable,  \* drafts that are not merged when their base is not current
          Quota,        \* quota_bytes
          MaxFaults     \* stalls, crashes, lost replies and foreign edits

Entries == Files \cup Mutations
Folders == {Folder} \cup Mutations
Paths == ({Top} \cup Dirs) \X Names

ASSUME WorkspaceAssumption ==
    /\ Files \cap Mutations = {}
    /\ Folder \notin Entries
    /\ Nothing \notin {Top} \cup Dirs \cup Entries \cup Folders \cup Paths
    /\ Top \notin Dirs \cup Folders
    /\ Names \cap Dirs = {}
    /\ Quota \in Nat
    /\ MaxFaults \in Nat

\* The database has finitely many rows, and what there is at first fits: the
\* quota is set as the workspace is made and stays.
ASSUME RoomAssumption ==
    /\ IsFiniteSet(Files) /\ IsFiniteSet(Mutations)
    /\ Cardinality(Files) <= Quota

\* No file is something else than a file with an empty text.
ASSUME NothingAssumption == \A text \in SUBSET Entries : text # Nothing

\* A contribution is made at one place.
ASSUME PlacesAssumption == \A P, Q \in Places : P = Q \/ P \cap Q = {}

VARIABLES
    wsStatus,  \* UserWorkspace.status
    tree,      \* entry -> its row: path, text (sha256), rev
    folder,    \* the directory's row: id, name and revisions
    used,      \* UserWorkspace.used_bytes
    state,     \* WorkspaceMutation.state
    plan,      \* the journal, frozen before the claims are asked for
    intent,    \* the request whose idempotency key this one carries
    hold,      \* generations of the claims its owner was given
    turn,      \* times the claims have been taken over since
    lapsed,    \* the leases of the claims have run out
    gen,       \* scope -> latest generation in the database
    marker,    \* scope -> generation in the sandbox's fence directory
    disk,      \* path -> text in the sandbox
    dirs,      \* directories in the sandbox
    phase,     \* where the request of a change is
    rec,       \* what a reconciler is at
    faults,    \* faults so far
    drifted    \* a file was changed by somebody else

tables == <<tree, folder, used>>
journal == <<state, plan, intent>>
claims == <<hold, turn, lapsed, gen>>
store == <<disk, dirs>>
trouble == <<faults, drifted>>
wsVars == <<wsStatus, tables, journal, claims, marker, store, phase, rec, trouble>>

-----------------------------------------------------------------------------
(* Entries and journals.                                                   *)

Gone == [path |-> Nothing, text |-> Nothing, rev |-> 0]
NoFolder == [id |-> Nothing, name |-> Nothing, rev |-> 0]
NoPlan == [op |-> "none", before |-> <<>>, after |-> <<>>, base |-> NoFolder, to |-> Nothing]
Idle == [step |-> "idle", of |-> Nothing, turn |-> 0, verdict |-> "none"]

Bytes(row) == IF row = Gone THEN 0 ELSE Cardinality(row.text)
Items(p) == DOMAIN p.before
Present == {e \in Entries : tree[e] # Gone}
Inside(path) == path # Nothing /\ path[1] # Top
There(path) == path[1] \in {Top, folder.name}
Empty(path) == There(path) /\ \A e \in Present : tree[e].path # path
Vacancies == {q \in Paths : Empty(q)}
Listing == {e \in Present : Inside(tree[e].path)}

\* The directory as it was read, when the change is one of its own or makes an
\* entry in it: a base projection, compared again when the change begins.
ParentOf(path) == IF Inside(path) THEN folder ELSE NoFolder

Edit(e, text) ==
    [op |-> "write", before |-> [i \in {e} |-> tree[e]],
     after |-> [i \in {e} |-> [tree[e] EXCEPT !.text = text, !.rev = @ + 1]],
     base |-> NoFolder, to |-> tree[e].path]

\* A file is made: created, uploaded, or published where there was none.
CreatePlans(m) ==
    {[op |-> "create", before |-> [i \in {m} |-> Gone],
      after |-> [i \in {m} |-> [path |-> q, text |-> {m}, rev |-> 1]],
      base |-> ParentOf(q), to |-> q] : q \in Vacancies}

MkdirPlans ==
    IF folder = NoFolder
    THEN {[op |-> "mkdir", before |-> <<>>, after |-> <<>>, base |-> NoFolder, to |-> d] : d \in Dirs}
    ELSE {}

\* A version the file had: the texts of the journals that changed it.
Versions(e) ==
    UNION {{plan[n].before[e].text, plan[n].after[e].text} :
              n \in {k \in Mutations : state[k] = "completed" /\ plan[k].op = "write" /\ e \in Items(plan[k])}}

RestorePlans ==
    UNION {{Edit(e, text) : text \in Versions(e) \ {tree[e].text}} : e \in Present}

MovePlans ==
    UNION {{[op |-> "move", before |-> [i \in {e} |-> tree[e]],
             after |-> [i \in {e} |-> [tree[e] EXCEPT !.path = q, !.rev = @ + 1]],
             base |-> ParentOf(q), to |-> q] : q \in Vacancies} : e \in Present}

MoveTreePlans ==
    IF folder = NoFolder THEN {}
    ELSE {[op |-> "move tree", before |-> [i \in Listing |-> tree[i]],
           after |-> [i \in Listing |-> [tree[i] EXCEPT !.path = <<d, @[2]>>, !.rev = @ + 1]],
           base |-> folder, to |-> d] : d \in Dirs \ {folder.name}}

\* A batch of files, or the directory with what is below it and other files.
DeletePlans ==
    {[op |-> "delete", before |-> [i \in S |-> tree[i]], after |-> [i \in S |-> Gone],
      base |-> NoFolder, to |-> Nothing] : S \in (SUBSET Present) \ {{}}}
    \cup (IF folder = NoFolder THEN {} ELSE
          {[op |-> "delete tree", before |-> [i \in S |-> tree[i]], after |-> [i \in S |-> Gone],
            base |-> folder, to |-> Nothing] : S \in {R \in SUBSET Present : Listing \subseteq R}})

Prepared == {m \in Mutations : state[m] = "prepared"}
OnTree(p) == p.op \in {"move tree", "delete tree"}
Delta(p) == MapThenSumSet(LAMBDA i : Bytes(p.after[i]) - Bytes(p.before[i]), Items(p))
Reserved(p) == IF Delta(p) > 0 THEN Delta(p) ELSE 0
Touched(p) == {p.before[i].path : i \in Items(p)} \cup {p.after[i].path : i \in Items(p)}

-----------------------------------------------------------------------------
(* Claims.                                                                 *)

FileScope(e) == <<"file", e>>
TreeScope(f) == <<"tree", f>>
PathScope(f, name) == <<"path", f, name>>
Scopes ==
    {FileScope(e) : e \in Entries} \cup {TreeScope(f) : f \in Folders}
    \cup {PathScope(f, name) : f \in {Top} \cup Folders, name \in Names \cup Dirs}

ScopeOf(p) == PathScope(IF Inside(p.to) THEN p.base.id ELSE Top, p.to[2])

Claims(p) ==
    CASE p.op = "create" -> {ScopeOf(p)}
      [] p.op = "mkdir" -> {PathScope(Top, p.to)}
      [] p.op = "move" -> {FileScope(i) : i \in Items(p)} \cup {ScopeOf(p)}
      [] p.op \in {"write", "delete"} -> {FileScope(i) : i \in Items(p)}
      [] p.op = "move tree" -> {TreeScope(p.base.id), PathScope(Top, p.to)}
      [] p.op = "delete tree" ->
            {TreeScope(p.base.id)} \cup {FileScope(i) : i \in {j \in Items(p) : ~Inside(p.before[j].path)}}
      [] OTHER -> {}

\* Mutant: the trees above and the files below are not looked at.
ConflictsOwn(p) == Claims(p)

\* conflict_scope_keys: the trees above; conflict_entry_ids: everything below.
Conflicts(p) ==
    Claims(p)
    \cup (IF \E path \in Touched(p) : Inside(path) THEN {TreeScope(f) : f \in {folder.id} \ {Nothing}} ELSE {})
    \cup (IF OnTree(p)
          THEN {FileScope(i) : i \in Items(p)} \cup {PathScope(p.base.id, name) : name \in Names}
          ELSE {})

Active == UNION {Claims(plan[m]) : m \in Prepared}

-----------------------------------------------------------------------------
WsInit ==
    /\ wsStatus = "active"
    /\ \E d \in Dirs : folder \in {NoFolder, [id |-> Folder, name |-> d, rev |-> 1]}
    /\ dirs = {folder.name} \ {Nothing}
    /\ \E place \in [Files -> {q \in Paths : There(q)}] :
          /\ \A e, f \in Files : place[e] = place[f] => e = f
          /\ tree = [e \in Entries |->
                        IF e \in Files THEN [path |-> place[e], text |-> {e}, rev |-> 1] ELSE Gone]
          /\ disk = [q \in Paths |-> IF \E e \in Files : place[e] = q
                                     THEN {e \in Files : place[e] = q} ELSE Nothing]
    /\ used = Cardinality(Files)
    /\ state = [m \in Mutations |-> "none"]
    /\ plan = [m \in Mutations |-> NoPlan]
    /\ intent = [m \in Mutations |-> m]
    /\ hold = [m \in Mutations |-> <<>>]
    /\ turn = [m \in Mutations |-> 0]
    /\ lapsed = [m \in Mutations |-> FALSE]
    /\ gen = [s \in Scopes |-> 0]
    /\ marker = [s \in Scopes |-> 0]
    /\ phase = [m \in Mutations |-> "idle"]
    /\ rec = [r \in Reconcilers |-> Idle]
    /\ faults = 0 /\ drifted = FALSE

-----------------------------------------------------------------------------
(* The request: read, begin, run the script, record.                       *)

Fault == faults < MaxFaults /\ faults' = faults + 1 /\ UNCHANGED drifted

\* An operation but an edit: rows are read and the journal is planned outside
\* any transaction.
Read(m) ==
    /\ phase[m] = "idle"
    /\ \E p \in CreatePlans(m) \cup MkdirPlans \cup RestorePlans \cup MovePlans \cup MoveTreePlans \cup DeletePlans :
          plan' = [plan EXCEPT ![m] = p]
    /\ phase' = [phase EXCEPT ![m] = "read"]
    /\ UNCHANGED <<wsStatus, tables, state, intent, claims, marker, store, rec, trouble>>

\* A draft is started from the text an editor, or a run, has before it.
Draft(m) ==
    /\ phase[m] = "idle"
    /\ \E e \in Present : plan' = [plan EXCEPT ![m] = Edit(e, tree[e].text \cup {m})]
    /\ phase' = [phase EXCEPT ![m] = "editing"]
    /\ UNCHANGED <<wsStatus, tables, state, intent, claims, marker, store, rec, trouble>>

\* A restored version does not hold what its request would contribute.
IsDraft(n) == \E e \in Items(plan[n]) : n \in plan[n].after[e].text

\* A client that had no answer to n sends the same draft again with its key, or
\* asks again for the same version in place of the same revision.
Retry(m, n) ==
    /\ phase[m] = "idle" /\ plan[n].op = "write" /\ phase[n] \notin {"idle", "editing"} /\ intent[n] = n
    /\ plan' = [plan EXCEPT ![m] = plan[n]]
    /\ intent' = [intent EXCEPT ![m] = n]
    /\ phase' = [phase EXCEPT ![m] = IF IsDraft(n) THEN "editing" ELSE "read"]
    /\ UNCHANGED <<wsStatus, tables, state, claims, marker, store, rec, trouble>>

\* Mutant: the key is not looked up.
KeyIsIgnored(m) == m \in Mutations

\* No other request has a row under the key.
KeyIsFree(m) == \A n \in Mutations \ {m} : intent[n] = intent[m] => state[n] = "none"

\* The place in a text where a contribution is made.
Place(c) == {c} \cup UNION {P \in Places : c \in P}

\* Mutant: the last save wins.
MergeOfNothing(m, row) ==
    IF row = Gone THEN {} ELSE plan[m].after[CHOOSE e \in Items(plan[m]) : TRUE].text

\* The draft is sent.  Its base is the current row: a plain write.  The row has
\* moved on: at each place the draft stands where it differs from its base, and
\* the current text elsewhere.  The base version is pruned, or no merge is known
\* for the bytes: the draft as it is.
MergeOf(m, row) ==
    LET base == plan[m].before[CHOOSE e \in Items(plan[m]) : TRUE]
        draft == plan[m].after[CHOOSE e \in Items(plan[m]) : TRUE].text
    IN IF row.rev = base.rev \/ intent[m] \in Unmergeable THEN draft
       ELSE {c \in draft : draft \cap Place(c) # base.text \cap Place(c)}
            \cup {c \in row.text : draft \cap Place(c) = base.text \cap Place(c)}

\* A draft that is refused because its base is just being pruned stays with its
\* editor.
Send(m) ==
    /\ phase[m] = "editing"
    /\ \E e \in Items(plan[m]) :
          IF KeyIsFree(m) /\ e \in Present /\ MergeOf(m, tree[e]) # tree[e].text
          THEN /\ plan' = [plan EXCEPT ![m] = Edit(e, MergeOf(m, tree[e]))]
               /\ phase' = [phase EXCEPT ![m] = "read"]
          ELSE /\ phase' = [phase EXCEPT ![m] = "gone"]
               /\ UNCHANGED plan
    /\ UNCHANGED <<wsStatus, tables, state, intent, claims, marker, store, rec, trouble>>

\* What the journal froze is still there, and where it goes to is free.
Current(p) ==
    /\ \A i \in Items(p) : tree[i] = p.before[i]
    /\ p.base # NoFolder => folder = p.base
Free(p) ==
    /\ p.op \in {"create", "move"} => \A e \in Present \ Items(p) : tree[e].path # p.to
    /\ p.op \in {"mkdir", "move tree"} => folder.name # p.to

\* A bound: there is one directory at a time.
OneFolder(p) ==
    p.op = "mkdir" => folder = NoFolder /\ \A m \in Prepared : plan[m].op # "mkdir"

\* Mutant: what the open changes have reserved is not counted.
HasRoomNow(p) == Reserved(p) > 0 => used + Reserved(p) <= Quota

\* A change that makes the files larger fits beside what open changes reserved.
HasRoom(p) ==
    Reserved(p) > 0 =>
        used + MapThenSumSet(LAMBDA k : Reserved(plan[k]), Prepared) + Reserved(p) <= Quota

Admissible(m) ==
    LET p == plan[m] IN
    /\ wsStatus = "active"
    /\ Conflicts(p) \cap Active = {}
    /\ Current(p) /\ Free(p)
    /\ HasRoom(p)
    /\ KeyIsFree(m)
    /\ OneFolder(p)

\* Claims, compare-and-set, reservation and journal in one transaction.
Begin(m) ==
    /\ phase[m] = "read" /\ Admissible(m)
    /\ state' = [state EXCEPT ![m] = "prepared"]
    /\ hold' = [hold EXCEPT ![m] = [s \in Claims(plan[m]) |-> gen[s] + 1]]
    /\ gen' = [s \in Scopes |-> IF s \in Claims(plan[m]) THEN gen[s] + 1 ELSE gen[s]]
    /\ phase' = [phase EXCEPT ![m] = "begun"]
    /\ UNCHANGED <<wsStatus, tables, plan, intent, turn, lapsed, marker, store, rec, trouble>>

Go(m) ==
    /\ phase' = [phase EXCEPT ![m] = "gone"]
    /\ UNCHANGED <<wsStatus, tables, journal, claims, marker, store, rec>>

BeginRefused(m) == phase[m] = "read" /\ ~Admissible(m) /\ Go(m) /\ UNCHANGED trouble

\* What the owner, or the reconciler of turn t, holds.
Generation(m, t, s) == hold[m][s] + t

\* Mutant: the markers are not compared.
PassesAlways(m, t) == t \in Nat /\ Claims(plan[m]) \subseteq Scopes

\* The script takes the scopes' locks and compares the markers with the
\* generations it was given; an older marker is brought up to date.
Passes(m, t) == \A s \in Claims(plan[m]) : marker[s] <= Generation(m, t, s)
Publish(m, t) ==
    marker' = [s \in Scopes |-> IF s \in Claims(plan[m]) THEN Generation(m, t, s) ELSE marker[s]]

ParentIsThere(path) == path[1] \in {Top} \cup dirs
From(p) == CHOOSE path \in {p.before[i].path : i \in Items(p)} : TRUE
OldText(p) == CHOOSE text \in {p.before[i].text : i \in Items(p)} : TRUE
NewText(p) == CHOOSE text \in {p.after[i].text : i \in Items(p)} : TRUE

\* The destination is as the script expects it to be.
Fits(p) ==
    CASE p.op = "create" -> ParentIsThere(p.to) /\ disk[p.to] = Nothing
      [] p.op = "mkdir" -> p.to \notin dirs
      [] p.op = "write" -> disk[p.to] = OldText(p)
      [] p.op = "move" -> ParentIsThere(p.to) /\ disk[From(p)] # Nothing /\ disk[p.to] = Nothing
      [] p.op = "move tree" -> p.base.name \in dirs /\ p.to \notin dirs
      [] OTHER -> TRUE

\* Of a deletion, the part of the paths that it gets to.
Doomed(p) ==
    {path \in Paths : path \in Touched(p) \/ (p.op = "delete tree" /\ path[1] = p.base.name)}

Erase(p, part) ==
    /\ disk' = [q \in Paths |-> IF q \in part THEN Nothing ELSE disk[q]]
    /\ dirs' = IF p.op = "delete tree" /\ part = Doomed(p) THEN dirs \ {p.base.name} ELSE dirs

Deletes(p) == p.op \in {"delete", "delete tree"}

Rename(p) ==
    /\ disk' = [q \in Paths |-> IF q[1] = p.base.name THEN Nothing
                                ELSE IF q[1] = p.to THEN disk[<<p.base.name, q[2]>>] ELSE disk[q]]
    /\ dirs' = (dirs \ {p.base.name}) \cup {p.to}

Perform(p) ==
    CASE p.op = "move tree" -> Rename(p)
      [] p.op = "mkdir" -> disk' = disk /\ dirs' = dirs \cup {p.to}
      [] Deletes(p) -> Erase(p, Doomed(p))
      [] p.op = "move" -> disk' = [disk EXCEPT ![p.to] = disk[From(p)], ![From(p)] = Nothing] /\ dirs' = dirs
      [] OTHER -> disk' = [disk EXCEPT ![p.to] = NewText(p)] /\ dirs' = dirs

\* The script of the owner.
Run(m) ==
    /\ phase[m] = "begun"
    /\ Passes(m, 0) /\ Publish(m, 0)
    /\ IF Fits(plan[m])
       THEN Perform(plan[m]) /\ phase' = [phase EXCEPT ![m] = "installed"]
       ELSE UNCHANGED store /\ phase' = [phase EXCEPT ![m] = "refused"]
    /\ UNCHANGED <<wsStatus, tables, journal, claims, rec, trouble>>

\* The script has run, a deletion in part, but its answer is lost.
RunUnheard(m) ==
    /\ phase[m] = "begun" /\ Fault
    /\ Passes(m, 0) /\ Publish(m, 0)
    /\ IF ~Fits(plan[m]) THEN UNCHANGED store
       ELSE IF Deletes(plan[m]) THEN \E part \in SUBSET Doomed(plan[m]) : Erase(plan[m], part)
       ELSE Perform(plan[m])
    /\ phase' = [phase EXCEPT ![m] = "gone"]
    /\ UNCHANGED <<wsStatus, tables, journal, claims, rec>>

\* MUTATION_FENCED: a marker is newer.  Scopes looked at before it may have
\* been brought up to the owner's old generation.
RunFenced(m) ==
    /\ phase[m] = "begun" /\ ~Passes(m, 0)
    /\ \E S \in SUBSET {s \in Claims(plan[m]) : marker[s] < hold[m][s]} :
          marker' = [s \in Scopes |-> IF s \in S THEN hold[m][s] ELSE marker[s]]
    /\ phase' = [phase EXCEPT ![m] = "gone"]
    /\ UNCHANGED <<wsStatus, tables, journal, claims, store, rec, trouble>>

\* The row is prepared and still its owner's, or the reconciler's.
StillOwns(m, t) == state[m] = "prepared" /\ turn[m] = t

Settle(m, outcome) == state' = [state EXCEPT ![m] = outcome] /\ UNCHANGED <<plan, intent>>

\* A definite refusal fails the change, if it is still the owner's.
Fail(m) ==
    /\ phase[m] = "refused"
    /\ IF StillOwns(m, 0) THEN Settle(m, "failed") ELSE UNCHANGED journal
    /\ phase' = [phase EXCEPT ![m] = "gone"]
    /\ UNCHANGED <<wsStatus, tables, claims, marker, store, rec, trouble>>

\* The content object of the text is being pruned: failed right after it began.
ObjectIsPruned(m) ==
    /\ phase[m] = "begun" /\ plan[m].op \in {"create", "write"}
    /\ phase' = [phase EXCEPT ![m] = "refused"]
    /\ UNCHANGED <<wsStatus, tables, journal, claims, marker, store, rec, trouble>>

\* The rows are as the journal froze them, and no other has the place: the
\* compare-and-set of the projections and the unique constraints.  A creation
\* and a deletion do not look at the directory's revision again.
Unchanged(p) ==
    /\ \A i \in Items(p) : tree[i] = p.before[i]
    /\ p.op = "move tree" => folder = p.base
    /\ p.op = "delete tree" => folder.id = p.base.id /\ folder.name = p.base.name
    /\ Free(p)

\* The projection of the journal, the counters and the directory's revision.
Commit(m) ==
    LET p == plan[m] IN
    /\ tree' = [e \in Entries |-> IF e \in Items(p) THEN p.after[e] ELSE tree[e]]
    /\ folder' = CASE p.op = "mkdir" -> [id |-> m, name |-> p.to, rev |-> 1]
                   [] p.op = "move tree" -> [folder EXCEPT !.name = p.to, !.rev = @ + 1]
                   [] p.op = "delete tree" -> NoFolder
                   [] OTHER -> IF folder # NoFolder /\ \E path \in Touched(p) : Inside(path)
                               THEN [folder EXCEPT !.rev = @ + 1] ELSE folder
    /\ used' = used + Delta(p)

Record(m) ==
    /\ phase[m] = "installed" /\ StillOwns(m, 0) /\ Unchanged(plan[m])
    /\ Commit(m) /\ Settle(m, "completed")
    /\ phase' = [phase EXCEPT ![m] = "gone"]
    /\ UNCHANGED <<wsStatus, claims, marker, store, rec, trouble>>

\* MUTATION_FENCED: the row is not the owner's any more, or its base is not.
RecordRefused(m) ==
    /\ phase[m] = "installed" /\ ~(StillOwns(m, 0) /\ Unchanged(plan[m]))
    /\ Go(m) /\ UNCHANGED trouble

\* The process of the request dies, or the sandbox does not answer.
Die(m) == phase[m] \in {"begun", "installed", "refused"} /\ Go(m) /\ Fault

-----------------------------------------------------------------------------
(* The leases.                                                             *)

\* Mutant: the heartbeat of a request outlives it.
TendedOn(m) ==
    \/ turn[m] = 0
    \/ \E r \in Reconcilers : rec[r].step # "idle" /\ rec[r].of = m /\ rec[r].turn = turn[m]

\* Somebody is alive to renew the claims of m: its owner, or the reconciler
\* that took them over last.
Tended(m) ==
    \/ turn[m] = 0 /\ phase[m] \in {"begun", "installed", "refused"}
    \/ \E r \in Reconcilers : rec[r].step # "idle" /\ rec[r].of = m /\ rec[r].turn = turn[m]

Lapse(m) ==
    /\ state[m] = "prepared" /\ ~lapsed[m]
    /\ IF Tended(m) THEN Fault ELSE UNCHANGED trouble
    /\ lapsed' = [lapsed EXCEPT ![m] = TRUE]
    /\ UNCHANGED <<wsStatus, tables, journal, hold, turn, gen, marker, store, phase, rec>>

\* The heartbeat does not look at the deadline: it revives a lapsed lease.
Renew(m) ==
    /\ state[m] = "prepared" /\ lapsed[m] /\ Tended(m)
    /\ lapsed' = [lapsed EXCEPT ![m] = FALSE]
    /\ UNCHANGED <<wsStatus, tables, journal, hold, turn, gen, marker, store, phase, rec, trouble>>

-----------------------------------------------------------------------------
(* Reconciliation, before each write of the user and when a process starts.*)

\* Mutant: the generations of the claims stay as they are.
TakeUncounted(r, m) ==
    /\ rec[r] = Idle /\ state[m] = "prepared" /\ lapsed[m]
    /\ lapsed' = [lapsed EXCEPT ![m] = FALSE]
    /\ rec' = [rec EXCEPT ![r] = [step |-> "took", of |-> m, turn |-> turn[m] + 1, verdict |-> "none"]]
    /\ UNCHANGED <<wsStatus, tables, journal, hold, turn, gen, marker, store, phase, trouble>>

\* takeover_expired_mutation_claims: every claim of m gets the next generation.
Take(r, m) ==
    /\ rec[r] = Idle /\ state[m] = "prepared" /\ lapsed[m]
    /\ turn' = [turn EXCEPT ![m] = @ + 1]
    /\ gen' = [s \in Scopes |-> IF s \in Claims(plan[m]) THEN gen[s] + 1 ELSE gen[s]]
    /\ lapsed' = [lapsed EXCEPT ![m] = FALSE]
    /\ rec' = [rec EXCEPT ![r] = [step |-> "took", of |-> m, turn |-> turn[m] + 1, verdict |-> "none"]]
    /\ UNCHANGED <<wsStatus, tables, journal, hold, marker, store, phase, trouble>>

GiveUp(r) ==
    /\ rec' = [rec EXCEPT ![r] = Idle]
    /\ UNCHANGED <<wsStatus, tables, journal, claims, store, phase>>

\* advance_claim_fences: all markers together, unless one is newer.  Then the
\* row is looked at again: somebody may have settled it.
Advance(r) ==
    LET m == rec[r].of
        t == rec[r].turn
    IN /\ rec[r].step = "took"
       /\ IF Passes(m, t) THEN Publish(m, t) ELSE UNCHANGED marker
       /\ IF Passes(m, t) /\ state[m] = "prepared"
          THEN /\ rec' = [rec EXCEPT ![r].step = "advanced"]
               /\ UNCHANGED <<wsStatus, tables, journal, claims, store, phase>>
          ELSE GiveUp(r)
       /\ UNCHANGED trouble

\* Mutant: a file at the destination is enough.
IsThere(p) ==
    CASE p.op \in {"create", "write", "move"} -> disk[p.to] # Nothing
      [] OTHER -> p.to \in dirs

IsApplied(p) ==
    CASE p.op \in {"create", "write"} -> disk[p.to] = NewText(p)
      [] p.op = "mkdir" -> p.to \in dirs
      [] p.op = "move" -> disk[p.to] # Nothing /\ disk[From(p)] = Nothing
      [] p.op = "move tree" -> p.to \in dirs /\ p.base.name \notin dirs
      [] OTHER -> FALSE

IsNotApplied(p) ==
    CASE p.op \in {"create", "write"} -> disk[p.to] = OldText(p)
      [] p.op = "mkdir" -> p.to \notin dirs
      [] p.op = "move" -> disk[From(p)] # Nothing /\ disk[p.to] = Nothing
      [] p.op = "move tree" -> p.base.name \in dirs /\ p.to \notin dirs
      [] OTHER -> FALSE

Verdict(p) ==
    IF IsApplied(p) THEN "applied" ELSE IF IsNotApplied(p) THEN "not applied" ELSE "neither"

\* Under the fence: a deletion is done again, of anything else is found out
\* whether it was applied.
Examine(r) ==
    LET p == plan[rec[r].of]
        verdict == IF Deletes(p) THEN "applied" ELSE Verdict(p)
    IN /\ rec[r].step = "advanced" /\ Passes(rec[r].of, rec[r].turn)
       /\ IF Deletes(p) THEN Perform(p) ELSE UNCHANGED store
       /\ rec' = [rec EXCEPT ![r].step = "examined", ![r].verdict = verdict]
       /\ UNCHANGED <<wsStatus, tables, journal, claims, marker, phase, trouble>>

\* The fence turns the reconciler away: the change stays prepared.
ExamineFenced(r) ==
    /\ rec[r].step = "advanced" /\ ~Passes(rec[r].of, rec[r].turn)
    /\ GiveUp(r) /\ UNCHANGED <<marker, trouble>>

\* A deletion is finished by the owner of its claims only; anything else by
\* whoever finds the row still prepared.
MayConclude(r) ==
    LET m == rec[r].of IN
    IF Deletes(plan[m]) THEN StillOwns(m, rec[r].turn) ELSE state[m] = "prepared"

Conclude(r) ==
    LET m == rec[r].of IN
    /\ rec[r].step = "examined" /\ MayConclude(r)
    /\ IF rec[r].verdict = "applied"
       THEN Unchanged(plan[m]) /\ Commit(m) /\ Settle(m, "completed")
       ELSE UNCHANGED tables /\ Settle(m, "failed")
    /\ rec' = [rec EXCEPT ![r] = Idle]
    /\ UNCHANGED <<wsStatus, claims, marker, store, phase, trouble>>

\* Settled meanwhile, taken over again, or the base is not the frozen one.
ConcludeRefused(r) ==
    /\ rec[r].step = "examined"
    /\ MayConclude(r) => rec[r].verdict = "applied" /\ ~Unchanged(plan[rec[r].of])
    /\ GiveUp(r) /\ UNCHANGED <<marker, trouble>>

\* A script fails or the process dies: the change stays prepared.
ReconcilerFails(r) == rec[r] # Idle /\ GiveUp(r) /\ UNCHANGED marker /\ Fault

-----------------------------------------------------------------------------
(* The switch of the sandbox, and other people's edits.                    *)

\* Mutant: open changes are not looked at.
BeginDrainAnyway ==
    /\ wsStatus = "active"
    /\ wsStatus' = "draining"
    /\ UNCHANGED <<tables, journal, claims, marker, store, phase, rec, trouble>>

BeginDrain ==
    /\ wsStatus = "active" /\ Prepared = {}
    /\ wsStatus' = "draining"
    /\ UNCHANGED <<tables, journal, claims, marker, store, phase, rec, trouble>>

\* There are entries: nothing may be destroyed.  Or the switch is over.
FinishDrain ==
    /\ wsStatus = "draining"
    /\ wsStatus' = "active"
    /\ UNCHANGED <<tables, journal, claims, marker, store, phase, rec, trouble>>

\* No entry: the container is killed and the mount cleared, markers included.
\* Who was still at work in the old container is cut off.
Rebuild ==
    /\ wsStatus = "draining" /\ Present = {} /\ folder = NoFolder
    /\ disk' = [q \in Paths |-> Nothing] /\ dirs' = {}
    /\ marker' = [s \in Scopes |-> 0]
    /\ phase' = [m \in Mutations |-> IF phase[m] = "idle" THEN "idle" ELSE "gone"]
    /\ rec' = [r \in Reconcilers |-> Idle]
    /\ UNCHANGED <<wsStatus, tables, journal, claims, trouble>>

\* A shell in the sandbox removes a file, or puts one there.
Drift(path) ==
    /\ ~drifted /\ faults < MaxFaults /\ faults' = faults + 1
    /\ ParentIsThere(path)
    /\ \E text \in {Nothing} \cup {{e} : e \in Files} :
          text # disk[path] /\ disk' = [disk EXCEPT ![path] = text]
    /\ drifted' = TRUE
    /\ UNCHANGED <<wsStatus, tables, journal, claims, marker, dirs, phase, rec>>

-----------------------------------------------------------------------------
Request(m) ==
    \/ Read(m) \/ Draft(m) \/ \E n \in Mutations : Retry(m, n)
    \/ Send(m) \/ Begin(m) \/ BeginRefused(m)
    \/ Run(m) \/ RunUnheard(m) \/ RunFenced(m)
    \/ Fail(m) \/ ObjectIsPruned(m) \/ Record(m) \/ RecordRefused(m) \/ Die(m)
    \/ Lapse(m) \/ Renew(m)

Reconcile(r) ==
    \/ \E m \in Mutations : Take(r, m)
    \/ Advance(r) \/ Examine(r) \/ ExamineFenced(r)
    \/ Conclude(r) \/ ConcludeRefused(r) \/ ReconcilerFails(r)

Admin == BeginDrain \/ FinishDrain \/ Rebuild

WsNext ==
    \/ \E m \in Mutations : Request(m)
    \/ \E r \in Reconcilers : Reconcile(r)
    \/ Admin
    \/ \E path \in Paths : Drift(path)

WsSpec == WsInit /\ [][WsNext]_wsVars

-----------------------------------------------------------------------------
Row == [path : Paths, text : SUBSET Entries, rev : Nat]
FolderRow == [id : Folders, name : Dirs, rev : Nat]

\* What a journal is made of, by operation.
JournalOK(p) ==
    /\ Items(p) \subseteq Entries /\ DOMAIN p.after = Items(p)
    /\ \A i \in Items(p) : p.before[i] \in Row \cup {Gone} /\ p.after[i] \in Row \cup {Gone}
    /\ p.base = NoFolder \/ p.base \in FolderRow
    /\ p.op \in {"create", "write", "move"} =>
          /\ p.to \in Paths /\ (p.op # "write" /\ Inside(p.to) => p.base # NoFolder)
          /\ \E i \in Items(p) : Items(p) = {i} /\ p.after[i].path = p.to
    /\ p.op \in {"write", "move"} => \A i \in Items(p) : Gone \notin {p.before[i], p.after[i]}
    /\ p.op = "delete" => Items(p) # {}
    /\ p.op \in {"mkdir", "move tree"} => p.to \in Dirs
    /\ OnTree(p) => p.base # NoFolder

RowsOK ==
    /\ tree \in [Entries -> Row \cup {Gone}]
    /\ folder = NoFolder \/ folder \in FolderRow

Operations == {"create", "mkdir", "write", "move", "delete", "move tree", "delete tree"}

RequestOK(m) ==
    /\ phase[m] # "idle" => JournalOK(plan[m]) /\ plan[m].op \in Operations
    /\ phase[m] = "idle" => plan[m] = NoPlan
    /\ phase[m] = "editing" => plan[m].op = "write"
    /\ phase[m] \in {"idle", "editing", "read"} => state[m] = "none"
    /\ phase[m] \in {"begun", "installed", "refused"} => state[m] # "none"
    /\ state[m] # "none" => hold[m] \in [Claims(plan[m]) -> Nat]

RequestsOK ==
    /\ state \in [Mutations -> {"none", "prepared", "completed", "failed"}]
    /\ phase \in [Mutations -> {"idle", "editing", "read", "begun", "installed", "refused", "gone"}]
    /\ DOMAIN plan = Mutations /\ DOMAIN hold = Mutations
    /\ intent \in [Mutations -> Mutations]
    /\ \A m \in Mutations : RequestOK(m)

ClaimsOK ==
    /\ turn \in [Mutations -> Nat]
    /\ lapsed \in [Mutations -> BOOLEAN]
    /\ gen \in [Scopes -> Nat]
    /\ marker \in [Scopes -> Nat]

StoreOK ==
    /\ disk \in [Paths -> (SUBSET Entries) \cup {Nothing}]
    /\ dirs \subseteq Dirs

Reconciling == [step : {"took", "advanced", "examined"}, of : Mutations, turn : Nat,
                verdict : {"none", "applied", "not applied", "neither"}]
ReconcilersOK ==
    /\ rec \in [Reconcilers -> {Idle} \cup Reconciling]
    /\ \A r \in Reconcilers : rec[r] # Idle => state[rec[r].of] # "none"

\* The types of the workspace's state.
WsTypeOK ==
    /\ wsStatus \in {"active", "draining"}
    /\ RowsOK /\ RequestsOK /\ ClaimsOK /\ StoreOK /\ ReconcilersOK
    /\ faults \in 0 .. MaxFaults /\ drifted \in BOOLEAN

Covered(path) ==
    \E m \in Prepared : path \in Touched(plan[m]) \/ (OnTree(plan[m]) /\ Inside(path))

RowAt(path) == {e \in Present : tree[e].path = path}
DirectoryIsOpen == \E m \in Prepared : plan[m].op \in {"mkdir", "move tree", "delete tree"}

\* Two rows never claim the same place.
PathsAreUnique == \A e, f \in Present : tree[e].path = tree[f].path => e = f

\* Where no change is open the sandbox has exactly what the rows say.
SettledAgree ==
    /\ \A path \in Paths : Covered(path) \/
          disk[path] = IF RowAt(path) = {} THEN Nothing ELSE tree[CHOOSE e \in RowAt(path) : TRUE].text
    /\ DirectoryIsOpen \/ dirs = {folder.name} \ {Nothing}

\* The files match one side of an open change, so that it can be settled.
NeverPuzzled ==
    \A r \in Reconcilers : rec[r].verdict = "neither" => state[rec[r].of] # "prepared"

\* Rows and files agree after stalls, takeovers, lost replies and crashes in
\* any order, unless somebody else has changed the files.
FilesAgree == PathsAreUnique /\ (drifted \/ (SettledAgree /\ NeverPuzzled))

\* While a change is open nobody else changes what it started from, nor takes
\* the place it goes to: claims, not the compare-and-set, decide conflicts.
BaseIsKept == \A m \in Prepared : Unchanged(plan[m])

\* The counter is the sum of the texts, and what is reserved still fits.
QuotaIsKept ==
    /\ used = MapThenSumSet(LAMBDA e : Bytes(tree[e]), Entries)
    /\ used + MapThenSumSet(LAMBDA k : Reserved(plan[k]), Prepared) <= Quota

\* No change is open while the sandbox is being switched.
DrainIsQuiet == wsStatus = "draining" => Prepared = {}

\* One idempotency key has one effect.
OneEffectPerKey ==
    \A m, n \in Mutations :
        m # n /\ intent[m] = intent[n] => ~(state[m] = "completed" /\ state[n] = "completed")

\* Files change only as part of a change that is open, or when all are cleared.
NoLateWrite ==
    [][\A path \in Paths : disk'[path] # disk[path] => Covered(path) \/ drifted' \/ Rebuild]_wsVars

\* A draft that can be merged changes nothing but the place it writes at: what
\* others have put anywhere else stays, and what they have taken away does not
\* come back, however many saves, restored versions, retries and takeovers come
\* between its base and the transaction that records it.
NoLostUpdate ==
    [][\A m \in Mutations, e \in Entries :
          /\ state[m] = "prepared" /\ state'[m] = "completed"
          /\ plan[m].op = "write" /\ e \in Items(plan[m])
          /\ intent[m] \in tree'[e].text \ Unmergeable
          => \A c \in Entries \ Place(intent[m]) : c \in tree'[e].text <=> c \in tree[e].text]_wsVars

-----------------------------------------------------------------------------
(* Liveness.                                                               *)

OwnerStep(m) == Run(m) \/ RunFenced(m) \/ Fail(m) \/ Record(m) \/ RecordRefused(m)
ReconcilerStep(r) ==
    Advance(r) \/ Examine(r) \/ ExamineFenced(r) \/ Conclude(r) \/ ConcludeRefused(r)

WsFairness ==
    /\ \A m \in Mutations :
          /\ WF_wsVars(OwnerStep(m))
          /\ WF_wsVars(~Tended(m) /\ Lapse(m))
          /\ SF_wsVars(\E r \in Reconcilers : Take(r, m))
    /\ \A r \in Reconcilers : WF_wsVars(ReconcilerStep(r))

WsLiveSpec == WsSpec /\ WsFairness

\* A change that has begun is completed or failed, whoever dies meanwhile.
PreparedIsResolved ==
    \A m \in Mutations : state[m] = "prepared" ~> state[m] \in {"completed", "failed"}
=============================================================================
