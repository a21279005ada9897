--------------------- MODULE WorkspaceMutations_proofs ---------------------
(***************************************************************************)
(* Proofs about WorkspaceMutations, for any number of requests,            *)
(* reconcilers, entries, names and faults.                                 *)
(***************************************************************************)
EXTENDS WorkspaceMutations, FiniteSetTheorems, WellFoundedInduction, TLAPS

\* A marker in the sandbox is newer than the generations of turn t.
Stale(m, t) == \E s \in Claims(plan[m]) : marker[s] > hold[m][s] + t

-----------------------------------------------------------------------------
(* Journals.                                                               *)

LEMMA ScopesAre ==
    /\ \A e \in Entries : FileScope(e) \in Scopes
    /\ \A f \in Folders : TreeScope(f) \in Scopes
    /\ \A f \in {Top} \cup Folders : \A name \in Names \cup Dirs : PathScope(f, name) \in Scopes
<1>1. \A f \in {Top} \cup Folders : \A name \in Names \cup Dirs :
          PathScope(f, name) \in {PathScope(g, n) : g \in {Top} \cup Folders, n \in Names \cup Dirs}
  OBVIOUS
<1> QED BY <1>1 DEF Scopes

\* A journal claims something, and only scopes that exist.
LEMMA ClaimsAreScopes ==
    ASSUME NEW p, JournalOK(p), p.op \in Operations
    PROVE  Claims(p) \subseteq Scopes /\ Claims(p) # {}
<1>1. {FileScope(i) : i \in Items(p)} \subseteq Scopes
  <2>1. \A i \in Items(p) : FileScope(i) \in Scopes
    BY ScopesAre DEF JournalOK
  <2> QED BY <2>1
<1>2. ASSUME p.op \in {"create", "move"} PROVE ScopeOf(p) \in Scopes
  <2>1. p.to[1] \in {Top} \cup Dirs /\ p.to[2] \in Names
    BY <1>2 DEF JournalOK, Paths
  <2>2. Inside(p.to) => p.base.id \in Folders
    BY <1>2 DEF JournalOK, FolderRow
  <2> QED BY <2>1, <2>2, ScopesAre DEF ScopeOf
<1>3. ASSUME p.op \in {"mkdir", "move tree"} PROVE PathScope(Top, p.to) \in Scopes
  BY <1>3, ScopesAre DEF JournalOK
<1>4. ASSUME OnTree(p) PROVE TreeScope(p.base.id) \in Scopes
  <2>1. p.base.id \in Folders
    BY <1>4 DEF JournalOK, FolderRow
  <2> QED BY <2>1, ScopesAre
<1>5. CASE p.op = "create"
  <2>1. Claims(p) = {ScopeOf(p)}
    BY <1>5 DEF Claims
  <2> QED BY <1>2, <1>5, <2>1
<1>6. CASE p.op = "mkdir"
  <2>1. Claims(p) = {PathScope(Top, p.to)}
    BY <1>6 DEF Claims
  <2> QED BY <1>3, <1>6, <2>1
<1>7. CASE p.op = "move"
  <2>1. Claims(p) = {FileScope(i) : i \in Items(p)} \cup {ScopeOf(p)}
    BY <1>7 DEF Claims
  <2> QED BY <1>1, <1>2, <1>7, <2>1
<1>8. CASE p.op \in {"write", "delete"}
  <2>1. Claims(p) = {FileScope(i) : i \in Items(p)}
    BY <1>8 DEF Claims
  <2>2. Items(p) # {}
    BY <1>8 DEF JournalOK
  <2> QED BY <1>1, <2>1, <2>2
<1>9. CASE p.op = "move tree"
  <2>1. Claims(p) = {TreeScope(p.base.id), PathScope(Top, p.to)}
    BY <1>9 DEF Claims
  <2> QED BY <1>3, <1>4, <1>9, <2>1 DEF OnTree
<1>10. CASE p.op = "delete tree"
  <2>1. Claims(p) = {TreeScope(p.base.id)}
                    \cup {FileScope(i) : i \in {j \in Items(p) : ~Inside(p.before[j].path)}}
    BY <1>10 DEF Claims
  <2> QED BY <1>1, <1>4, <1>10, <2>1 DEF OnTree
<1> QED BY <1>5, <1>6, <1>7, <1>8, <1>9, <1>10 DEF Operations

\* A script changes the paths of its journal, and what is below the directory
\* when the change is one of the directory.
LEMMA PerformStaysInside ==
    ASSUME StoreOK, NEW p, JournalOK(p), p.op \in Operations, WorkspaceAssumption,
           Perform(p) \/ (Deletes(p) /\ \E part \in SUBSET Doomed(p) : Erase(p, part)),
           NEW path \in Paths, disk'[path] # disk[path]
    PROVE  path \in Touched(p) \/ (OnTree(p) /\ Inside(path))
<1> path # Nothing /\ path[1] \in {Top} \cup Dirs
  BY DEF WorkspaceAssumption, Paths
<1>1. CASE p.op = "create" \/ p.op = "write"
  <2>1. disk' = [disk EXCEPT ![p.to] = NewText(p)]
    BY <1>1 DEF Perform, Deletes
  <2>2. path = p.to
    BY <2>1 DEF StoreOK
  <2> QED BY <1>1, <2>2 DEF JournalOK, Touched
<1>2. CASE p.op = "move"
  <2>1. disk' = [disk EXCEPT ![p.to] = disk[From(p)], ![From(p)] = Nothing]
    BY <1>2 DEF Perform, Deletes
  <2>2. path = p.to \/ path = From(p)
    BY <2>1 DEF StoreOK
  <2>3. PICK i \in Items(p) : p.after[i].path = p.to
    BY <1>2 DEF JournalOK
  <2>4. From(p) \in {p.before[j].path : j \in Items(p)}
    BY <2>3 DEF From
  <2> QED BY <2>2, <2>3, <2>4 DEF Touched
<1>3. CASE p.op = "mkdir"
  BY <1>3 DEF Perform, Deletes
<1>4. CASE Deletes(p)
  <2>1. PICK part \in SUBSET Doomed(p) : Erase(p, part)
    BY <1>4 DEF Perform, Deletes
  <2>2. path \in Doomed(p)
    BY <2>1 DEF Erase, StoreOK
  <2>3. p.op = "delete tree" /\ path[1] = p.base.name => Inside(path)
    BY DEF JournalOK, OnTree, Inside, FolderRow, WorkspaceAssumption
  <2> QED BY <2>2, <2>3 DEF Doomed, OnTree
<1>5. CASE p.op = "move tree"
  <2>1. Rename(p)
    BY <1>5 DEF Perform, Deletes
  <2>2. path[1] = p.base.name \/ path[1] = p.to
    BY <2>1 DEF Rename, StoreOK
  <2>3. p.base.name \in Dirs /\ p.to \in Dirs
    BY <1>5 DEF JournalOK, OnTree, FolderRow
  <2> QED BY <1>5, <2>2, <2>3 DEF OnTree, Inside, WorkspaceAssumption
<1> QED BY <1>1, <1>2, <1>3, <1>4, <1>5 DEF Operations, Deletes

-----------------------------------------------------------------------------
(* Type correctness.                                                       *)

LEMMA NamesAre ==
    ASSUME WorkspaceAssumption
    PROVE  /\ \A path \in Paths : path # Nothing /\ path[1] \in {Top} \cup Dirs /\ path[2] \in Names
           /\ Gone \notin Row
           /\ \A d \in Dirs : d # Nothing /\ d # Top
           /\ \A d \in Dirs, path \in Paths : <<d, path[2]>> \in Paths
BY DEF WorkspaceAssumption, Paths, Gone, Row

LEMMA RowsChange ==
    ASSUME NEW row \in Row, NEW text \in SUBSET Entries, NEW path \in Paths
    PROVE  /\ [row EXCEPT !.text = text, !.rev = @ + 1] \in Row
           /\ [row EXCEPT !.text = text, !.rev = @ + 1].path = row.path
           /\ [row EXCEPT !.path = path, !.rev = @ + 1] \in Row
           /\ [row EXCEPT !.path = path, !.rev = @ + 1].path = path
<1>1. row.rev + 1 \in Nat /\ row.path \in Paths /\ row.text \in SUBSET Entries
  BY DEF Row
<1>2. [row EXCEPT !.text = text, !.rev = row.rev + 1] \in Row
  BY <1>1 DEF Row
<1>3. [row EXCEPT !.path = path, !.rev = row.rev + 1] \in Row
  BY <1>1 DEF Row
<1>4. [row EXCEPT !.text = text, !.rev = row.rev + 1].path = row.path
      /\ [row EXCEPT !.path = path, !.rev = row.rev + 1].path = path
  BY DEF Row
<1> QED BY <1>2, <1>3, <1>4

LEMMA FolderChanges ==
    ASSUME NEW f \in FolderRow, NEW d \in Dirs
    PROVE  /\ [f EXCEPT !.name = d, !.rev = @ + 1] \in FolderRow
           /\ [f EXCEPT !.rev = @ + 1] \in FolderRow
<1>1. f.rev + 1 \in Nat
  BY DEF FolderRow
<1>2. [f EXCEPT !.name = d, !.rev = f.rev + 1] \in FolderRow
  BY <1>1 DEF FolderRow
<1>3. [f EXCEPT !.rev = f.rev + 1] \in FolderRow
  BY <1>1 DEF FolderRow
<1> QED BY <1>2, <1>3

LEMMA FoldersAre ==
    ASSUME WorkspaceAssumption, NEW f \in FolderRow
    PROVE  f # NoFolder /\ f.id \in Folders /\ f.name \in Dirs /\ f.name # Nothing /\ f.name # Top
BY DEF FolderRow, NoFolder, WorkspaceAssumption

LEMMA EditOK ==
    ASSUME WorkspaceAssumption, RowsOK, NEW e \in Present, NEW text \in SUBSET Entries
    PROVE  JournalOK(Edit(e, text)) /\ Edit(e, text).op = "write"
<1> DEFINE row == [tree[e] EXCEPT !.text = text, !.rev = @ + 1]
           p == Edit(e, text)
<1>0. e \in Entries /\ tree[e] \in Row
  BY DEF Present, RowsOK
<1>1. e \in Entries /\ tree[e] \in Row /\ row \in Row /\ row.path = tree[e].path
  <2>1. tree[e].path \in Paths
    BY <1>0 DEF Row
  <2> QED BY <1>0, <2>1, RowsChange
<1>2. /\ p.op = "write" /\ Items(p) = {e} /\ DOMAIN p.after = {e}
      /\ p.before[e] = tree[e] /\ p.after[e] = row /\ p.base = NoFolder /\ p.to = tree[e].path
  BY DEF Edit, Items
<1>3. Gone \notin {tree[e], row}
  BY <1>1, NamesAre
<1>4. p.to \in Paths
  BY <1>1, <1>2 DEF Row
<1> HIDE DEF p, row
<1>5. JournalOK(p)
  BY <1>1, <1>2, <1>3, <1>4 DEF JournalOK, OnTree
<1> QED BY <1>2, <1>5 DEF p

LEMMA PlansOK ==
    ASSUME WorkspaceAssumption, RowsOK, RequestsOK, NEW m \in Mutations,
           NEW p \in CreatePlans(m) \cup MkdirPlans \cup RestorePlans \cup MovePlans
                     \cup MoveTreePlans \cup DeletePlans
    PROVE  JournalOK(p) /\ p.op \in Operations
<1>0. ASSUME NEW q \in Vacancies PROVE q \in Paths /\ (Inside(q) => ParentOf(q) # NoFolder)
  BY NamesAre DEF Vacancies, Empty, There, Inside, ParentOf, NoFolder
<1>1. CASE p \in CreatePlans(m)
  <2>1. PICK q \in Vacancies :
           p = [op |-> "create", before |-> [i \in {m} |-> Gone],
                after |-> [i \in {m} |-> [path |-> q, text |-> {m}, rev |-> 1]],
                base |-> ParentOf(q), to |-> q]
    BY <1>1 DEF CreatePlans
  <2>2. [path |-> q, text |-> {m}, rev |-> 1] \in Row /\ m \in Entries
    BY <1>0 DEF Row, Entries
  <2>3. ParentOf(q) = NoFolder \/ ParentOf(q) \in FolderRow
    BY DEF ParentOf, RowsOK
  <2> QED BY <1>0, <2>1, <2>2, <2>3 DEF JournalOK, Items, OnTree, Operations
<1>2. CASE p \in MkdirPlans
  <2>1. PICK d \in Dirs : p = [op |-> "mkdir", before |-> <<>>, after |-> <<>>, base |-> NoFolder, to |-> d]
    BY <1>2 DEF MkdirPlans
  <2>2. DOMAIN p.before = {} /\ DOMAIN p.after = {}
    BY <2>1
  <2> QED BY <2>1, <2>2 DEF JournalOK, Items, OnTree, Operations
<1>3. CASE p \in RestorePlans
  <2>1. PICK e \in Present : \E text \in Versions(e) : p = Edit(e, text)
    BY <1>3 DEF RestorePlans
  <2>2. PICK text \in Versions(e) : p = Edit(e, text)
    BY <2>1
  <2>3. PICK n \in Mutations : /\ state[n] = "completed" /\ plan[n].op = "write" /\ e \in Items(plan[n])
                               /\ text \in {plan[n].before[e].text, plan[n].after[e].text}
    BY <2>2 DEF Versions
  <2>4. JournalOK(plan[n])
    BY <2>3 DEF RequestsOK, RequestOK
  <2>5. plan[n].before[e] \in Row /\ plan[n].after[e] \in Row
    BY <2>3, <2>4 DEF JournalOK
  <2>6. text \in SUBSET Entries
    BY <2>3, <2>5 DEF Row
  <2> QED BY <2>2, <2>6, EditOK DEF Operations
<1>4. CASE p \in MovePlans
  <2>0. PICK e \in Present : p \in
          {[op |-> "move", before |-> [i \in {e} |-> tree[e]],
            after |-> [i \in {e} |-> [tree[e] EXCEPT !.path = q, !.rev = @ + 1]],
            base |-> ParentOf(q), to |-> q] : q \in Vacancies}
    BY <1>4 DEF MovePlans
  <2>1. PICK q \in Vacancies :
           p = [op |-> "move", before |-> [i \in {e} |-> tree[e]],
                after |-> [i \in {e} |-> [tree[e] EXCEPT !.path = q, !.rev = @ + 1]],
                base |-> ParentOf(q), to |-> q]
    BY <2>0
  <2>2. e \in Entries /\ tree[e] \in Row
    BY DEF Present, RowsOK
  <2>3. [tree[e] EXCEPT !.path = q, !.rev = @ + 1] \in Row
    BY <1>0, <2>2, RowsChange
  <2>4. [tree[e] EXCEPT !.path = q, !.rev = @ + 1].path = q
    BY <1>0, <2>2, RowsChange
  <2>5. ParentOf(q) = NoFolder \/ ParentOf(q) \in FolderRow
    BY DEF ParentOf, RowsOK
  <2>6. Gone \notin {tree[e], [tree[e] EXCEPT !.path = q, !.rev = @ + 1]}
    BY <2>2, <2>3, NamesAre
  <2> QED BY <1>0, <2>1, <2>2, <2>3, <2>4, <2>5, <2>6 DEF JournalOK, Items, OnTree, Operations
<1>5. CASE p \in MoveTreePlans
  <2>1. folder # NoFolder /\ \E d \in Dirs :
           p = [op |-> "move tree", before |-> [i \in Listing |-> tree[i]],
                after |-> [i \in Listing |-> [tree[i] EXCEPT !.path = <<d, @[2]>>, !.rev = @ + 1]],
                base |-> folder, to |-> d]
    BY <1>5 DEF MoveTreePlans
  <2>2. PICK d \in Dirs :
           p = [op |-> "move tree", before |-> [i \in Listing |-> tree[i]],
                after |-> [i \in Listing |-> [tree[i] EXCEPT !.path = <<d, @[2]>>, !.rev = @ + 1]],
                base |-> folder, to |-> d]
    BY <2>1
  <2>3. Listing \subseteq Entries /\ \A i \in Listing : tree[i] \in Row
    BY DEF Listing, Present, RowsOK
  <2>4. ASSUME NEW i \in Listing PROVE [tree[i] EXCEPT !.path = <<d, @[2]>>, !.rev = @ + 1] \in Row
    <3>1. tree[i].path \in Paths /\ tree[i] \in Row
      BY <2>3 DEF Row
    <3>2. <<d, tree[i].path[2]>> \in Paths
      BY <3>1, NamesAre
    <3>3. [tree[i] EXCEPT !.path = <<d, tree[i].path[2]>>, !.rev = @ + 1] \in Row
      BY <3>1, <3>2, RowsChange
    <3> QED BY <3>3
  <2> QED BY <2>1, <2>2, <2>3, <2>4 DEF JournalOK, Items, OnTree, Operations, RowsOK
<1>6. CASE p \in DeletePlans
  <2>1. CASE p \in {[op |-> "delete", before |-> [i \in S |-> tree[i]], after |-> [i \in S |-> Gone],
                     base |-> NoFolder, to |-> Nothing] : S \in (SUBSET Present) \ {{}}}
    <3>1. PICK S \in (SUBSET Present) \ {{}} :
             p = [op |-> "delete", before |-> [i \in S |-> tree[i]], after |-> [i \in S |-> Gone],
                  base |-> NoFolder, to |-> Nothing]
      BY <2>1
    <3>2. S \subseteq Present /\ S # {}
      OBVIOUS
    <3>3. S \subseteq Entries /\ S # {} /\ \A i \in S : tree[i] \in Row \cup {Gone}
      BY <3>2 DEF Present, RowsOK
    <3> QED BY <3>1, <3>3 DEF JournalOK, Items, OnTree, Operations
  <2>2. CASE ~(p \in {[op |-> "delete", before |-> [i \in S |-> tree[i]], after |-> [i \in S |-> Gone],
                       base |-> NoFolder, to |-> Nothing] : S \in (SUBSET Present) \ {{}}})
    <3>1. folder # NoFolder /\ \E S \in SUBSET Present :
             p = [op |-> "delete tree", before |-> [i \in S |-> tree[i]], after |-> [i \in S |-> Gone],
                  base |-> folder, to |-> Nothing]
      BY <1>6, <2>2 DEF DeletePlans
    <3>2. PICK S \in SUBSET Present :
             p = [op |-> "delete tree", before |-> [i \in S |-> tree[i]], after |-> [i \in S |-> Gone],
                  base |-> folder, to |-> Nothing]
      BY <3>1
    <3>3. S \subseteq Entries /\ \A i \in S : tree[i] \in Row \cup {Gone}
      BY DEF Present, RowsOK
    <3> QED BY <3>1, <3>2, <3>3 DEF JournalOK, Items, OnTree, Operations, RowsOK
  <2> QED BY <2>1, <2>2
<1> QED BY <1>1, <1>2, <1>3, <1>4, <1>5, <1>6

LEMMA InitTypeOK == ASSUME WorkspaceAssumption, WsInit PROVE WsTypeOK
<1>1. folder = NoFolder \/ folder \in FolderRow
  BY DEF WsInit, Folders, FolderRow
<1>2. PICK place \in [Files -> {q \in Paths : There(q)}] :
          /\ tree = [e \in Entries |->
                        IF e \in Files THEN [path |-> place[e], text |-> {e}, rev |-> 1] ELSE Gone]
          /\ disk = [q \in Paths |-> IF \E e \in Files : place[e] = q
                                     THEN {e \in Files : place[e] = q} ELSE Nothing]
  BY DEF WsInit
<1>3. ASSUME NEW e \in Files PROVE [path |-> place[e], text |-> {e}, rev |-> 1] \in Row
  BY DEF Row, Entries
<1>4. tree \in [Entries -> Row \cup {Gone}]
  BY <1>2, <1>3
<1>5. disk \in [Paths -> (SUBSET Entries) \cup {Nothing}]
  <2>1. \A q \in Paths : {e \in Files : place[e] = q} \in SUBSET Entries
    BY DEF Entries
  <2>2. \A q \in Paths : (IF \E e \in Files : place[e] = q THEN {e \in Files : place[e] = q} ELSE Nothing)
                            \in (SUBSET Entries) \cup {Nothing}
    BY <2>1
  <2> QED BY <1>2, <2>2, Zenon
<1>6. dirs \subseteq Dirs
  BY <1>1 DEF WsInit, NoFolder
<1>7. RequestsOK
  BY DEF WsInit, RequestsOK, RequestOK
<1>8. ReconcilersOK
  BY DEF WsInit, ReconcilersOK
<1>9. ClaimsOK
  BY DEF WsInit, ClaimsOK
<1>10. wsStatus = "active" /\ drifted \in BOOLEAN
  BY DEF WsInit
<1>11. faults \in 0 .. MaxFaults
  <2>1. faults = 0
    BY DEF WsInit
  <2>2. MaxFaults \in Nat
    BY DEF WorkspaceAssumption
  <2> QED BY <2>1, <2>2
<1> QED BY <1>1, <1>4, <1>5, <1>6, <1>7, <1>8, <1>9, <1>10, <1>11 DEF WsTypeOK, RowsOK, StoreOK

\* What the steps of a script and of a transaction do to the types.
LEMMA CommitType ==
    ASSUME WorkspaceAssumption, RowsOK, NEW m \in Mutations, JournalOK(plan[m]), Commit(m),
           plan[m].op \in {"move tree"} => folder # NoFolder
    PROVE  RowsOK'
<1> DEFINE p == plan[m]
<1>1. tree' \in [Entries -> Row \cup {Gone}]
  <2>1. \A e \in Entries : (IF e \in Items(p) THEN p.after[e] ELSE tree[e]) \in Row \cup {Gone}
    BY DEF JournalOK, RowsOK
  <2>2. tree' = [e \in Entries |-> IF e \in Items(p) THEN p.after[e] ELSE tree[e]]
    BY DEF Commit
  <2> QED BY <2>1, <2>2
<1>2. CASE p.op = "mkdir"
  <2>1. folder' = [id |-> m, name |-> p.to, rev |-> 1]
    BY <1>2 DEF Commit
  <2> QED BY <1>1, <1>2, <2>1 DEF RowsOK, JournalOK, Folders, FolderRow
<1>3. CASE p.op = "move tree"
  <2>1. folder' = [folder EXCEPT !.name = p.to, !.rev = @ + 1]
    BY <1>3 DEF Commit
  <2>2. folder \in FolderRow /\ p.to \in Dirs
    BY <1>3 DEF RowsOK, JournalOK
  <2>3. folder' \in FolderRow
    BY <2>1, <2>2, FolderChanges
  <2> QED BY <1>1, <2>3 DEF RowsOK
<1>4. CASE p.op = "delete tree"
  BY <1>1, <1>4 DEF Commit, RowsOK
<1>5. CASE p.op \notin {"mkdir", "move tree", "delete tree"}
  <2>1. folder' = folder \/ (folder # NoFolder /\ folder' = [folder EXCEPT !.rev = @ + 1])
    BY <1>5 DEF Commit
  <2>2. folder # NoFolder => [folder EXCEPT !.rev = @ + 1] \in FolderRow
    <3>1. CASE folder = NoFolder
      BY <3>1
    <3>2. CASE folder \in FolderRow
      <4>1. folder.name \in Dirs
        BY <3>2 DEF FolderRow
      <4> QED BY <3>2, <4>1, FolderChanges
    <3> QED BY <3>1, <3>2 DEF RowsOK
  <2> QED BY <1>1, <2>1, <2>2 DEF RowsOK
<1> QED BY <1>2, <1>3, <1>4, <1>5

LEMMA StoreType ==
    ASSUME WorkspaceAssumption, StoreOK, NEW p, JournalOK(p), p.op \in Operations,
           Perform(p) \/ (\E part \in SUBSET Doomed(p) : Erase(p, part)) \/ UNCHANGED store
    PROVE  StoreOK'
<1>1. CASE UNCHANGED store
  BY <1>1 DEF store, StoreOK
<1>2. ASSUME NEW part \in SUBSET Doomed(p), Erase(p, part) PROVE StoreOK'
  BY <1>2 DEF Erase, StoreOK
<1>3. CASE Perform(p)
  <2>1. CASE p.op = "create" \/ p.op = "write"
    <3>1. disk' = [disk EXCEPT ![p.to] = NewText(p)] /\ dirs' = dirs
      BY <1>3, <2>1 DEF Perform, Deletes
    <3>2. PICK i \in Items(p) : p.after[i].path = p.to
      BY <2>1 DEF JournalOK
    <3>3. p.after[i] \in Row
      <4>1. p.to \in Paths /\ p.after[i] \in Row \cup {Gone}
        BY <2>1, <3>2 DEF JournalOK
      <4>2. p.to # Nothing /\ Gone.path = Nothing
        BY <4>1, NamesAre DEF Gone
      <4> QED BY <3>2, <4>1, <4>2
    <3>4. NewText(p) \in {p.after[j].text : j \in Items(p)}
      BY <3>2 DEF NewText
    <3>5. PICK k \in Items(p) : Items(p) = {k}
      BY <2>1 DEF JournalOK
    <3>6. NewText(p) \in SUBSET Entries
      BY <3>3, <3>4, <3>5 DEF Row
    <3> QED BY <3>1, <3>6 DEF StoreOK
  <2>2. CASE p.op = "move"
    <3>1. disk' = [disk EXCEPT ![p.to] = disk[From(p)], ![From(p)] = Nothing] /\ dirs' = dirs
      BY <1>3, <2>2 DEF Perform, Deletes
    <3>2. PICK i \in Items(p) : Items(p) = {i}
      BY <2>2 DEF JournalOK
    <3>3. From(p) \in {p.before[j].path : j \in Items(p)}
      BY <3>2 DEF From
    <3>4. From(p) \in Paths
      BY <2>2, <3>2, <3>3 DEF JournalOK, Row
    <3> QED BY <3>1, <3>4 DEF StoreOK
  <2>3. CASE p.op = "mkdir"
    BY <1>3, <2>3 DEF Perform, Deletes, StoreOK, JournalOK
  <2>4. CASE p.op = "move tree"
    <3>1. Rename(p) /\ p.to \in Dirs /\ p.base.name \in Dirs
      BY <1>3, <2>4 DEF Perform, Deletes, JournalOK, OnTree, FolderRow
    <3>2. \A q \in Paths : <<p.base.name, q[2]>> \in Paths
      BY <3>1, NamesAre
    <3> QED BY <3>1, <3>2 DEF Rename, StoreOK
  <2>5. CASE Deletes(p)
    <3>1. Erase(p, Doomed(p))
      BY <1>3, <2>5 DEF Perform, Deletes
    <3> QED BY <1>2, <3>1
  <2> QED BY <2>1, <2>2, <2>3, <2>4, <2>5 DEF Operations, Deletes
<1> QED BY <1>1, <1>2, <1>3

LEMMA PublishType ==
    ASSUME RequestsOK, ClaimsOK, NEW m \in Mutations, state[m] # "none", NEW t \in Nat, Publish(m, t)
    PROVE  marker' \in [Scopes -> Nat]
<1>1. hold[m] \in [Claims(plan[m]) -> Nat]
  BY DEF RequestsOK, RequestOK
<1>2. \A s \in Claims(plan[m]) : Generation(m, t, s) \in Nat
  BY <1>1 DEF Generation
<1> QED BY <1>2 DEF Publish, ClaimsOK

\* A request that goes on, and a change that is settled, leave the journals alone.
LEMMA RequestsGoOn ==
    ASSUME RequestsOK, NEW m \in Mutations, UNCHANGED <<plan, intent, hold>>,
           \/ phase' = phase
           \/ /\ phase[m] # "idle"
              /\ \E x \in {"installed", "refused", "gone"} :
                    phase' = [phase EXCEPT ![m] = x] /\ (x # "gone" => state[m] # "none"),
           \/ state' = state
           \/ state[m] # "none" /\ \E y \in {"completed", "failed"} : state' = [state EXCEPT ![m] = y]
    PROVE  RequestsOK' /\ \A n \in Mutations : state[n] # "none" => state'[n] # "none"
<1>1. phase' \in [Mutations -> {"idle", "editing", "read", "begun", "installed", "refused", "gone"}]
  BY DEF RequestsOK
<1>2. state' \in [Mutations -> {"none", "prepared", "completed", "failed"}]
  BY DEF RequestsOK
<1>3. \A n \in Mutations : state[n] # "none" <=> state'[n] # "none"
  BY <1>2 DEF RequestsOK
<1>4. ASSUME NEW n \in Mutations PROVE RequestOK(n)'
  <2>1. phase'[n] = phase[n] \/ (n = m /\ phase[n] # "idle" /\ phase'[n] \in {"installed", "refused", "gone"}
                                 /\ (phase'[n] # "gone" => state[n] # "none"))
    BY DEF RequestsOK
  <2>2. RequestOK(n)
    BY DEF RequestsOK
  <2> QED BY <1>3, <2>1, <2>2 DEF RequestOK
<1> QED BY <1>1, <1>2, <1>3, <1>4 DEF RequestsOK

LEMMA ReconcilersGoOn ==
    ASSUME ReconcilersOK, \A n \in Mutations : state[n] # "none" => state'[n] # "none",
           \/ rec' = rec
           \/ \E r \in Reconcilers : rec' = [rec EXCEPT ![r] = Idle]
           \/ rec' = [r \in Reconcilers |-> Idle]
    PROVE  ReconcilersOK'
<1>1. \A r \in Reconcilers : rec'[r] = rec[r] \/ rec'[r] = Idle
  BY DEF ReconcilersOK
<1>2. rec' \in [Reconcilers -> {Idle} \cup Reconciling]
  BY DEF ReconcilersOK
<1>3. ASSUME NEW r \in Reconcilers, rec'[r] # Idle PROVE state'[rec'[r].of] # "none"
  <2>1. rec'[r] = rec[r] /\ rec[r] \in Reconciling
    BY <1>1, <1>3 DEF ReconcilersOK
  <2> QED BY <1>3, <2>1 DEF ReconcilersOK, Reconciling
<1> QED BY <1>2, <1>3 DEF ReconcilersOK

LEMMA FaultType ==
    ASSUME WorkspaceAssumption, faults \in 0 .. MaxFaults, drifted \in BOOLEAN, Fault \/ UNCHANGED trouble
    PROVE  faults' \in 0 .. MaxFaults /\ drifted' \in BOOLEAN
<1>1. drifted' = drifted
  BY DEF Fault, trouble
<1>2. faults' \in 0 .. MaxFaults
  BY DEF Fault, trouble, WorkspaceAssumption
<1> QED BY <1>1, <1>2

\* What a step of a reconciler's record may become.
LEMMA ReconcilerStepType ==
    ASSUME ReconcilersOK, NEW r \in Reconcilers, rec[r] # Idle,
           \A n \in Mutations : state[n] # "none" => state'[n] # "none",
           NEW step \in {"took", "advanced", "examined"},
           NEW verdict \in {"none", "applied", "not applied", "neither"},
           rec' = [rec EXCEPT ![r].step = step, ![r].verdict = verdict]
    PROVE  ReconcilersOK'
<1>1. rec[r] \in Reconciling /\ state[rec[r].of] # "none"
  BY DEF ReconcilersOK
<1>2. [rec[r] EXCEPT !.step = step, !.verdict = verdict] \in Reconciling
      /\ [rec[r] EXCEPT !.step = step, !.verdict = verdict].of = rec[r].of
  BY <1>1 DEF Reconciling
<1>3. rec' = [rec EXCEPT ![r] = [rec[r] EXCEPT !.step = step, !.verdict = verdict]]
  BY DEF ReconcilersOK
<1>4. rec' \in [Reconcilers -> {Idle} \cup Reconciling]
  BY <1>2, <1>3 DEF ReconcilersOK
<1>5. ASSUME NEW q \in Reconcilers, rec'[q] # Idle PROVE state'[rec'[q].of] # "none"
  <2>1. CASE q = r
    BY <1>1, <1>2, <1>3, <2>1 DEF ReconcilersOK, Reconciling
  <2>2. CASE q # r
    <3>1. rec'[q] = rec[q] /\ rec[q] \in Reconciling
      BY <1>3, <1>5, <2>2 DEF ReconcilersOK
    <3> QED BY <1>5, <3>1 DEF ReconcilersOK, Reconciling
  <2> QED BY <2>1, <2>2
<1> QED BY <1>4, <1>5 DEF ReconcilersOK

\* Each step of a request keeps the types.
LEMMA RequestType ==
    ASSUME WorkspaceAssumption, WsTypeOK, NEW m \in Mutations, Request(m)
    PROVE  WsTypeOK'
<1> USE DEF tables, journal, claims, store
<1>a. \A n \in Mutations : RequestOK(n)
  BY DEF WsTypeOK, RequestsOK
<1>b. ASSUME UNCHANGED trouble \/ Fault PROVE faults' \in 0 .. MaxFaults /\ drifted' \in BOOLEAN
  BY <1>b, FaultType DEF WsTypeOK
<1>c. ASSUME UNCHANGED tables PROVE RowsOK'
  BY <1>c DEF WsTypeOK, RowsOK
<1>d. ASSUME UNCHANGED claims, UNCHANGED marker PROVE ClaimsOK'
  BY <1>d DEF WsTypeOK, ClaimsOK
<1>e. ASSUME UNCHANGED store PROVE StoreOK'
  BY <1>e DEF WsTypeOK, StoreOK
<1>f. ASSUME UNCHANGED wsStatus PROVE wsStatus' \in {"active", "draining"}
  BY <1>f DEF WsTypeOK
\* A new journal or intent of a request that has no row yet.
<1>g. ASSUME NEW p, JournalOK(p), p.op \in Operations, phase[m] \in {"idle", "editing"},
             \E x \in {"editing", "read"} : phase' = [phase EXCEPT ![m] = x]
                                            /\ (x = "editing" => p.op = "write"),
             plan' = [plan EXCEPT ![m] = p],
             \E n \in Mutations : intent' = intent \/ intent' = [intent EXCEPT ![m] = n],
             UNCHANGED <<state, hold>>
      PROVE  RequestsOK'
  <2>1. state[m] = "none"
    BY <1>a, <1>g DEF RequestOK
  <2>2. /\ phase' \in [Mutations -> {"idle", "editing", "read", "begun", "installed", "refused", "gone"}]
        /\ intent' \in [Mutations -> Mutations] /\ DOMAIN plan' = Mutations
    BY <1>g DEF WsTypeOK, RequestsOK
  <2>3. ASSUME NEW n \in Mutations PROVE RequestOK(n)'
    <3>1. CASE n = m
      <4>1. plan'[m] = p /\ phase'[m] \in {"editing", "read"} /\ state'[m] = "none"
            /\ (phase'[m] = "editing" => p.op = "write")
        BY <1>g, <2>1 DEF WsTypeOK, RequestsOK
      <4> QED BY <1>g, <3>1, <4>1 DEF RequestOK
    <3>2. CASE n # m
      <4>1. plan'[n] = plan[n] /\ phase'[n] = phase[n] /\ state'[n] = state[n] /\ hold'[n] = hold[n]
        BY <1>g, <3>2 DEF WsTypeOK, RequestsOK
      <4> QED BY <1>a, <4>1 DEF RequestOK
    <3> QED BY <3>1, <3>2
  <2> QED BY <1>g, <2>2, <2>3 DEF WsTypeOK, RequestsOK
<1>1. CASE Read(m)
  <2>1. PICK p \in CreatePlans(m) \cup MkdirPlans \cup RestorePlans \cup MovePlans \cup MoveTreePlans \cup DeletePlans :
           plan' = [plan EXCEPT ![m] = p]
    BY <1>1 DEF Read
  <2>2. JournalOK(p) /\ p.op \in Operations
    BY <2>1, PlansOK DEF WsTypeOK
  <2>3. RequestsOK'
    BY <1>1, <1>g, <2>1, <2>2 DEF Read
  <2>4. ReconcilersOK'
    BY <1>1, ReconcilersGoOn DEF Read, WsTypeOK
  <2> QED BY <1>1, <1>b, <1>c, <1>d, <1>e, <1>f, <2>3, <2>4 DEF Read, WsTypeOK
<1>2. CASE Draft(m)
  <2>1. PICK e \in Present : plan' = [plan EXCEPT ![m] = Edit(e, tree[e].text \cup {m})]
    BY <1>2 DEF Draft
  <2>2. tree[e].text \cup {m} \in SUBSET Entries
    BY DEF Present, WsTypeOK, RowsOK, Row, Entries
  <2>3. JournalOK(Edit(e, tree[e].text \cup {m})) /\ Edit(e, tree[e].text \cup {m}).op = "write"
    BY <2>2, EditOK DEF WsTypeOK
  <2>4. RequestsOK'
    BY <1>2, <1>g, <2>1, <2>3 DEF Draft, Operations
  <2>5. ReconcilersOK'
    BY <1>2, ReconcilersGoOn DEF Draft, WsTypeOK
  <2> QED BY <1>2, <1>b, <1>c, <1>d, <1>e, <1>f, <2>4, <2>5 DEF Draft, WsTypeOK
<1>3. ASSUME NEW n \in Mutations, Retry(m, n) PROVE WsTypeOK'
  <2>1. JournalOK(plan[n]) /\ plan[n].op = "write"
    BY <1>3, <1>a DEF Retry, RequestOK
  <2>2. RequestsOK'
    BY <1>3, <1>g, <2>1 DEF Retry, Operations
  <2>3. ReconcilersOK'
    BY <1>3, ReconcilersGoOn DEF Retry, WsTypeOK
  <2> QED BY <1>3, <1>b, <1>c, <1>d, <1>e, <1>f, <2>2, <2>3 DEF Retry, WsTypeOK
<1>4. CASE Send(m)
  <2>1. PICK e \in Items(plan[m]) :
          IF KeyIsFree(m) /\ e \in Present /\ MergeOf(m, tree[e]) # tree[e].text
          THEN /\ plan' = [plan EXCEPT ![m] = Edit(e, MergeOf(m, tree[e]))]
               /\ phase' = [phase EXCEPT ![m] = "read"]
          ELSE /\ phase' = [phase EXCEPT ![m] = "gone"]
               /\ UNCHANGED plan
    BY <1>4 DEF Send
  <2>2. JournalOK(plan[m]) /\ plan[m].op = "write"
    BY <1>4, <1>a DEF Send, RequestOK
  <2>3. RequestsOK'
    <3>1. CASE KeyIsFree(m) /\ e \in Present /\ MergeOf(m, tree[e]) # tree[e].text
      <4>1. (CHOOSE i \in Items(plan[m]) : TRUE) \in Items(plan[m])
        BY <2>1
      <4>2. plan[m].after[CHOOSE i \in Items(plan[m]) : TRUE] \in Row /\ tree[e] \in Row
        BY <2>2, <3>1, <4>1 DEF JournalOK, Present, WsTypeOK, RowsOK
      <4>3. MergeOf(m, tree[e]) \in SUBSET Entries
        BY <4>2 DEF MergeOf, Row
      <4>4. JournalOK(Edit(e, MergeOf(m, tree[e]))) /\ Edit(e, MergeOf(m, tree[e])).op = "write"
        BY <3>1, <4>3, EditOK DEF WsTypeOK
      <4> QED BY <1>4, <1>g, <2>1, <3>1, <4>4 DEF Send, Operations
    <3>2. CASE ~(KeyIsFree(m) /\ e \in Present /\ MergeOf(m, tree[e]) # tree[e].text)
      BY <1>4, <2>1, <3>2, RequestsGoOn DEF Send, WsTypeOK
    <3> QED BY <3>1, <3>2
  <2>4. ReconcilersOK'
    BY <1>4, ReconcilersGoOn DEF Send, WsTypeOK
  <2> QED BY <1>4, <1>b, <1>c, <1>d, <1>e, <1>f, <2>3, <2>4 DEF Send, WsTypeOK
<1>5. CASE Begin(m)
  <2>1. JournalOK(plan[m]) /\ plan[m].op \in Operations /\ state[m] = "none"
    BY <1>5, <1>a DEF Begin, RequestOK
  <2>2. Claims(plan[m]) \subseteq Scopes
    BY <2>1, ClaimsAreScopes
  <2>3. gen' \in [Scopes -> Nat] /\ [s \in Claims(plan[m]) |-> gen[s] + 1] \in [Claims(plan[m]) -> Nat]
    BY <1>5, <2>2 DEF Begin, WsTypeOK, ClaimsOK
  <2>4. ClaimsOK'
    BY <1>5, <2>3 DEF Begin, WsTypeOK, ClaimsOK
  <2>5. RequestsOK'
    <3>1. ASSUME NEW n \in Mutations PROVE RequestOK(n)'
      BY <1>5, <1>a, <2>1, <2>3 DEF Begin, WsTypeOK, RequestsOK, RequestOK
    <3> QED BY <1>5, <3>1 DEF Begin, WsTypeOK, RequestsOK
  <2>6. \A n \in Mutations : state[n] # "none" => state'[n] # "none"
    BY <1>5 DEF Begin, WsTypeOK, RequestsOK
  <2>7. ReconcilersOK'
    BY <1>5, <2>6, ReconcilersGoOn DEF Begin, WsTypeOK
  <2> QED BY <1>5, <1>b, <1>c, <1>e, <1>f, <2>4, <2>5, <2>7 DEF Begin, WsTypeOK
<1>6. CASE BeginRefused(m) \/ RecordRefused(m) \/ Die(m)
  <2>1. Go(m) /\ phase[m] # "idle" /\ (UNCHANGED trouble \/ Fault)
    BY <1>6 DEF BeginRefused, RecordRefused, Die
  <2>2. RequestsOK' /\ ReconcilersOK'
    BY <2>1, RequestsGoOn, ReconcilersGoOn DEF Go, WsTypeOK
  <2> QED BY <1>b, <1>c, <1>d, <1>e, <1>f, <2>1, <2>2 DEF Go, WsTypeOK
<1>7. CASE Run(m) \/ RunUnheard(m)
  <2>1. JournalOK(plan[m]) /\ plan[m].op \in Operations /\ state[m] # "none"
    BY <1>7, <1>a DEF Run, RunUnheard, RequestOK
  <2>2. ClaimsOK'
    <3>1. marker' \in [Scopes -> Nat]
      BY <1>7, <2>1, PublishType DEF Run, RunUnheard, WsTypeOK
    <3> QED BY <1>7, <3>1 DEF Run, RunUnheard, WsTypeOK, ClaimsOK
  <2>3. StoreOK'
    BY <1>7, <2>1, StoreType DEF Run, RunUnheard, WsTypeOK
  <2>4. RequestsOK' /\ ReconcilersOK'
    BY <1>7, <2>1, RequestsGoOn, ReconcilersGoOn DEF Run, RunUnheard, WsTypeOK
  <2> QED BY <1>7, <1>b, <1>c, <1>f, <2>2, <2>3, <2>4 DEF Run, RunUnheard, WsTypeOK
<1>8. CASE RunFenced(m)
  <2>1. state[m] # "none"
    BY <1>8, <1>a DEF RunFenced, RequestOK
  <2>2. hold[m] \in [Claims(plan[m]) -> Nat]
    BY <2>1, <1>a DEF RequestOK
  <2>3. ClaimsOK'
    BY <1>8, <2>2 DEF RunFenced, WsTypeOK, ClaimsOK
  <2>4. RequestsOK' /\ ReconcilersOK'
    BY <1>8, <2>1, RequestsGoOn, ReconcilersGoOn DEF RunFenced, WsTypeOK
  <2> QED BY <1>8, <1>b, <1>c, <1>e, <1>f, <2>3, <2>4 DEF RunFenced, WsTypeOK
<1>9. CASE Fail(m) \/ ObjectIsPruned(m)
  <2>1. RequestsOK' /\ ReconcilersOK'
    <3>1. state[m] # "none" /\ phase[m] # "idle"
      BY <1>9, <1>a DEF Fail, ObjectIsPruned, RequestOK
    <3>2. RequestsOK' /\ \A n \in Mutations : state[n] # "none" => state'[n] # "none"
      BY <1>9, <3>1, RequestsGoOn DEF Fail, ObjectIsPruned, Settle, WsTypeOK
    <3> QED BY <1>9, <3>2, ReconcilersGoOn DEF Fail, ObjectIsPruned, WsTypeOK
  <2> QED BY <1>9, <1>b, <1>c, <1>d, <1>e, <1>f, <2>1 DEF Fail, ObjectIsPruned, WsTypeOK
<1>10. CASE Record(m)
  <2>1. JournalOK(plan[m]) /\ state[m] # "none" /\ phase[m] # "idle"
    BY <1>10, <1>a DEF Record, RequestOK
  <2>2. plan[m].op = "move tree" => folder # NoFolder
    BY <1>10, <2>1 DEF Record, Unchanged, JournalOK, OnTree
  <2>3. RowsOK'
    BY <1>10, <2>1, <2>2, CommitType DEF Record, WsTypeOK
  <2>4. RequestsOK' /\ \A n \in Mutations : state[n] # "none" => state'[n] # "none"
    BY <1>10, <2>1, RequestsGoOn DEF Record, Settle, WsTypeOK
  <2>5. ReconcilersOK'
    BY <1>10, <2>4, ReconcilersGoOn DEF Record, WsTypeOK
  <2> QED BY <1>10, <1>b, <1>d, <1>e, <1>f, <2>3, <2>4, <2>5 DEF Record, WsTypeOK
<1>11. CASE Lapse(m) \/ Renew(m)
  <2>1. ClaimsOK'
    BY <1>11 DEF Lapse, Renew, WsTypeOK, ClaimsOK
  <2>2. RequestsOK' /\ ReconcilersOK'
    BY <1>11, RequestsGoOn, ReconcilersGoOn DEF Lapse, Renew, WsTypeOK
  <2> QED BY <1>11, <1>b, <1>c, <1>e, <1>f, <2>1, <2>2 DEF Lapse, Renew, WsTypeOK
<1> QED BY <1>1, <1>2, <1>3, <1>4, <1>5, <1>6, <1>7, <1>8, <1>9, <1>10, <1>11 DEF Request

\* So does each step of a reconciler, of the administrator and of a shell.
LEMMA ReconcileType ==
    ASSUME WorkspaceAssumption, WsTypeOK, NEW r \in Reconcilers, Reconcile(r)
    PROVE  WsTypeOK'
<1> USE DEF tables, journal, claims, store
<1>a. ASSUME rec[r] # Idle
      PROVE  /\ rec[r] \in Reconciling /\ rec[r].of \in Mutations /\ rec[r].turn \in Nat
             /\ state[rec[r].of] # "none" /\ JournalOK(plan[rec[r].of]) /\ plan[rec[r].of].op \in Operations
  <2>1. rec[r] \in Reconciling /\ state[rec[r].of] # "none"
    BY <1>a DEF WsTypeOK, ReconcilersOK
  <2>2. rec[r].of \in Mutations /\ rec[r].turn \in Nat
    BY <2>1 DEF Reconciling
  <2>3. RequestOK(rec[r].of)
    BY <2>2 DEF WsTypeOK, RequestsOK
  <2> QED BY <2>1, <2>2, <2>3 DEF RequestOK
<1>b. ASSUME UNCHANGED trouble \/ Fault PROVE faults' \in 0 .. MaxFaults /\ drifted' \in BOOLEAN
  BY <1>b, FaultType DEF WsTypeOK
<1>c. ASSUME UNCHANGED tables PROVE RowsOK'
  BY <1>c DEF WsTypeOK, RowsOK
<1>d. ASSUME UNCHANGED claims, UNCHANGED marker PROVE ClaimsOK'
  BY <1>d DEF WsTypeOK, ClaimsOK
<1>e. ASSUME UNCHANGED store PROVE StoreOK'
  BY <1>e DEF WsTypeOK, StoreOK
<1>f. ASSUME UNCHANGED wsStatus PROVE wsStatus' \in {"active", "draining"}
  BY <1>f DEF WsTypeOK
<1>g. ASSUME UNCHANGED <<journal, hold, phase>> PROVE RequestsOK'
  BY <1>g DEF WsTypeOK, RequestsOK, RequestOK
<1>h. ASSUME rec[r].step \in {"took", "advanced", "examined"} PROVE rec[r] # Idle
  BY <1>h DEF Idle
<1>1. ASSUME NEW m \in Mutations, Take(r, m) PROVE WsTypeOK'
  <2>1. ClaimsOK'
    BY <1>1 DEF Take, WsTypeOK, ClaimsOK
  <2>2. ReconcilersOK'
    <3>1. [step |-> "took", of |-> m, turn |-> turn[m] + 1, verdict |-> "none"] \in Reconciling
      BY DEF Reconciling, WsTypeOK, ClaimsOK
    <3> QED BY <1>1, <3>1 DEF Take, WsTypeOK, ReconcilersOK
  <2> QED BY <1>1, <1>b, <1>c, <1>e, <1>f, <1>g, <2>1, <2>2 DEF Take, WsTypeOK
<1>2. CASE Advance(r)
  <2>1. rec[r] # Idle
    BY <1>2, <1>h DEF Advance
  <2>2. ClaimsOK'
    <3>1. marker' \in [Scopes -> Nat]
      BY <1>2, <1>a, <2>1, PublishType DEF Advance, WsTypeOK, ClaimsOK
    <3> QED BY <1>2, <3>1 DEF Advance, GiveUp, WsTypeOK, ClaimsOK
  <2>3. ReconcilersOK'
    <3>1. CASE rec' = [rec EXCEPT ![r].step = "advanced"] /\ UNCHANGED state
      <4>1. rec' = [rec EXCEPT ![r].step = "advanced", ![r].verdict = rec[r].verdict]
        BY <1>a, <2>1, <3>1 DEF WsTypeOK, ReconcilersOK, Reconciling
      <4>2. rec[r].verdict \in {"none", "applied", "not applied", "neither"}
        BY <1>a, <2>1 DEF Reconciling
      <4> QED BY <2>1, <3>1, <4>1, <4>2, ReconcilerStepType DEF WsTypeOK
    <3>2. CASE GiveUp(r)
      BY <3>2, ReconcilersGoOn DEF GiveUp, WsTypeOK
    <3> QED BY <1>2, <3>1, <3>2 DEF Advance
  <2> QED BY <1>2, <1>b, <1>c, <1>e, <1>f, <1>g, <2>2, <2>3 DEF Advance, GiveUp, WsTypeOK
<1>3. CASE Examine(r)
  <2>1. rec[r] # Idle
    BY <1>3, <1>h DEF Examine
  <2>2. StoreOK'
    BY <1>3, <1>a, <2>1, StoreType DEF Examine, WsTypeOK
  <2>3. ReconcilersOK'
    <3>1. PICK verdict \in {"none", "applied", "not applied", "neither"} :
             rec' = [rec EXCEPT ![r].step = "examined", ![r].verdict = verdict]
      BY <1>3 DEF Examine, Verdict
    <3> QED BY <1>3, <2>1, <3>1, ReconcilerStepType DEF Examine, WsTypeOK
  <2> QED BY <1>3, <1>b, <1>c, <1>d, <1>f, <1>g, <2>2, <2>3 DEF Examine, WsTypeOK
<1>4. CASE ExamineFenced(r) \/ ConcludeRefused(r) \/ ReconcilerFails(r)
  <2>1. GiveUp(r) /\ UNCHANGED marker /\ (UNCHANGED trouble \/ Fault)
    BY <1>4 DEF ExamineFenced, ConcludeRefused, ReconcilerFails
  <2>2. ReconcilersOK'
    BY <2>1, ReconcilersGoOn DEF GiveUp, WsTypeOK
  <2> QED BY <1>b, <1>c, <1>d, <1>e, <1>f, <1>g, <2>1, <2>2 DEF GiveUp, WsTypeOK
<1>5. CASE Conclude(r)
  <2> DEFINE m == rec[r].of
  <2>1. rec[r] # Idle /\ m \in Mutations /\ JournalOK(plan[m]) /\ state[m] # "none"
    BY <1>5, <1>a, <1>h DEF Conclude
  <2>2. RowsOK'
    <3>1. CASE rec[r].verdict = "applied"
      <4>1. plan[m].op = "move tree" => folder # NoFolder
        BY <1>5, <2>1, <3>1 DEF Conclude, Unchanged, JournalOK, OnTree
      <4> QED BY <1>5, <2>1, <3>1, <4>1, CommitType DEF Conclude, WsTypeOK
    <3>2. CASE rec[r].verdict # "applied"
      BY <1>5, <1>c, <3>2 DEF Conclude
    <3> QED BY <3>1, <3>2
  <2>3. RequestsOK' /\ \A n \in Mutations : state[n] # "none" => state'[n] # "none"
    <3>1. \E y \in {"completed", "failed"} : state' = [state EXCEPT ![m] = y]
      BY <1>5 DEF Conclude, Settle
    <3>2. UNCHANGED <<plan, intent, hold, phase>>
      BY <1>5 DEF Conclude, Settle
    <3> QED BY <2>1, <3>1, <3>2, RequestsGoOn DEF WsTypeOK
  <2>4. ReconcilersOK'
    BY <1>5, <2>3, ReconcilersGoOn DEF Conclude, WsTypeOK
  <2> QED BY <1>5, <1>b, <1>d, <1>e, <1>f, <2>2, <2>3, <2>4 DEF Conclude, WsTypeOK
<1> QED BY <1>1, <1>2, <1>3, <1>4, <1>5 DEF Reconcile

LEMMA AdminType ==
    ASSUME WorkspaceAssumption, WsTypeOK, Admin PROVE WsTypeOK'
<1> USE DEF tables, journal, claims, store
<1>1. CASE BeginDrain \/ FinishDrain
  <2>1. UNCHANGED <<tables, journal, claims, marker, store, phase, rec, trouble>>
        /\ wsStatus' \in {"active", "draining"}
    BY <1>1 DEF BeginDrain, FinishDrain
  <2>2. RowsOK' /\ RequestsOK' /\ ClaimsOK' /\ StoreOK' /\ ReconcilersOK'
    BY <2>1 DEF WsTypeOK, RowsOK, RequestsOK, RequestOK, ClaimsOK, StoreOK, ReconcilersOK
  <2> QED BY <2>1, <2>2, FaultType DEF WsTypeOK
<1>2. CASE Rebuild
  <2>1. RowsOK' /\ StoreOK' /\ ClaimsOK'
    BY <1>2 DEF Rebuild, WsTypeOK, RowsOK, StoreOK, ClaimsOK
  <2>2. RequestsOK'
    <3>1. ASSUME NEW n \in Mutations PROVE RequestOK(n)'
      BY <1>2 DEF Rebuild, WsTypeOK, RequestsOK, RequestOK
    <3> QED BY <1>2, <3>1 DEF Rebuild, WsTypeOK, RequestsOK
  <2>3. ReconcilersOK'
    BY <1>2, ReconcilersGoOn DEF Rebuild, WsTypeOK
  <2> QED BY <1>2, <2>1, <2>2, <2>3, FaultType DEF Rebuild, WsTypeOK
<1> QED BY <1>1, <1>2 DEF Admin

LEMMA DriftType ==
    ASSUME WorkspaceAssumption, WsTypeOK, NEW path \in Paths, Drift(path) PROVE WsTypeOK'
<1> USE DEF tables, journal, claims
<1>1. RowsOK' /\ RequestsOK' /\ ClaimsOK' /\ ReconcilersOK'
  BY DEF Drift, WsTypeOK, RowsOK, RequestsOK, RequestOK, ClaimsOK, ReconcilersOK
<1>2. StoreOK'
  <2>1. \A e \in Files : {e} \in SUBSET Entries
    BY DEF Entries
  <2> QED BY <2>1 DEF Drift, WsTypeOK, StoreOK
<1>3. faults' \in 0 .. MaxFaults
  BY DEF Drift, WsTypeOK, WorkspaceAssumption
<1>4. drifted' \in BOOLEAN
  BY DEF Drift
<1> QED BY <1>1, <1>2, <1>3, <1>4 DEF Drift, WsTypeOK

LEMMA TypeStep == ASSUME WsTypeOK, [WsNext]_wsVars PROVE WsTypeOK'
<1>1. CASE WsNext
  BY <1>1, WorkspaceAssumption, RequestType, ReconcileType, AdminType, DriftType DEF WsNext
<1>2. CASE UNCHANGED wsVars
  BY <1>2 DEF wsVars, tables, journal, claims, store, trouble, WsTypeOK, RowsOK, RequestsOK, RequestOK,
              ClaimsOK, StoreOK, ReconcilersOK
<1> QED BY <1>1, <1>2

\* The types hold in every state of the workspace.
THEOREM WsTypeCorrect == WsSpec => []WsTypeOK
<1>1. WsInit => WsTypeOK
  BY InitTypeOK, WorkspaceAssumption
<1>2. WsTypeOK /\ [WsNext]_wsVars => WsTypeOK'
  BY TypeStep
<1> QED BY <1>1, <1>2, PTL DEF WsSpec

-----------------------------------------------------------------------------
(* What a step leaves alone.                                               *)

\* Who begins a change, and who settles it.
LEMMA StatesMove ==
    ASSUME WsTypeOK, [WsNext]_wsVars, NEW m \in Mutations
    PROVE  \/ state'[m] = state[m]
           \/ Begin(m)
           \/ ((Fail(m) \/ Record(m)) /\ StillOwns(m, 0))
           \/ \E r \in Reconcilers : Conclude(r) /\ rec[r].of = m
<1> USE DEF tables, journal, claims, store
<1>0. DOMAIN state = Mutations
  BY DEF WsTypeOK, RequestsOK
<1>a. ASSUME NEW n \in Mutations,
             \/ Read(n) \/ Draft(n) \/ (\E k \in Mutations : Retry(n, k)) \/ Send(n) \/ BeginRefused(n)
             \/ Run(n) \/ RunUnheard(n) \/ RunFenced(n) \/ ObjectIsPruned(n) \/ RecordRefused(n) \/ Die(n)
             \/ Lapse(n) \/ Renew(n)
      PROVE  state' = state
  BY <1>a DEF Read, Draft, Retry, Send, BeginRefused, Go, Run, RunUnheard, RunFenced, ObjectIsPruned,
              RecordRefused, Die, Lapse, Renew
<1>b. ASSUME NEW n \in Mutations, n # m, Begin(n) \/ Fail(n) \/ Record(n) PROVE state'[m] = state[m]
  BY <1>0, <1>b DEF Begin, Fail, Record, Settle
<1>c. ASSUME Fail(m) \/ Record(m) PROVE state' = state \/ StillOwns(m, 0)
  BY <1>c DEF Fail, Record
<1>1. ASSUME NEW n \in Mutations, Request(n)
      PROVE  state'[m] = state[m] \/ Begin(m) \/ ((Fail(m) \/ Record(m)) /\ StillOwns(m, 0))
  BY <1>1, <1>a, <1>b, <1>c DEF Request
<1>2. ASSUME NEW r \in Reconcilers, Reconcile(r)
      PROVE  state'[m] = state[m] \/ (Conclude(r) /\ rec[r].of = m)
  <2>1. CASE Conclude(r)
    BY <1>0, <2>1 DEF Conclude, Settle
  <2>2. CASE \/ (\E k \in Mutations : Take(r, k)) \/ Advance(r) \/ Examine(r) \/ ExamineFenced(r)
             \/ ConcludeRefused(r) \/ ReconcilerFails(r)
    BY <2>2 DEF Take, Advance, Examine, ExamineFenced, ConcludeRefused, ReconcilerFails, GiveUp
  <2> QED BY <1>2, <2>1, <2>2 DEF Reconcile
<1>3. ASSUME Admin \/ \E path \in Paths : Drift(path) PROVE state' = state
  BY <1>3 DEF Admin, BeginDrain, FinishDrain, Rebuild, Drift
<1>4. ASSUME UNCHANGED wsVars PROVE state' = state
  BY <1>4 DEF wsVars
<1> QED BY <1>1, <1>2, <1>3, <1>4 DEF WsNext

\* A journal and what its owner holds are fixed once the change has begun;
\* turns are only added.
LEMMA JournalsStay ==
    ASSUME WsTypeOK, [WsNext]_wsVars, NEW m \in Mutations, state[m] # "none"
    PROVE  /\ plan'[m] = plan[m] /\ intent'[m] = intent[m] /\ hold'[m] = hold[m]
           /\ turn'[m] \in Nat /\ turn'[m] >= turn[m] /\ state'[m] # "none"
<1> USE DEF tables, journal, claims, store
<1>0. /\ DOMAIN plan = Mutations /\ DOMAIN intent = Mutations /\ DOMAIN hold = Mutations
      /\ DOMAIN turn = Mutations /\ \A n \in Mutations : turn[n] \in Nat
      /\ phase[m] \notin {"idle", "editing", "read"}
  BY DEF WsTypeOK, RequestsOK, RequestOK, ClaimsOK
<1> DEFINE Same == plan'[m] = plan[m] /\ intent'[m] = intent[m] /\ hold'[m] = hold[m]
<1>1. ASSUME NEW n \in Mutations, Request(n) PROVE Same /\ UNCHANGED turn
  <2>1. CASE Read(n) \/ Draft(n) \/ (\E k \in Mutations : Retry(n, k)) \/ Send(n)
    <3>1. n # m /\ UNCHANGED <<hold, turn>>
      BY <1>0, <2>1 DEF Read, Draft, Retry, Send
    <3>2. plan'[m] = plan[m] /\ intent'[m] = intent[m]
      BY <1>0, <2>1, <3>1 DEF Read, Draft, Retry, Send
    <3> QED BY <3>1, <3>2
  <2>2. CASE Begin(n)
    BY <1>0, <2>2 DEF Begin
  <2>3. CASE Fail(n) \/ Record(n)
    BY <2>3 DEF Fail, Record, Settle
  <2>4. CASE \/ BeginRefused(n)
             \/ Run(n) \/ RunUnheard(n) \/ RunFenced(n) \/ ObjectIsPruned(n) \/ RecordRefused(n) \/ Die(n)
             \/ Lapse(n) \/ Renew(n)
    BY <2>4 DEF BeginRefused, Go, Run, RunUnheard, RunFenced, ObjectIsPruned,
                RecordRefused, Die, Lapse, Renew
  <2> QED BY <1>1, <2>1, <2>2, <2>3, <2>4 DEF Request
<1>2. ASSUME NEW r \in Reconcilers, Reconcile(r) PROVE Same /\ turn'[m] \in Nat /\ turn'[m] >= turn[m]
  <2>1. ASSUME NEW k \in Mutations, Take(r, k) PROVE turn'[m] \in Nat /\ turn'[m] >= turn[m]
    <3>1. turn'[m] = turn[m] \/ turn'[m] = turn[m] + 1
      BY <1>0, <2>1 DEF Take
    <3> QED BY <1>0, <3>1
  <2>2. ASSUME NEW k \in Mutations, Take(r, k) PROVE Same
    BY <2>2 DEF Take
  <2>3. CASE Conclude(r)
    BY <1>0, <2>3 DEF Conclude, Settle
  <2>4. CASE \/ Advance(r) \/ Examine(r) \/ ExamineFenced(r) \/ ConcludeRefused(r) \/ ReconcilerFails(r)
    BY <1>0, <2>4 DEF Advance, Examine, ExamineFenced, ConcludeRefused, ReconcilerFails, GiveUp
  <2> QED BY <1>2, <2>1, <2>2, <2>3, <2>4 DEF Reconcile
<1>3. ASSUME Admin \/ (\E path \in Paths : Drift(path)) \/ UNCHANGED wsVars PROVE Same /\ UNCHANGED turn
  BY <1>3 DEF Admin, BeginDrain, FinishDrain, Rebuild, Drift, wsVars
<1>4. Same /\ turn'[m] \in Nat /\ turn'[m] >= turn[m]
  BY <1>0, <1>1, <1>2, <1>3 DEF WsNext
<1>5. state'[m] # "none"
  BY StatesMove DEF Begin, Fail, Record, Conclude, Settle, StillOwns, WsTypeOK, RequestsOK
<1> QED BY <1>4, <1>5

-----------------------------------------------------------------------------
(* Draining, and idempotency keys.                                         *)

LEMMA DrainStep == ASSUME WsTypeOK, DrainIsQuiet, [WsNext]_wsVars PROVE DrainIsQuiet'
<1> USE DEF tables, journal, claims, store
<1>1. SUFFICES ASSUME wsStatus' = "draining", NEW m \in Mutations, state'[m] = "prepared" PROVE FALSE
  BY DEF DrainIsQuiet, Prepared
<1>2. CASE BeginDrain
  BY <1>1, <1>2 DEF BeginDrain, Prepared
<1>3. CASE ~BeginDrain
  <2>1. wsStatus = "draining"
    BY <1>1, <1>3 DEF WsNext, Request, Reconcile, Admin, Read, Draft, Retry, Send, Begin, BeginRefused, Go,
                      Run, RunUnheard, RunFenced, Fail, ObjectIsPruned, Record, RecordRefused, Die, Lapse,
                      Renew, Take, Advance, Examine, ExamineFenced, Conclude, ConcludeRefused, ReconcilerFails,
                      GiveUp, FinishDrain, Rebuild, Drift, wsVars
  <2>2. state[m] # "prepared"
    BY <2>1 DEF DrainIsQuiet, Prepared
  <2>3. Begin(m)
    BY <1>1, <2>2, StatesMove DEF StillOwns, Fail, Record, Conclude, Settle, WsTypeOK, RequestsOK
  <2> QED BY <2>1, <2>3 DEF Begin, Admissible
<1> QED BY <1>2, <1>3

\* No change is open while the sandbox is being switched.
THEOREM DrainIsQuietHolds == WsSpec => []DrainIsQuiet
<1>1. WsInit => DrainIsQuiet
  BY DEF WsInit, DrainIsQuiet
<1>2. WsTypeOK /\ DrainIsQuiet /\ [WsNext]_wsVars => DrainIsQuiet'
  BY DrainStep
<1> QED BY <1>1, <1>2, WsTypeCorrect, PTL DEF WsSpec

\* Of the requests that carry one key at most one has a row.
KeyInv ==
    \A m, n \in Mutations : m # n /\ intent[m] = intent[n] => state[m] = "none" \/ state[n] = "none"

LEMMA KeyStep == ASSUME WsTypeOK, KeyInv, [WsNext]_wsVars PROVE KeyInv'
<1>1. SUFFICES ASSUME NEW m \in Mutations, NEW n \in Mutations, m # n, intent'[m] = intent'[n],
                      state'[m] # "none", state'[n] # "none"
               PROVE  FALSE
  BY DEF KeyInv
<1>2. ASSUME NEW k \in Mutations, state'[k] # "none", state[k] = "none" PROVE Begin(k)
  BY <1>2, StatesMove DEF StillOwns, Conclude, MayConclude
<1>3. ASSUME NEW k \in Mutations, NEW l \in Mutations, k # l, Begin(k), intent'[k] = intent'[l]
      PROVE  state'[l] = "none"
  BY <1>3 DEF Begin, Admissible, KeyIsFree, WsTypeOK, RequestsOK
<1>4. CASE state[m] = "none" \/ state[n] = "none"
  BY <1>1, <1>2, <1>3, <1>4
<1>5. CASE state[m] # "none" /\ state[n] # "none"
  BY <1>1, <1>5, JournalsStay DEF KeyInv
<1> QED BY <1>4, <1>5

\* One idempotency key has one effect, however often a client retries.
THEOREM OneEffectPerKeyHolds == WsSpec => []OneEffectPerKey
<1>1. WsInit => KeyInv
  BY DEF WsInit, KeyInv
<1>2. WsTypeOK /\ KeyInv /\ [WsNext]_wsVars => KeyInv'
  BY KeyStep
<1>3. KeyInv => OneEffectPerKey
  BY DEF KeyInv, OneEffectPerKey
<1> QED BY <1>1, <1>2, <1>3, WsTypeCorrect, PTL DEF WsSpec

-----------------------------------------------------------------------------
(* The fence.                                                              *)

\* What a reconciler knows: its turn is one of those that were taken and no
\* other's, the markers have reached it once they were brought up to date, and
\* a deletion it is at is open unless a newer turn has reached the sandbox.
Knows(r) ==
    LET m == rec[r].of
        t == rec[r].turn
    IN /\ t \in 1 .. turn[m]
       /\ rec[r].step # "took" => \A s \in Claims(plan[m]) : marker[s] >= hold[m][s] + t
       /\ rec[r].step = "advanced" /\ Deletes(plan[m]) => state[m] = "prepared" \/ Stale(m, t)
       /\ \A q \in Reconcilers \ {r} : rec[q] # Idle /\ rec[q].of = m => rec[q].turn # t

\* A script that is still to run belongs to an open change or is turned away.
FenceInv ==
    /\ \A m \in Mutations : phase[m] = "begun" => state[m] = "prepared" \/ Stale(m, 0)
    /\ \A r \in Reconcilers : rec[r] # Idle => Knows(r)

LEMMA ReconcilersAre ==
    ASSUME WsTypeOK, NEW r \in Reconcilers, rec[r] # Idle
    PROVE  /\ rec[r] \in Reconciling /\ rec[r].of \in Mutations /\ rec[r].turn \in Nat
           /\ state[rec[r].of] # "none"
<1>1. rec[r] \in Reconciling /\ state[rec[r].of] # "none"
  BY DEF WsTypeOK, ReconcilersOK
<1> QED BY <1>1 DEF Reconciling

\* The journal of a change that has begun claims scopes, with generations.
LEMMA HoldsAre ==
    ASSUME WsTypeOK, NEW m \in Mutations, state[m] # "none"
    PROVE  /\ Claims(plan[m]) \subseteq Scopes /\ Claims(plan[m]) # {}
           /\ \A s \in Claims(plan[m]) : hold[m][s] \in Nat /\ marker[s] \in Nat
<1>1. phase[m] # "idle" /\ hold[m] \in [Claims(plan[m]) -> Nat]
  BY DEF WsTypeOK, RequestsOK, RequestOK
<1>2. Claims(plan[m]) \subseteq Scopes /\ Claims(plan[m]) # {}
  BY <1>1, ClaimsAreScopes DEF WsTypeOK, RequestsOK, RequestOK
<1> QED BY <1>1, <1>2 DEF WsTypeOK, ClaimsOK

\* Markers only grow, except when everything is cleared.
LEMMA MarkersGrow ==
    ASSUME WsTypeOK, [WsNext]_wsVars, ~Rebuild, NEW s \in Scopes
    PROVE  marker'[s] \in Nat /\ marker[s] \in Nat /\ marker'[s] >= marker[s]
<1> USE DEF tables, journal, claims, store
<1>0. marker \in [Scopes -> Nat] /\ marker' \in [Scopes -> Nat]
  BY TypeStep DEF WsTypeOK, ClaimsOK
<1>1. ASSUME NEW m \in Mutations, state[m] # "none", NEW t \in Nat, Passes(m, t), Publish(m, t)
      PROVE  marker'[s] >= marker[s]
  <2>1. CASE s \in Claims(plan[m])
    <3>1. marker'[s] = Generation(m, t, s) /\ marker[s] <= Generation(m, t, s)
      BY <1>1, <2>1 DEF Passes, Publish
    <3>2. Generation(m, t, s) \in Nat
      BY <1>1, <2>1, HoldsAre DEF Generation
    <3> QED BY <1>0, <3>1, <3>2
  <2>2. CASE s \notin Claims(plan[m])
    BY <1>0, <1>1, <2>2 DEF Publish
  <2> QED BY <2>1, <2>2
<1>2. ASSUME NEW m \in Mutations, Run(m) \/ RunUnheard(m) PROVE marker'[s] >= marker[s]
  <2>1. state[m] # "none"
    BY <1>2 DEF Run, RunUnheard, WsTypeOK, RequestsOK, RequestOK
  <2> QED BY <1>1, <1>2, <2>1 DEF Run, RunUnheard
<1>3. ASSUME NEW m \in Mutations, RunFenced(m) PROVE marker'[s] >= marker[s]
  <2>1. PICK S \in SUBSET {c \in Claims(plan[m]) : marker[c] < hold[m][c]} :
            marker' = [c \in Scopes |-> IF c \in S THEN hold[m][c] ELSE marker[c]]
    BY <1>3 DEF RunFenced
  <2>2. state[m] # "none"
    BY <1>3 DEF RunFenced, WsTypeOK, RequestsOK, RequestOK
  <2>3. s \in S => marker[s] < hold[m][s] /\ hold[m][s] \in Nat
    BY <2>2, HoldsAre
  <2> QED BY <1>0, <2>1, <2>3
<1>4. ASSUME NEW r \in Reconcilers, Advance(r) PROVE marker'[s] >= marker[s]
  <2>1. rec[r] # Idle
    BY <1>4 DEF Advance, Idle
  <2> QED BY <1>0, <1>1, <1>4, <2>1, ReconcilersAre DEF Advance
<1>5. ASSUME UNCHANGED marker PROVE marker'[s] >= marker[s]
  BY <1>0, <1>5
<1>6. UNCHANGED marker \/ (\E m \in Mutations : Run(m) \/ RunUnheard(m) \/ RunFenced(m))
      \/ (\E r \in Reconcilers : Advance(r))
  BY DEF WsNext, Request, Reconcile, Admin, Read, Draft, Retry, Send, Begin, BeginRefused, Go,
         Fail, ObjectIsPruned, Record, RecordRefused, Die, Lapse, Renew, Take, Examine, ExamineFenced,
         Conclude, ConcludeRefused, ReconcilerFails, GiveUp, BeginDrain, FinishDrain, Drift, wsVars
<1> QED BY <1>0, <1>2, <1>3, <1>4, <1>5, <1>6

\* So what was turned away or reached stays so.
LEMMA StaleStays ==
    ASSUME WsTypeOK, [WsNext]_wsVars, ~Rebuild, NEW m \in Mutations, state[m] # "none", NEW t \in Nat
    PROVE  /\ Stale(m, t) => Stale(m, t)'
           /\ (\A s \in Claims(plan[m]) : marker[s] >= hold[m][s] + t)
                 => (\A s \in Claims(plan[m]) : marker[s] >= hold[m][s] + t)'
<1>1. plan'[m] = plan[m] /\ hold'[m] = hold[m]
  BY JournalsStay
<1>2. Claims(plan[m]) = Claims(plan[m])'
  BY <1>1 DEF Claims, Items, ScopeOf, FileScope, TreeScope, PathScope, Inside
<1>3. \A s \in Claims(plan[m]) : /\ marker'[s] \in Nat /\ marker[s] \in Nat /\ hold[m][s] \in Nat
                                 /\ marker'[s] >= marker[s]
  BY HoldsAre, MarkersGrow
<1> QED BY <1>1, <1>2, <1>3 DEF Stale

\* The markers of the turn of a reconciler are past those of earlier turns.
LEMMA ReachedIsStale ==
    ASSUME WsTypeOK, NEW m \in Mutations, state[m] # "none", NEW t \in Nat, NEW u \in Nat, t < u,
           \A s \in Claims(plan[m]) : marker[s] >= hold[m][s] + u
    PROVE  Stale(m, t)
<1>1. PICK s \in Claims(plan[m]) : TRUE
  BY HoldsAre
<1>2. marker[s] \in Nat /\ hold[m][s] \in Nat /\ marker[s] >= hold[m][s] + u
  BY HoldsAre
<1> QED BY <1>2 DEF Stale

\* How a reconciler gets on.
LEMMA ReconcilersMove ==
    ASSUME WsTypeOK, [WsNext]_wsVars, NEW r \in Reconcilers, rec'[r] # Idle
    PROVE  /\ ~Rebuild
           /\ \/ \E m \in Mutations : Take(r, m)
              \/ /\ rec[r] # Idle /\ rec'[r].of = rec[r].of /\ rec'[r].turn = rec[r].turn
                 /\ \/ rec'[r].step = rec[r].step
                    \/ rec[r].step = "advanced" /\ rec'[r].step = "examined"
                    \/ /\ rec[r].step = "took" /\ rec'[r].step = "advanced"
                       /\ Publish(rec[r].of, rec[r].turn) /\ state[rec[r].of] = "prepared" /\ UNCHANGED state
<1> USE DEF tables, journal, claims, store
<1>0. rec \in [Reconcilers -> {Idle} \cup Reconciling] /\ DOMAIN rec = Reconcilers
  BY DEF WsTypeOK, ReconcilersOK
<1>1. ~Rebuild
  BY DEF Rebuild
<1>2. ASSUME UNCHANGED rec PROVE rec[r] # Idle /\ rec'[r] = rec[r]
  BY <1>2
<1>3. ASSUME NEW m \in Mutations, Request(m) PROVE UNCHANGED rec
  BY <1>3 DEF Request, Read, Draft, Retry, Send, Begin, BeginRefused, Go, Run, RunUnheard, RunFenced,
              Fail, ObjectIsPruned, Record, RecordRefused, Die, Lapse, Renew
<1>4. ASSUME BeginDrain \/ FinishDrain \/ (\E path \in Paths : Drift(path)) \/ UNCHANGED wsVars
      PROVE  UNCHANGED rec
  BY <1>4 DEF BeginDrain, FinishDrain, Drift, wsVars
<1>5. ASSUME NEW q \in Reconcilers, q # r, Reconcile(q) PROVE rec'[r] = rec[r]
  <2>1. \E x : rec' = [rec EXCEPT ![q] = x]
    BY <1>0, <1>5 DEF Reconcile, Take, Advance, Examine, ExamineFenced, Conclude, ConcludeRefused, ReconcilerFails, GiveUp
  <2> QED BY <1>0, <1>5, <2>1
<1>6. ASSUME GiveUp(r) \/ Conclude(r) PROVE FALSE
  BY <1>0, <1>6 DEF GiveUp, Conclude
<1>7. CASE Advance(r)
  <2>1. Passes(rec[r].of, rec[r].turn) /\ state[rec[r].of] = "prepared"
        /\ rec' = [rec EXCEPT ![r].step = "advanced"] /\ UNCHANGED state
    BY <1>6, <1>7 DEF Advance
  <2>2. rec[r] # Idle /\ rec[r].step = "took" /\ Publish(rec[r].of, rec[r].turn)
    BY <1>7, <2>1 DEF Advance, Idle
  <2>3. rec[r] \in Reconciling
    BY <1>0, <2>2
  <2>4. rec'[r].of = rec[r].of /\ rec'[r].turn = rec[r].turn /\ rec'[r].step = "advanced"
    BY <1>0, <2>1, <2>3 DEF Reconciling
  <2> QED BY <1>1, <2>1, <2>2, <2>4
<1>8. CASE Examine(r)
  <2>1. PICK v : rec' = [rec EXCEPT ![r].step = "examined", ![r].verdict = v]
    BY <1>8 DEF Examine
  <2>2. rec[r] # Idle /\ rec[r].step = "advanced"
    BY <1>8 DEF Examine, Idle
  <2>3. rec[r] \in Reconciling
    BY <1>0, <2>2
  <2>4. rec'[r].of = rec[r].of /\ rec'[r].turn = rec[r].turn /\ rec'[r].step = "examined"
    BY <1>0, <2>1, <2>3 DEF Reconciling
  <2> QED BY <1>1, <2>2, <2>4
<1>9. ASSUME Reconcile(r) PROVE (\E m \in Mutations : Take(r, m)) \/ Advance(r) \/ Examine(r)
  BY <1>6, <1>9 DEF Reconcile, ExamineFenced, ConcludeRefused, ReconcilerFails
<1>10. \/ UNCHANGED rec \/ (\E q \in Reconcilers \ {r} : Reconcile(q)) \/ Reconcile(r)
  BY <1>1, <1>3, <1>4 DEF WsNext, Admin
<1> QED BY <1>1, <1>2, <1>5, <1>7, <1>8, <1>9, <1>10

\* A script that is still to run: its request has just begun it, or was there.
LEMMA BegunWas ==
    ASSUME WsTypeOK, [WsNext]_wsVars, NEW m \in Mutations, phase'[m] = "begun"
    PROVE  /\ Begin(m) \/ phase[m] = "begun"
           /\ ~Rebuild /\ ~Fail(m) /\ ~Record(m)
<1> USE DEF tables, journal, claims, store
<1>0. DOMAIN phase = Mutations
  BY DEF WsTypeOK, RequestsOK
<1>1. ~Rebuild /\ ~Fail(m) /\ ~Record(m)
  BY <1>0 DEF Rebuild, Fail, Record
<1>2. ASSUME NEW n \in Mutations, Request(n), n # m PROVE phase'[m] = phase[m]
  <2>1. UNCHANGED phase \/ \E x : phase' = [phase EXCEPT ![n] = x]
    BY <1>2 DEF Request, Read, Draft, Retry, Send, Begin, BeginRefused, Go, Run, RunUnheard, RunFenced,
                Fail, ObjectIsPruned, Record, RecordRefused, Die, Lapse, Renew
  <2> QED BY <1>0, <1>2, <2>1
<1>3. ASSUME Request(m) PROVE Begin(m) \/ phase[m] = "begun"
  BY <1>0, <1>3 DEF Request, Read, Draft, Retry, Send, BeginRefused, Go, Run, RunUnheard, RunFenced,
                    Fail, ObjectIsPruned, Record, RecordRefused, Die, Lapse, Renew
<1>4. ASSUME \/ \E r \in Reconcilers : Reconcile(r)
             \/ BeginDrain \/ FinishDrain \/ (\E path \in Paths : Drift(path)) \/ UNCHANGED wsVars
      PROVE  UNCHANGED phase
  BY <1>4 DEF BeginDrain, FinishDrain, Drift, wsVars, Reconcile, Take, Advance, Examine, ExamineFenced, Conclude,
              ConcludeRefused, ReconcilerFails, GiveUp
<1>5. \/ UNCHANGED phase \/ (\E n \in Mutations \ {m} : Request(n)) \/ Request(m)
  BY <1>1, <1>4 DEF WsNext, Admin
<1> QED BY <1>1, <1>2, <1>3, <1>5

\* A change is settled while a reconciler of another turn is at it: by the
\* newest turn, so that the other one is stale.
LEMMA ConcludedIsStale ==
    ASSUME WsTypeOK, FenceInv, [WsNext]_wsVars, NEW r \in Reconcilers, Conclude(r)
    PROVE  /\ Stale(rec[r].of, 0)
           /\ \A q \in Reconcilers \ {r} :
                 rec[q] # Idle /\ rec[q].of = rec[r].of /\ Deletes(plan[rec[r].of])
                    => Stale(rec[r].of, rec[q].turn)
<1> DEFINE m == rec[r].of
           t == rec[r].turn
<1>1. rec[r] # Idle /\ rec[r].step = "examined"
  BY DEF Conclude, Idle
<1>2. m \in Mutations /\ t \in Nat /\ state[m] # "none" /\ turn[m] \in Nat
  BY <1>1, ReconcilersAre DEF WsTypeOK, ClaimsOK
<1>3. t \in 1 .. turn[m] /\ \A s \in Claims(plan[m]) : marker[s] >= hold[m][s] + t
  BY <1>1 DEF FenceInv, Knows
<1>4. Stale(m, 0)
  BY <1>2, <1>3, ReachedIsStale
<1>5. ASSUME NEW q \in Reconcilers \ {r}, rec[q] # Idle, rec[q].of = m, Deletes(plan[m])
      PROVE  Stale(m, rec[q].turn)
  <2>1. t = turn[m]
    BY <1>5 DEF Conclude, MayConclude, StillOwns
  <2>2. rec[q].turn \in 1 .. turn[m] /\ rec[q].turn # t
    <3>1. Knows(q) /\ Knows(r)
      BY <1>1, <1>5 DEF FenceInv
    <3> QED BY <1>5, <3>1 DEF Knows
  <2>3. rec[q].turn < t /\ rec[q].turn \in Nat
    BY <1>2, <2>1, <2>2
  <2> QED BY <1>2, <1>3, <2>3, ReachedIsStale
<1> QED BY <1>4, <1>5

LEMMA KnowsStep ==
    ASSUME WsTypeOK, FenceInv, [WsNext]_wsVars, NEW r \in Reconcilers, rec'[r] # Idle
    PROVE  Knows(r)'
<1> DEFINE m == rec[r].of
           t == rec[r].turn
<1>0. \A k \in Mutations : turn[k] \in Nat
  BY DEF WsTypeOK, ClaimsOK
<1>1. CASE \E k \in Mutations : Take(r, k)
  <2>1. PICK k \in Mutations : Take(r, k)
    BY <1>1
  <2>2. /\ rec' = [rec EXCEPT ![r] = [step |-> "took", of |-> k, turn |-> turn[k] + 1, verdict |-> "none"]]
        /\ turn' = [turn EXCEPT ![k] = turn[k] + 1]
    BY <2>1 DEF Take
  <2>3. /\ rec'[r].of = k /\ rec'[r].turn = turn[k] + 1 /\ turn'[k] = turn[k] + 1
        /\ rec'[r].step = "took"
    BY <2>2 DEF WsTypeOK, ReconcilersOK, ClaimsOK
  <2>4. ASSUME NEW q \in Reconcilers \ {r}, rec'[q] # Idle, rec'[q].of = k PROVE rec'[q].turn # turn[k] + 1
    <3>1. rec[q] = rec'[q]
      BY <2>2 DEF WsTypeOK, ReconcilersOK
    <3>2. Knows(q)
      BY <2>4, <3>1 DEF FenceInv
    <3>3. rec[q].turn \in 1 .. turn[k]
      BY <2>3, <2>4, <3>1, <3>2 DEF Knows
    <3> QED BY <1>0, <2>3, <3>1, <3>3
  <2>5. rec'[r].turn \in 1 .. turn'[k]
    BY <1>0, <2>3
  <2> QED BY <2>3, <2>4, <2>5 DEF Knows
<1>2. CASE ~\E k \in Mutations : Take(r, k)
  <2>1. rec[r] # Idle /\ rec'[r].of = m /\ rec'[r].turn = t /\ ~Rebuild
    BY <1>2, ReconcilersMove
  <2>2. Knows(r) /\ m \in Mutations /\ t \in Nat /\ state[m] # "none"
    BY <2>1, ReconcilersAre DEF FenceInv
  <2>3. plan'[m] = plan[m] /\ hold'[m] = hold[m] /\ turn'[m] \in Nat /\ turn'[m] >= turn[m]
    BY <2>2, JournalsStay
  <2>4. Claims(plan'[m]) = Claims(plan[m]) /\ (Deletes(plan'[m]) <=> Deletes(plan[m]))
    BY <2>3
  <2>5. t \in 1 .. turn'[m]
    <3>1. t \in 1 .. turn[m]
      BY <2>1, <2>2 DEF Knows
    <3> QED BY <1>0, <2>2, <2>3, <3>1
  <2>6. ASSUME rec'[r].step # "took" PROVE \A s \in Claims(plan'[m]) : marker'[s] >= hold'[m][s] + t
    <3>1. CASE Publish(m, t)
      <4>1. \A s \in Claims(plan[m]) : s \in Scopes /\ hold[m][s] \in Nat
        BY <2>2, HoldsAre
      <4>2. \A s \in Claims(plan[m]) : marker'[s] = hold[m][s] + t
        BY <3>1, <4>1 DEF Publish, Generation
      <4> QED BY <2>2, <2>3, <2>4, <4>1, <4>2
    <3>2. CASE ~Publish(m, t)
      <4>1. rec[r].step # "took"
        BY <1>2, <2>1, <2>6, <3>2, ReconcilersMove
      <4>2. \A s \in Claims(plan[m]) : marker[s] >= hold[m][s] + t
        BY <2>1, <2>2, <4>1 DEF Knows
      <4> QED BY <2>1, <2>2, <2>3, <2>4, <4>2, StaleStays
    <3> QED BY <3>1, <3>2
  <2>7. ASSUME rec'[r].step = "advanced", Deletes(plan[m])
        PROVE  state'[m] = "prepared" \/ Stale(m, t)'
    <3>1. CASE rec[r].step = "took"
      BY <1>2, <2>1, <2>7, <3>1, ReconcilersMove
    <3>2. CASE rec[r].step # "took"
      <4>1. rec[r].step = "advanced"
        BY <1>2, <2>1, <2>7, <3>2, ReconcilersMove
      <4>2. state[m] = "prepared" \/ Stale(m, t)
        BY <2>1, <2>2, <2>7, <4>1 DEF Knows
      <4>3. CASE Stale(m, t)
        BY <2>1, <2>2, <4>3, StaleStays
      <4>4. CASE state[m] = "prepared" /\ state'[m] # "prepared"
        <5>1. ~Begin(m)
          BY <2>2, <4>4 DEF Begin, WsTypeOK, RequestsOK, RequestOK
        <5>2. ~StillOwns(m, 0)
          BY <1>0, <2>1, <2>2 DEF StillOwns, Knows
        <5>3. PICK q \in Reconcilers : Conclude(q) /\ rec[q].of = m
          BY <2>2, <4>4, <5>1, <5>2, StatesMove
        <5>4. q # r
          BY <4>1, <5>3 DEF Conclude
        <5>5. Stale(m, t)
          BY <2>1, <2>7, <5>3, <5>4, ConcludedIsStale
        <5> QED BY <2>1, <2>2, <5>5, StaleStays
      <4> QED BY <4>2, <4>3, <4>4
    <3> QED BY <3>1, <3>2
  <2>8. ASSUME NEW q \in Reconcilers \ {r}, rec'[q] # Idle, rec'[q].of = m PROVE rec'[q].turn # t
    <3>1. CASE \E k \in Mutations : Take(q, k)
      <4>1. PICK k \in Mutations : Take(q, k)
        BY <3>1
      <4>2. rec'[q].of = k /\ rec'[q].turn = turn[k] + 1
        BY <4>1 DEF Take, WsTypeOK, ReconcilersOK
      <4>3. t \in 1 .. turn[k]
        BY <2>1, <2>2, <2>8, <4>2 DEF Knows
      <4> QED BY <1>0, <4>2, <4>3
    <3>2. CASE ~\E k \in Mutations : Take(q, k)
      <4>1. rec[q] # Idle /\ rec[q].of = m /\ rec[q].turn = rec'[q].turn
        BY <2>8, <3>2, ReconcilersMove
      <4> QED BY <2>1, <2>2, <4>1 DEF Knows
    <3> QED BY <3>1, <3>2
  <2> QED BY <2>1, <2>3, <2>4, <2>5, <2>6, <2>7, <2>8 DEF Knows
<1> QED BY <1>1, <1>2

LEMMA FenceStep == ASSUME WsTypeOK, FenceInv, [WsNext]_wsVars PROVE FenceInv'
<1>1. ASSUME NEW m \in Mutations, phase'[m] = "begun" PROVE state'[m] = "prepared" \/ Stale(m, 0)'
  <2>1. CASE Begin(m)
    BY <2>1 DEF Begin, WsTypeOK, RequestsOK
  <2>2. CASE ~Begin(m)
    <3>1. phase[m] = "begun" /\ ~Rebuild /\ ~Fail(m) /\ ~Record(m)
      BY <1>1, <2>2, BegunWas
    <3>2. state[m] # "none"
      BY <3>1 DEF WsTypeOK, RequestsOK, RequestOK
    <3>3. CASE Stale(m, 0)
      BY <3>1, <3>2, <3>3, StaleStays
    <3>4. CASE state[m] = "prepared" /\ state'[m] # "prepared"
      <4>1. PICK r \in Reconcilers : Conclude(r) /\ rec[r].of = m
        BY <2>2, <3>1, <3>4, StatesMove
      <4>2. Stale(m, 0)
        BY <4>1, ConcludedIsStale
      <4> QED BY <3>1, <3>2, <4>2, StaleStays
    <3> QED BY <3>1, <3>3, <3>4 DEF FenceInv
  <2> QED BY <2>1, <2>2
<1>2. \A r \in Reconcilers : rec'[r] # Idle => Knows(r)'
  BY KnowsStep
<1> QED BY <1>1, <1>2 DEF FenceInv

\* A script that passes the fence belongs to an open change, and stays inside.
LEMMA WritesAreCovered ==
    ASSUME WsTypeOK, FenceInv, [WsNext]_wsVars, NEW path \in Paths, disk'[path] # disk[path]
    PROVE  Covered(path) \/ drifted' \/ Rebuild
<1> USE DEF tables, journal, claims, store
<1>1. ASSUME NEW m \in Mutations, NEW t \in Nat, state[m] # "none", Passes(m, t), Stale(m, t) PROVE FALSE
  BY <1>1, HoldsAre DEF Passes, Generation, Stale
<1>2. ASSUME NEW m \in Mutations, state[m] = "prepared",
             path \in Touched(plan[m]) \/ (OnTree(plan[m]) /\ Inside(path))
      PROVE  Covered(path)
  BY <1>2 DEF Covered, Prepared
<1>3. ASSUME NEW m \in Mutations, Run(m) \/ RunUnheard(m) PROVE Covered(path)
  <2>1. phase[m] = "begun" /\ Passes(m, 0)
    BY <1>3 DEF Run, RunUnheard
  <2>2. state[m] # "none" /\ JournalOK(plan[m]) /\ plan[m].op \in Operations
    BY <2>1 DEF WsTypeOK, RequestsOK, RequestOK
  <2>3. state[m] = "prepared"
    BY <1>1, <2>1, <2>2 DEF FenceInv
  <2>4. Perform(plan[m]) \/ (Deletes(plan[m]) /\ \E part \in SUBSET Doomed(plan[m]) : Erase(plan[m], part))
    BY <1>3 DEF Run, RunUnheard
  <2> QED BY <1>2, <2>2, <2>3, <2>4, PerformStaysInside, WorkspaceAssumption DEF WsTypeOK
<1>4. ASSUME NEW r \in Reconcilers, Examine(r) PROVE Covered(path)
  <2> DEFINE m == rec[r].of
  <2>1. /\ rec[r] # Idle /\ rec[r].step = "advanced" /\ Passes(m, rec[r].turn)
        /\ Deletes(plan[m]) /\ Perform(plan[m])
    BY <1>4 DEF Examine, Idle
  <2>2. m \in Mutations /\ rec[r].turn \in Nat /\ state[m] # "none"
    BY <2>1, ReconcilersAre
  <2>3. JournalOK(plan[m]) /\ plan[m].op \in Operations
    BY <2>2 DEF WsTypeOK, RequestsOK, RequestOK
  <2>4. state[m] = "prepared" \/ Stale(m, rec[r].turn)
    BY <2>1 DEF FenceInv, Knows
  <2>5. state[m] = "prepared"
    BY <1>1, <2>1, <2>2, <2>4
  <2> QED BY <1>2, <2>1, <2>2, <2>3, <2>5, PerformStaysInside, WorkspaceAssumption DEF WsTypeOK
<1>5. ASSUME NEW q \in Paths, Drift(q) PROVE drifted'
  BY <1>5 DEF Drift
<1>6. \/ UNCHANGED disk \/ Rebuild \/ (\E q \in Paths : Drift(q))
      \/ (\E m \in Mutations : Run(m) \/ RunUnheard(m)) \/ (\E r \in Reconcilers : Examine(r))
  BY DEF WsNext, Request, Reconcile, Admin, Read, Draft, Retry, Send, Begin, BeginRefused, Go, RunFenced,
         Fail, ObjectIsPruned, Record, RecordRefused, Die, Lapse, Renew, Take, Advance, ExamineFenced,
         Conclude, ConcludeRefused, ReconcilerFails, GiveUp, BeginDrain, FinishDrain, wsVars
<1> QED BY <1>3, <1>4, <1>5, <1>6

LEMMA FenceHolds == WsSpec => []FenceInv
<1>1. WsInit => FenceInv
  BY DEF WsInit, FenceInv
<1>2. WsTypeOK /\ FenceInv /\ [WsNext]_wsVars => FenceInv'
  BY FenceStep
<1> QED BY <1>1, <1>2, WsTypeCorrect, PTL DEF WsSpec

\* However owners stall and reconcilers take over from each other, no file
\* changes but as part of a change that is open.
THEOREM NoLateWriteHolds == WsSpec => NoLateWrite
<1> DEFINE Written == \A path \in Paths : disk'[path] # disk[path] => Covered(path) \/ drifted' \/ Rebuild
<1>1. WsTypeOK /\ FenceInv /\ [WsNext]_wsVars => [Written]_wsVars
  BY WritesAreCovered
<1>2. NoLateWrite <=> [][Written]_wsVars
  BY DEF NoLateWrite
<1> QED BY <1>1, <1>2, WsTypeCorrect, FenceHolds, PTL DEF WsSpec

-----------------------------------------------------------------------------
(* What a step does to the journals and to the rows.                       *)

\* A change is completed: the rows are as its journal froze them, and become
\* what it says.
Completes(n) ==
    /\ state[n] = "prepared" /\ Unchanged(plan[n]) /\ Commit(n)
    /\ state' = [state EXCEPT ![n] = "completed"] /\ UNCHANGED <<plan, intent>>

\* A draft is rebased as it is sent.
Rebased(m) ==
    \E e \in Items(plan[m]) :
       /\ phase[m] = "editing" /\ e \in Present /\ MergeOf(m, tree[e]) # tree[e].text
       /\ plan' = [plan EXCEPT ![m] = Edit(e, MergeOf(m, tree[e]))]
       /\ phase' = [phase EXCEPT ![m] = "read"]
       /\ UNCHANGED <<tables, state, intent>>

\* Who settles a change: it was open.
LEMMA ConcludesPrepared ==
    ASSUME NEW r \in Reconcilers, Conclude(r) PROVE state[rec[r].of] = "prepared"
BY DEF Conclude, MayConclude, StillOwns

\* Rows change only as a change is completed, which it stays.
LEMMA RowsMove ==
    ASSUME WsTypeOK, [WsNext]_wsVars
    PROVE  \/ \E n \in Mutations : Completes(n)
           \/ UNCHANGED tables /\ \A m \in Mutations : state'[m] = "completed" <=> state[m] = "completed"
<1> USE DEF tables, journal, claims, store
<1>0. state \in [Mutations -> {"none", "prepared", "completed", "failed"}]
  BY DEF WsTypeOK, RequestsOK
<1>1. ASSUME NEW n \in Mutations, Record(n) PROVE Completes(n)
  BY <1>1 DEF Record, StillOwns, Settle, Completes
<1>2. ASSUME NEW r \in Reconcilers, Conclude(r), rec[r].verdict = "applied"
      PROVE  rec[r].of \in Mutations /\ Completes(rec[r].of)
  <2>1. rec[r] # Idle
    BY <1>2 DEF Conclude, Idle
  <2>2. rec[r].of \in Mutations
    BY <2>1, ReconcilersAre
  <2> QED BY <1>2, <2>2, ConcludesPrepared DEF Conclude, Settle, Completes
<1>3. ASSUME NEW r \in Reconcilers, Conclude(r), rec[r].verdict # "applied"
      PROVE  UNCHANGED tables /\ \A m \in Mutations : state'[m] = "completed" <=> state[m] = "completed"
  <2>1. UNCHANGED tables /\ state' = [state EXCEPT ![rec[r].of] = "failed"]
    BY <1>3 DEF Conclude, Settle
  <2> QED BY <1>0, <1>3, <2>1, ConcludesPrepared
<1>4. ASSUME NEW n \in Mutations, Begin(n)
      PROVE  UNCHANGED tables /\ \A m \in Mutations : state'[m] = "completed" <=> state[m] = "completed"
  <2>1. UNCHANGED tables /\ state' = [state EXCEPT ![n] = "prepared"]
    BY <1>4 DEF Begin
  <2>2. state[n] = "none"
    BY <1>4 DEF Begin, WsTypeOK, RequestsOK, RequestOK
  <2> QED BY <1>0, <2>1, <2>2
<1>5. ASSUME NEW n \in Mutations, Fail(n)
      PROVE  UNCHANGED tables /\ \A m \in Mutations : state'[m] = "completed" <=> state[m] = "completed"
  <2>1. UNCHANGED tables /\ (state' = state \/ (state[n] = "prepared" /\ state' = [state EXCEPT ![n] = "failed"]))
    BY <1>5 DEF Fail, Settle, StillOwns
  <2> QED BY <1>0, <2>1
<1>6. ASSUME NEW n \in Mutations, Request(n), ~Record(n), ~Begin(n), ~Fail(n)
      PROVE  UNCHANGED tables /\ UNCHANGED state
  BY <1>6 DEF Request, Read, Draft, Retry, Send, BeginRefused, Go, Run, RunUnheard, RunFenced,
              ObjectIsPruned, RecordRefused, Die, Lapse, Renew
<1>7. ASSUME NEW r \in Reconcilers, Reconcile(r), ~Conclude(r)
      PROVE  UNCHANGED tables /\ UNCHANGED state
  BY <1>7 DEF Reconcile, Take, Advance, Examine, ExamineFenced, ConcludeRefused, ReconcilerFails, GiveUp
<1>8. ASSUME Admin \/ (\E path \in Paths : Drift(path)) \/ UNCHANGED wsVars
      PROVE  UNCHANGED tables /\ UNCHANGED state
  BY <1>8 DEF Admin, BeginDrain, FinishDrain, Rebuild, Drift, wsVars
<1> QED BY <1>1, <1>2, <1>3, <1>4, <1>5, <1>6, <1>7, <1>8 DEF WsNext

\* A journal changes only as its request reads, drafts, retries or sends.
LEMMA PlansMove ==
    ASSUME WsTypeOK, [WsNext]_wsVars, NEW m \in Mutations
    PROVE  \/ /\ plan'[m] = plan[m] /\ intent'[m] = intent[m]
              /\ phase'[m] = "idle" <=> phase[m] = "idle"
              /\ phase'[m] = "editing" => phase[m] = "editing"
           \/ Read(m) \/ Draft(m) \/ (\E n \in Mutations : Retry(m, n)) \/ Rebased(m)
<1> USE DEF tables, journal, claims, store
<1>0. DOMAIN plan = Mutations /\ DOMAIN intent = Mutations /\ DOMAIN phase = Mutations
  BY DEF WsTypeOK, RequestsOK
<1> DEFINE Same == /\ plan'[m] = plan[m] /\ intent'[m] = intent[m]
                   /\ phase'[m] = "idle" <=> phase[m] = "idle"
                   /\ phase'[m] = "editing" => phase[m] = "editing"
<1>1. ASSUME NEW n \in Mutations, Request(n), n # m PROVE Same
  <2>1. UNCHANGED phase \/ \E x : phase' = [phase EXCEPT ![n] = x]
    BY <1>1 DEF Request, Read, Draft, Retry, Send, Begin, BeginRefused, Go, Run, RunUnheard, RunFenced,
                Fail, ObjectIsPruned, Record, RecordRefused, Die, Lapse, Renew
  <2>2. UNCHANGED plan \/ \E x : plan' = [plan EXCEPT ![n] = x]
    BY <1>1 DEF Request, Read, Draft, Retry, Send, Begin, BeginRefused, Go, Run, RunUnheard, RunFenced,
                Fail, ObjectIsPruned, Record, RecordRefused, Die, Lapse, Renew, Settle
  <2>3. UNCHANGED intent \/ \E x : intent' = [intent EXCEPT ![n] = x]
    BY <1>1 DEF Request, Read, Draft, Retry, Send, Begin, BeginRefused, Go, Run, RunUnheard, RunFenced,
                Fail, ObjectIsPruned, Record, RecordRefused, Die, Lapse, Renew, Settle
  <2> QED BY <1>0, <1>1, <2>1, <2>2, <2>3
<1>2. CASE Send(m)
  <2>1. PICK e \in Items(plan[m]) :
           \/ Rebased(m)
           \/ phase' = [phase EXCEPT ![m] = "gone"] /\ UNCHANGED plan
    BY <1>2 DEF Send, Rebased
  <2> QED BY <1>0, <1>2, <2>1 DEF Send
<1>3. ASSUME \/ Begin(m) \/ BeginRefused(m) \/ Run(m) \/ RunUnheard(m) \/ RunFenced(m) \/ Fail(m)
             \/ ObjectIsPruned(m) \/ Record(m) \/ RecordRefused(m) \/ Die(m) \/ Lapse(m) \/ Renew(m)
      PROVE  Same
  <2>1. UNCHANGED <<plan, intent>>
    BY <1>3 DEF Begin, BeginRefused, Go, Run, RunUnheard, RunFenced,
                Fail, ObjectIsPruned, Record, RecordRefused, Die, Lapse, Renew, Settle
  <2>2. \/ UNCHANGED phase
        \/ phase[m] # "idle" /\ \E x \in {"begun", "installed", "refused", "gone"} : phase' = [phase EXCEPT ![m] = x]
    BY <1>3 DEF Begin, BeginRefused, Go, Run, RunUnheard, RunFenced,
                Fail, ObjectIsPruned, Record, RecordRefused, Die, Lapse, Renew
  <2> QED BY <1>0, <2>1, <2>2
<1>4. ASSUME \/ \E r \in Reconcilers : Reconcile(r)
             \/ BeginDrain \/ FinishDrain \/ (\E path \in Paths : Drift(path)) \/ UNCHANGED wsVars
      PROVE  UNCHANGED <<plan, intent, phase>>
  BY <1>4 DEF BeginDrain, FinishDrain, Drift, wsVars, Reconcile, Take, Advance, Examine, ExamineFenced, Conclude,
              ConcludeRefused, ReconcilerFails, GiveUp, Settle
<1>5. CASE Rebuild
  BY <1>5 DEF Rebuild
<1>6. CASE Request(m)
  BY <1>2, <1>3, <1>6 DEF Request
<1> QED BY <1>1, <1>4, <1>5, <1>6 DEF WsNext, Admin
-----------------------------------------------------------------------------
(* What journals say, and how they relate to the rows.                     *)

\* What the journal of request m says, by its operation.
Shaped(m, p) ==
    /\ p.op = "create" => /\ Items(p) = {m} /\ p.before[m] = Gone
                          /\ p.after[m] = [path |-> p.to, text |-> {m}, rev |-> 1]
    /\ p.op # "create" => \A i \in Items(p) : p.before[i] # Gone
    /\ p.op = "mkdir" => Items(p) = {}
    /\ p.op = "write" => \A i \in Items(p) : p.before[i].path = p.to /\ p.after[i].text # p.before[i].text
    /\ p.op = "move" => \A i \in Items(p) : p.before[i].path # p.to
    /\ p.op = "move tree" =>
          /\ p.to # p.base.name
          /\ \A i \in Items(p) : Inside(p.before[i].path) /\ p.after[i].path = <<p.to, p.before[i].path[2]>>
    /\ p.op \in {"move", "move tree"} => \A i \in Items(p) : p.after[i].text = p.before[i].text
    /\ p.op \in {"write", "move", "move tree"} =>
          \A i \in Items(p) : p.after[i] # Gone /\ p.after[i].rev = p.before[i].rev + 1
    /\ Deletes(p) => \A i \in Items(p) : p.after[i] = Gone
    /\ p.op \in {"create", "move"} /\ Inside(p.to) => p.base.name = p.to[1]

\* A text that differs from another at the place of one contribution only.
SameButAt(new, old, key) == \A c \in Entries \ Place(key) : c \in new <=> c \in old

\* A write that brings in its contribution, and can be merged, changes nothing
\* but the contribution's place.
Adds(p, key) ==
    p.op = "write" /\ key \notin Unmergeable =>
        \A i \in Items(p) : key \in p.after[i].text => SameButAt(p.after[i].text, p.before[i].text, key)

\* What exists was there at first, or its creation is completed.
Made(e) == e \in Mutations => state[e] = "completed"

\* A row that was read is the row there is now, or an earlier one.
Earlier(row, now) == now = Gone \/ row.rev < now.rev \/ row = now

\* A request that has done nothing has contributed nothing.
Fresh(m) ==
    /\ intent[m] = m
    /\ \A e \in Present : m \notin tree[e].text
    /\ \A n \in Mutations : \A i \in Items(plan[n]) :
          /\ plan[n].before[i] # Gone => m \notin plan[n].before[i].text
          /\ plan[n].after[i] # Gone => m \notin plan[n].after[i].text

Journaled(m) ==
    /\ Shaped(m, plan[m]) /\ Adds(plan[m], intent[m])
    /\ phase[m] = "editing" => \A i \in Items(plan[m]) : intent[m] \in plan[m].after[i].text
    /\ \A i \in Items(plan[m]) :
          plan[m].before[i] # Gone => Made(i) /\ Earlier(plan[m].before[i], tree[i])

JournalInv ==
    /\ \A e \in Present : Made(e)
    /\ \A m \in Mutations : Journaled(m)
    /\ \A m \in Mutations : phase[m] = "idle" => Fresh(m)

LEMMA EditIs ==
    ASSUME RowsOK, NEW e \in Present, NEW text \in SUBSET Entries
    PROVE  LET p == Edit(e, text) IN
           /\ p.op = "write" /\ Items(p) = {e} /\ p.base = NoFolder /\ p.to = tree[e].path
           /\ p.before[e] = tree[e] /\ tree[e] \in Row
           /\ p.after[e] \in Row /\ p.after[e].text = text /\ p.after[e].path = tree[e].path
           /\ p.after[e].rev = tree[e].rev + 1
<1> DEFINE p == Edit(e, text)
<1>1. tree[e] \in Row
  BY DEF Present, RowsOK
<1>2. /\ p.op = "write" /\ Items(p) = {e} /\ p.base = NoFolder /\ p.to = tree[e].path
      /\ p.before[e] = tree[e] /\ p.after[e] = [tree[e] EXCEPT !.text = text, !.rev = @ + 1]
  BY DEF Edit, Items
<1>3. tree[e].rev + 1 \in Nat
  BY <1>1 DEF Row
<1>4. [tree[e] EXCEPT !.text = text, !.rev = tree[e].rev + 1] \in Row
  BY <1>1, <1>3 DEF Row
<1>5. /\ [tree[e] EXCEPT !.text = text, !.rev = tree[e].rev + 1].text = text
      /\ [tree[e] EXCEPT !.text = text, !.rev = tree[e].rev + 1].path = tree[e].path
      /\ [tree[e] EXCEPT !.text = text, !.rev = tree[e].rev + 1].rev = tree[e].rev + 1
  BY <1>1 DEF Row
<1> QED BY <1>1, <1>2, <1>4, <1>5

\* An edit of a row is a journal in shape.
LEMMA EditShaped ==
    ASSUME WorkspaceAssumption, RowsOK, NEW m, NEW e \in Present, NEW text \in SUBSET Entries,
           text # tree[e].text
    PROVE  Shaped(m, Edit(e, text))
<1> DEFINE p == Edit(e, text)
<1>1. /\ p.op = "write" /\ Items(p) = {e} /\ p.to = tree[e].path
      /\ p.before[e] = tree[e] /\ tree[e] \in Row
      /\ p.after[e] \in Row /\ p.after[e].text = text /\ p.after[e].path = tree[e].path
      /\ p.after[e].rev = tree[e].rev + 1
  BY EditIs
<1>2. p.before[e] # Gone /\ p.after[e] # Gone
  BY <1>1, NamesAre
<1>3. \A i \in Items(p) : i = e
  BY <1>1
<1> HIDE DEF p
<1>4. /\ \A i \in Items(p) : p.before[i] # Gone /\ p.before[i].path = p.to /\ p.after[i].text # p.before[i].text
      /\ \A i \in Items(p) : p.after[i] # Gone /\ p.after[i].rev = p.before[i].rev + 1
  BY <1>1, <1>2, <1>3
<1>5. Shaped(m, p)
  BY <1>1, <1>4 DEF Shaped, Deletes
<1> QED BY <1>5 DEF p

\* What a request plans when it reads.
LEMMA PlansShaped ==
    ASSUME WorkspaceAssumption, RowsOK, RequestsOK, NEW m \in Mutations,
           NEW p \in CreatePlans(m) \cup MkdirPlans \cup RestorePlans \cup MovePlans
                     \cup MoveTreePlans \cup DeletePlans
    PROVE  /\ Shaped(m, p)
           /\ p.op # "create" => \A i \in Items(p) : i \in Present /\ p.before[i] = tree[i]
           /\ p.op = "write" => \A i \in Items(p) : p.after[i].text \in Versions(i)
           /\ p.base \in {NoFolder, folder}
           /\ OnTree(p) => Listing \subseteq Items(p)
<1>0. ASSUME NEW q \in Vacancies
      PROVE  q \in Paths /\ There(q) /\ (\A e \in Present : tree[e].path # q)
             /\ (Inside(q) => ParentOf(q) = folder /\ folder.name = q[1])
  BY DEF Vacancies, Empty, There, Inside, ParentOf
<1>1. CASE p \in CreatePlans(m)
  <2>1. PICK q \in Vacancies :
           p = [op |-> "create", before |-> [i \in {m} |-> Gone],
                after |-> [i \in {m} |-> [path |-> q, text |-> {m}, rev |-> 1]],
                base |-> ParentOf(q), to |-> q]
    BY <1>1 DEF CreatePlans
  <2>2. /\ p.op = "create" /\ Items(p) = {m} /\ p.before[m] = Gone /\ p.base = ParentOf(q) /\ p.to = q
        /\ p.after[m] = [path |-> q, text |-> {m}, rev |-> 1]
    BY <2>1 DEF Items
  <2> QED BY <1>0, <2>2 DEF Shaped, Deletes, OnTree, ParentOf
<1>2. CASE p \in MkdirPlans
  <2>1. PICK d \in Dirs : p = [op |-> "mkdir", before |-> <<>>, after |-> <<>>, base |-> NoFolder, to |-> d]
    BY <1>2 DEF MkdirPlans
  <2>2. p.op = "mkdir" /\ Items(p) = {} /\ p.base = NoFolder
    BY <2>1 DEF Items
  <2> QED BY <2>2 DEF Shaped, Deletes, OnTree
<1>3. CASE p \in RestorePlans
  <2>0. PICK e \in Present : p \in {Edit(e, text) : text \in Versions(e) \ {tree[e].text}}
    BY <1>3 DEF RestorePlans
  <2>2. PICK text \in Versions(e) \ {tree[e].text} : p = Edit(e, text)
    BY <2>0
  <2>3. PICK n \in Mutations : /\ state[n] = "completed" /\ plan[n].op = "write" /\ e \in Items(plan[n])
                               /\ text \in {plan[n].before[e].text, plan[n].after[e].text}
    BY <2>2 DEF Versions
  <2>4. JournalOK(plan[n])
    BY <2>3 DEF RequestsOK, RequestOK
  <2>5. plan[n].before[e] \in Row /\ plan[n].after[e] \in Row
    BY <2>3, <2>4 DEF JournalOK
  <2>6. text \in SUBSET Entries
    BY <2>3, <2>5 DEF Row
  <2>7. /\ Items(p) = {e} /\ p.before[e] = tree[e] /\ p.base = NoFolder /\ p.op = "write"
        /\ p.after[e].text = text
    BY <2>2, <2>6, EditIs
  <2> QED BY <2>2, <2>6, <2>7, EditShaped DEF OnTree
<1>4. CASE p \in MovePlans
  <2>0. PICK e \in Present : p \in
          {[op |-> "move", before |-> [i \in {e} |-> tree[e]],
            after |-> [i \in {e} |-> [tree[e] EXCEPT !.path = q, !.rev = @ + 1]],
            base |-> ParentOf(q), to |-> q] : q \in Vacancies}
    BY <1>4 DEF MovePlans
  <2>1. PICK q \in Vacancies :
           p = [op |-> "move", before |-> [i \in {e} |-> tree[e]],
                after |-> [i \in {e} |-> [tree[e] EXCEPT !.path = q, !.rev = @ + 1]],
                base |-> ParentOf(q), to |-> q]
    BY <2>0
  <2>2. tree[e] \in Row
    BY DEF Present, RowsOK
  <2>3. /\ p.op = "move" /\ Items(p) = {e} /\ p.before[e] = tree[e] /\ p.base = ParentOf(q) /\ p.to = q
        /\ p.after[e] = [tree[e] EXCEPT !.path = q, !.rev = tree[e].rev + 1]
    BY <2>1 DEF Items
  <2>4. /\ p.after[e].text = tree[e].text /\ p.after[e].rev = tree[e].rev + 1
        /\ p.after[e] \in Row
    <3>1. tree[e].rev + 1 \in Nat
      BY <2>2 DEF Row
    <3>2. [tree[e] EXCEPT !.path = q, !.rev = tree[e].rev + 1] \in Row
      BY <1>0, <2>2, <3>1 DEF Row
    <3>3. [tree[e] EXCEPT !.path = q, !.rev = tree[e].rev + 1].text = tree[e].text
          /\ [tree[e] EXCEPT !.path = q, !.rev = tree[e].rev + 1].rev = tree[e].rev + 1
      BY <2>2 DEF Row
    <3> QED BY <2>3, <3>2, <3>3
  <2>5. tree[e] # Gone /\ p.after[e] # Gone
    BY <2>2, <2>4, NamesAre
  <2> QED BY <1>0, <2>3, <2>4, <2>5 DEF Shaped, Deletes, OnTree, ParentOf
<1>5. CASE p \in MoveTreePlans
  <2>2. PICK d \in Dirs \ {folder.name} :
           p = [op |-> "move tree", before |-> [i \in Listing |-> tree[i]],
                after |-> [i \in Listing |-> [tree[i] EXCEPT !.path = <<d, @[2]>>, !.rev = @ + 1]],
                base |-> folder, to |-> d]
    BY <1>5 DEF MoveTreePlans
  <2>3. /\ p.op = "move tree" /\ Items(p) = Listing /\ p.base = folder /\ p.to = d
        /\ \A i \in Listing : p.before[i] = tree[i]
    BY <2>2 DEF Items
  <2>4. ASSUME NEW i \in Listing
        PROVE  /\ i \in Present /\ tree[i] # Gone /\ Inside(tree[i].path)
               /\ p.after[i] # Gone /\ p.after[i].path = <<d, tree[i].path[2]>>
               /\ p.after[i].text = tree[i].text /\ p.after[i].rev = tree[i].rev + 1
    <3>1. i \in Present /\ tree[i] \in Row /\ Inside(tree[i].path) /\ tree[i] # Gone
      BY DEF Listing, Present, RowsOK
    <3>2. <<d, tree[i].path[2]>> \in Paths /\ tree[i].rev + 1 \in Nat
      BY <3>1, NamesAre DEF Row
    <3>3. p.after[i] = [tree[i] EXCEPT !.path = <<d, tree[i].path[2]>>, !.rev = tree[i].rev + 1]
      BY <2>2
    <3>4. [tree[i] EXCEPT !.path = <<d, tree[i].path[2]>>, !.rev = tree[i].rev + 1] \in Row
      BY <3>1, <3>2 DEF Row
    <3>5. /\ [tree[i] EXCEPT !.path = <<d, tree[i].path[2]>>, !.rev = tree[i].rev + 1].path = <<d, tree[i].path[2]>>
          /\ [tree[i] EXCEPT !.path = <<d, tree[i].path[2]>>, !.rev = tree[i].rev + 1].text = tree[i].text
          /\ [tree[i] EXCEPT !.path = <<d, tree[i].path[2]>>, !.rev = tree[i].rev + 1].rev = tree[i].rev + 1
      BY <3>1 DEF Row
    <3> QED BY <3>1, <3>3, <3>4, <3>5, NamesAre
  <2> QED BY <2>3, <2>4 DEF Shaped, Deletes, OnTree
<1>6. CASE p \in DeletePlans
  <2>1. CASE p \in {[op |-> "delete", before |-> [i \in S |-> tree[i]], after |-> [i \in S |-> Gone],
                     base |-> NoFolder, to |-> Nothing] : S \in (SUBSET Present) \ {{}}}
    <3>1. PICK S \in (SUBSET Present) \ {{}} :
             p = [op |-> "delete", before |-> [i \in S |-> tree[i]], after |-> [i \in S |-> Gone],
                  base |-> NoFolder, to |-> Nothing]
      BY <2>1
    <3>2. /\ p.op = "delete" /\ Items(p) = S /\ p.base = NoFolder
          /\ \A i \in S : p.before[i] = tree[i] /\ p.after[i] = Gone /\ i \in Present /\ tree[i] # Gone
      BY <3>1 DEF Items, Present
    <3> QED BY <3>2 DEF Shaped, OnTree
  <2>2. CASE ~(p \in {[op |-> "delete", before |-> [i \in S |-> tree[i]], after |-> [i \in S |-> Gone],
                       base |-> NoFolder, to |-> Nothing] : S \in (SUBSET Present) \ {{}}})
    <3>1. \E S \in {R \in SUBSET Present : Listing \subseteq R} :
             p = [op |-> "delete tree", before |-> [i \in S |-> tree[i]], after |-> [i \in S |-> Gone],
                  base |-> folder, to |-> Nothing]
      BY <1>6, <2>2 DEF DeletePlans
    <3>2. PICK S \in SUBSET Present :
             /\ Listing \subseteq S
             /\ p = [op |-> "delete tree", before |-> [i \in S |-> tree[i]], after |-> [i \in S |-> Gone],
                     base |-> folder, to |-> Nothing]
      BY <3>1
    <3>3. /\ p.op = "delete tree" /\ Items(p) = S /\ p.base = folder /\ Listing \subseteq S
          /\ \A i \in S : p.before[i] = tree[i] /\ p.after[i] = Gone /\ i \in Present /\ tree[i] # Gone
      BY <3>2 DEF Items, Present
    <3> QED BY <3>3 DEF Shaped, OnTree
  <2> QED BY <2>1, <2>2
<1> QED BY <1>1, <1>2, <1>3, <1>4, <1>5, <1>6

\* What two contributions share is their place: the same for both.
LEMMA PlacesAre ==
    ASSUME NEW c, NEW key, c \notin Place(key) PROVE Place(c) \cap Place(key) = {}
<1>1. c # key /\ \A P \in Places : key \in P => c \notin P
  BY DEF Place
<1>2. ASSUME NEW d \in Place(c) \cap Place(key) PROVE FALSE
  <2>1. (d = c \/ \E P \in Places : c \in P /\ d \in P) /\ (d = key \/ \E Q \in Places : key \in Q /\ d \in Q)
    BY <1>2 DEF Place
  <2>2. PICK P \in Places : c \in P /\ d \in P
    BY <1>1, <2>1
  <2>3. PICK Q \in Places : key \in Q /\ d \in Q
    BY <1>1, <2>1, <2>2
  <2> QED BY <1>1, <2>2, <2>3, PlacesAssumption DEF PlacesAssumption
<1> QED BY <1>2

\* A text as it is merged, place by place.
Folded(draft, base, now) ==
    {c \in draft : draft \cap Place(c) # base \cap Place(c)} \cup {c \in now : draft \cap Place(c) = base \cap Place(c)}

\* A draft that is rebased is taken as it is, or folded into the current text.
LEMMA MergeIs ==
    ASSUME WsTypeOK, NEW m \in Mutations, plan[m].op = "write", phase[m] # "idle",
           NEW e \in Items(plan[m]), e \in Present
    PROVE  LET base == plan[m].before[e]
               draft == plan[m].after[e].text
           IN /\ Items(plan[m]) = {e} /\ base \in Row /\ draft \in SUBSET Entries /\ tree[e] \in Row
              /\ MergeOf(m, tree[e]) = IF tree[e].rev = base.rev \/ intent[m] \in Unmergeable THEN draft
                                       ELSE Folded(draft, base.text, tree[e].text)
              /\ MergeOf(m, tree[e]) \in SUBSET Entries
              /\ MergeOf(m, tree[e]) \subseteq draft \cup tree[e].text
<1>1. JournalOK(plan[m])
  BY DEF WsTypeOK, RequestsOK, RequestOK
<1>2. Items(plan[m]) = {e}
  BY <1>1 DEF JournalOK
<1>3. (CHOOSE i \in Items(plan[m]) : TRUE) = e
  BY <1>2
<1>4. plan[m].before[e] \in Row /\ plan[m].after[e] \in Row /\ tree[e] \in Row
  BY <1>1, <1>2 DEF JournalOK, Present, WsTypeOK, RowsOK
<1>5. plan[m].after[e].text \in SUBSET Entries /\ tree[e].text \in SUBSET Entries
  BY <1>4 DEF Row
<1>6. MergeOf(m, tree[e]) = IF tree[e].rev = plan[m].before[e].rev \/ intent[m] \in Unmergeable
                            THEN plan[m].after[e].text
                            ELSE Folded(plan[m].after[e].text, plan[m].before[e].text, tree[e].text)
  BY <1>3 DEF MergeOf, Folded
<1>7. Folded(plan[m].after[e].text, plan[m].before[e].text, tree[e].text) \subseteq plan[m].after[e].text \cup tree[e].text
  BY DEF Folded
<1> QED BY <1>2, <1>4, <1>5, <1>6, <1>7

\* What is folded into a text changes the place of the draft's contribution only.
LEMMA FoldedIs ==
    ASSUME NEW draft \in SUBSET Entries, NEW base \in SUBSET Entries, NEW now \in SUBSET Entries, NEW key,
           SameButAt(draft, base, key)
    PROVE  SameButAt(Folded(draft, base, now), now, key)
<1>1. SUFFICES ASSUME NEW c \in Entries, c \notin Place(key)
               PROVE  c \in Folded(draft, base, now) <=> c \in now
  BY DEF SameButAt
<1>2. Place(c) \cap Place(key) = {}
  BY <1>1, PlacesAre
<1>3. draft \cap Place(c) = base \cap Place(c)
  BY <1>2 DEF SameButAt
<1> QED BY <1>3 DEF Folded

\* What a request that has done nothing has not contributed to.
LEMMA FreshVersions ==
    ASSUME NEW m \in Mutations, Fresh(m), NEW e, NEW text \in Versions(e), WsTypeOK
    PROVE  m \notin text
<1>1. PICK n \in Mutations : /\ state[n] = "completed" /\ plan[n].op = "write" /\ e \in Items(plan[n])
                             /\ text \in {plan[n].before[e].text, plan[n].after[e].text}
  BY DEF Versions
<1>2. JournalOK(plan[n])
  BY <1>1 DEF WsTypeOK, RequestsOK, RequestOK
<1>3. plan[n].before[e] # Gone /\ plan[n].after[e] # Gone
  BY <1>1, <1>2 DEF JournalOK
<1> QED BY <1>1, <1>3 DEF Fresh

\* The journals and the rows a step leaves as they were.
LEMMA RowsGoOn ==
    ASSUME WsTypeOK, JournalInv, [WsNext]_wsVars, NEW row \in Row, NEW e \in Entries, Made(e), Earlier(row, tree[e])
    PROVE  Made(e)' /\ Earlier(row, tree'[e])
<1> USE DEF tables
<1>1. CASE UNCHANGED tables /\ \A m \in Mutations : state'[m] = "completed" <=> state[m] = "completed"
  BY <1>1 DEF Made
<1>2. ASSUME NEW n \in Mutations, Completes(n) PROVE Made(e)' /\ Earlier(row, tree'[e])
  <2>1. Made(e)'
    BY <1>2 DEF Made, Completes, WsTypeOK, RequestsOK
  <2>2. state[n] = "prepared" /\ JournalOK(plan[n]) /\ plan[n].op \in Operations /\ Shaped(n, plan[n])
    BY <1>2 DEF Completes, WsTypeOK, RequestsOK, RequestOK, JournalInv, Journaled
  <2>3. tree'[e] = IF e \in Items(plan[n]) THEN plan[n].after[e] ELSE tree[e]
    BY <1>2 DEF Completes, Commit
  <2>4. CASE e \in Items(plan[n])
    <3>1. plan[n].op # "create"
      BY <2>2, <2>4 DEF Shaped, Made
    <3>2. plan[n].before[e] = tree[e] /\ tree[e] # Gone
      BY <1>2, <2>2, <2>4, <3>1 DEF Completes, Unchanged, Shaped
    <3>3. tree[e] \in Row
      BY <3>2 DEF WsTypeOK, RowsOK
    <3>4. row.rev \in Nat /\ tree[e].rev \in Nat
      BY <3>3 DEF Row
    <3>5. row.rev <= tree[e].rev
      BY <3>2, <3>4 DEF Earlier
    <3>6. CASE Deletes(plan[n])
      BY <2>1, <2>2, <2>3, <2>4, <3>6 DEF Shaped, Earlier
    <3>7. CASE plan[n].op \in {"write", "move", "move tree"}
      <4>1. plan[n].after[e].rev = tree[e].rev + 1
        BY <2>2, <2>4, <3>2, <3>7 DEF Shaped
      <4> QED BY <2>1, <2>3, <2>4, <3>4, <3>5, <4>1 DEF Earlier
    <3>8. plan[n].op # "mkdir"
      BY <2>2, <2>4 DEF Shaped
    <3> QED BY <2>2, <3>1, <3>6, <3>7, <3>8 DEF Operations, Deletes
  <2> QED BY <2>1, <2>3, <2>4
<1> QED BY <1>1, <1>2, RowsMove

LEMMA PresentIsMade ==
    ASSUME WsTypeOK, JournalInv, [WsNext]_wsVars, NEW e \in Entries, tree'[e] # Gone PROVE Made(e)'
<1> USE DEF tables
<1>1. CASE tree[e] # Gone
  <2>1. tree[e] \in Row /\ Made(e) /\ Earlier(tree[e], tree[e])
    BY <1>1 DEF WsTypeOK, RowsOK, JournalInv, Present, Earlier
  <2> QED BY <2>1, RowsGoOn
<1>2. CASE tree[e] = Gone
  <2>1. PICK n \in Mutations : Completes(n)
    BY <1>2, RowsMove
  <2>2. Shaped(n, plan[n])
    BY DEF JournalInv, Journaled
  <2>3. e \in Items(plan[n]) /\ tree[e] = plan[n].before[e]
    BY <1>2, <2>1 DEF Completes, Commit, Unchanged
  <2>4. e = n
    BY <1>2, <2>2, <2>3 DEF Shaped
  <2> QED BY <2>1, <2>4 DEF Made, Completes, WsTypeOK, RequestsOK
<1> QED BY <1>1, <1>2

LEMMA JournaledStep ==
    ASSUME WsTypeOK, JournalInv, [WsNext]_wsVars, NEW m \in Mutations PROVE Journaled(m)'
<1> USE DEF tables, journal
<1>0. Journaled(m) /\ DOMAIN plan = Mutations /\ DOMAIN intent = Mutations
  BY DEF JournalInv, WsTypeOK, RequestsOK
<1>a. ASSUME NEW i \in Entries, NEW row, row # Gone, row \in Row \cup {Gone}, Made(i), Earlier(row, tree[i])
      PROVE  Made(i)' /\ Earlier(row, tree'[i])
  BY <1>a, RowsGoOn
<1>1. CASE plan'[m] = plan[m] /\ intent'[m] = intent[m] /\ (phase'[m] = "editing" => phase[m] = "editing")
  <2>1. ASSUME NEW i \in Items(plan[m]), plan[m].before[i] # Gone
        PROVE  Made(i)' /\ Earlier(plan[m].before[i], tree'[i])
    <3>1. phase[m] # "idle"
      BY <2>1 DEF WsTypeOK, RequestsOK, RequestOK, NoPlan, Items
    <3>2. JournalOK(plan[m])
      BY <3>1 DEF WsTypeOK, RequestsOK, RequestOK
    <3>3. i \in Entries /\ plan[m].before[i] \in Row \cup {Gone}
      BY <3>2 DEF JournalOK
    <3> QED BY <1>0, <1>a, <2>1, <3>3 DEF Journaled
  <2>2. Shaped(m, plan'[m]) /\ Adds(plan'[m], intent'[m])
    BY <1>0, <1>1 DEF Journaled
  <2>3. \A i \in Items(plan'[m]) : plan'[m].before[i] # Gone => Made(i)' /\ Earlier(plan'[m].before[i], tree'[i])
    BY <1>1, <2>1
  <2>4. phase'[m] = "editing" => \A i \in Items(plan'[m]) : intent'[m] \in plan'[m].after[i].text
    BY <1>0, <1>1 DEF Journaled
  <2> QED BY <2>2, <2>3, <2>4 DEF Journaled
\* A journal that is made of the rows of now.
<1>b. ASSUME NEW p, plan'[m] = p, UNCHANGED <<tree, state>>, Shaped(m, p), Adds(p, intent'[m]),
             phase'[m] = "editing" => \A i \in Items(p) : intent'[m] \in p.after[i].text,
             \A i \in Items(p) : p.before[i] # Gone => i \in Present /\ p.before[i] = tree[i]
      PROVE  Journaled(m)'
  BY <1>b DEF Journaled, JournalInv, Made, Earlier
<1>2. CASE Read(m)
  <2>1. PICK p \in CreatePlans(m) \cup MkdirPlans \cup RestorePlans \cup MovePlans \cup MoveTreePlans \cup DeletePlans :
           plan' = [plan EXCEPT ![m] = p]
    BY <1>2 DEF Read
  <2>2. /\ Shaped(m, p)
        /\ p.op # "create" => \A i \in Items(p) : i \in Present /\ p.before[i] = tree[i]
        /\ p.op = "write" => \A i \in Items(p) : p.after[i].text \in Versions(i)
    BY WorkspaceAssumption, PlansShaped DEF WsTypeOK
  <2>3. Fresh(m)
    BY <1>2 DEF Read, JournalInv
  <2>4. intent'[m] = m
    BY <1>2, <2>3 DEF Read, Fresh
  <2>5. Adds(p, m)
    BY <2>2, <2>3, FreshVersions DEF Adds
  <2>6. p.op = "create" => \A i \in Items(p) : p.before[i] = Gone
    BY <2>2 DEF Shaped
  <2>7. phase'[m] = "read" /\ plan'[m] = p
    <3>1. DOMAIN phase = Mutations
      BY DEF WsTypeOK, RequestsOK
    <3>2. phase' = [phase EXCEPT ![m] = "read"] /\ plan' = [plan EXCEPT ![m] = p]
      BY <1>2, <2>1 DEF Read
    <3> QED BY <1>0, <3>1, <3>2
  <2> QED BY <1>0, <1>2, <1>b, <2>1, <2>2, <2>4, <2>5, <2>6, <2>7 DEF Read
<1>3. CASE Draft(m)
  <2>1. PICK e \in Present : plan' = [plan EXCEPT ![m] = Edit(e, tree[e].text \cup {m})]
    BY <1>3 DEF Draft
  <2>2. tree[e].text \cup {m} \in SUBSET Entries
    BY DEF Present, WsTypeOK, RowsOK, Row, Entries
  <2>3. m \notin tree[e].text
    BY <1>3 DEF Draft, JournalInv, Fresh
  <2> DEFINE p == Edit(e, tree[e].text \cup {m})
  <2>4. Items(p) = {e} /\ p.before[e] = tree[e] /\ p.after[e].text = tree[e].text \cup {m}
    BY <2>2, EditIs DEF WsTypeOK
  <2>5. Shaped(m, p)
    BY <2>2, <2>3, EditShaped, WorkspaceAssumption DEF WsTypeOK
  <2> HIDE DEF p
  <2>6. intent'[m] = m
    BY <1>3 DEF Draft, JournalInv, Fresh
  <2>7. Adds(p, intent'[m])
    BY <2>4, <2>6 DEF Adds, SameButAt, Place
  <2>8. plan'[m] = p
    BY <1>0, <2>1 DEF p
  <2> QED BY <1>3, <1>b, <2>4, <2>5, <2>6, <2>7, <2>8 DEF Draft
<1>4. ASSUME NEW n \in Mutations, Retry(m, n) PROVE Journaled(m)'
  <2>1. /\ plan'[m] = plan[n] /\ intent'[m] = intent[n] /\ intent[n] = n /\ plan[n].op = "write"
        /\ UNCHANGED <<tree, state>>
    BY <1>0, <1>4 DEF Retry
  <2>2. Journaled(n)
    BY DEF JournalInv
  <2>3. Shaped(m, plan[n])
    BY <2>1, <2>2 DEF Journaled, Shaped, Deletes
  <2>4. phase'[m] = "editing" => IsDraft(n)
    BY <1>4 DEF Retry, WsTypeOK, RequestsOK
  <2>5. \E i \in Items(plan[n]) : Items(plan[n]) = {i}
    BY <1>4, <2>1 DEF Retry, WsTypeOK, RequestsOK, RequestOK, JournalOK
  <2>6. phase'[m] = "editing" => \A i \in Items(plan'[m]) : intent'[m] \in plan'[m].after[i].text
    BY <2>1, <2>4, <2>5 DEF IsDraft
  <2> QED BY <2>1, <2>2, <2>3, <2>6 DEF Journaled, Made
<1>5. CASE Rebased(m)
  <2>1. PICK e \in Items(plan[m]) :
           /\ phase[m] = "editing" /\ e \in Present /\ MergeOf(m, tree[e]) # tree[e].text
           /\ plan' = [plan EXCEPT ![m] = Edit(e, MergeOf(m, tree[e]))]
           /\ UNCHANGED <<tables, state, intent>>
    BY <1>5 DEF Rebased
  <2> DEFINE base == plan[m].before[e]
             draft == plan[m].after[e].text
             text == MergeOf(m, tree[e])
             p == Edit(e, text)
  <2>2. plan[m].op = "write"
    BY <2>1 DEF WsTypeOK, RequestsOK, RequestOK
  <2>3. /\ base \in Row /\ tree[e] \in Row
        /\ draft \in SUBSET Entries
        /\ text = IF tree[e].rev = base.rev \/ intent[m] \in Unmergeable THEN draft
                  ELSE Folded(draft, base.text, tree[e].text)
        /\ text \in SUBSET Entries
    BY <2>1, <2>2, MergeIs
  <2>a. intent[m] \notin Unmergeable => SameButAt(draft, base.text, intent[m])
    BY <1>0, <2>1, <2>2 DEF Journaled, Adds
  <2>4. intent[m] \notin Unmergeable => SameButAt(text, tree[e].text, intent[m])
    <3> SUFFICES ASSUME intent[m] \notin Unmergeable PROVE SameButAt(text, tree[e].text, intent[m])
      OBVIOUS
    <3>1. CASE tree[e].rev = base.rev
      <4>1. base # Gone /\ tree[e] # Gone /\ base.rev \in Nat
        BY <2>3, NamesAre, WorkspaceAssumption DEF Row
      <4>2. base = tree[e]
        BY <1>0, <3>1, <4>1 DEF Journaled, Earlier
      <4> QED BY <2>3, <2>a, <3>1, <4>2
    <3>2. CASE tree[e].rev # base.rev
      <4>1. base.text \in SUBSET Entries /\ tree[e].text \in SUBSET Entries
        BY <2>3 DEF Row
      <4> QED BY <2>3, <2>a, <3>2, <4>1, FoldedIs
    <3> QED BY <3>1, <3>2
  <2>5. Items(p) = {e} /\ p.before[e] = tree[e] /\ p.after[e].text = text
    BY <2>1, <2>3, EditIs DEF WsTypeOK
  <2>6. Shaped(m, p)
    BY <2>1, <2>3, EditShaped, WorkspaceAssumption DEF WsTypeOK
  <2>7. plan'[m] = p
    BY <1>0, <2>1
  <2> HIDE DEF p, text
  <2>8. Adds(p, intent'[m])
    BY <2>1, <2>4, <2>5 DEF Adds
  <2>9. phase'[m] = "read"
    BY <1>5 DEF Rebased, WsTypeOK, RequestsOK
  <2> QED BY <1>b, <2>1, <2>5, <2>6, <2>7, <2>8, <2>9
<1> QED BY <1>1, <1>2, <1>3, <1>4, <1>5, PlansMove

LEMMA FreshStep ==
    ASSUME WsTypeOK, JournalInv, [WsNext]_wsVars, NEW m \in Mutations, phase'[m] = "idle" PROVE Fresh(m)'
<1> USE DEF tables, journal
<1>0. DOMAIN plan = Mutations /\ DOMAIN intent = Mutations /\ DOMAIN phase = Mutations
  BY DEF WsTypeOK, RequestsOK
<1>1. plan'[m] = plan[m] /\ intent'[m] = intent[m] /\ phase[m] = "idle"
  <2>1. ~Read(m) /\ ~Draft(m) /\ ~\E n \in Mutations : Retry(m, n)
    BY <1>0 DEF Read, Draft, Retry
  <2>2. ~Rebased(m)
    BY <1>0 DEF Rebased
  <2> QED BY <2>1, <2>2, PlansMove
<1>2. Fresh(m)
  BY <1>1 DEF JournalInv
<1>3. ASSUME NEW e \in Entries, tree'[e] # Gone PROVE m \notin tree'[e].text
  <2>1. CASE tree'[e] = tree[e]
    BY <1>2, <1>3, <2>1 DEF Fresh, Present
  <2>2. CASE tree'[e] # tree[e]
    <3>1. PICK n \in Mutations : Completes(n)
      BY <2>2, RowsMove
    <3>2. e \in Items(plan[n]) /\ tree'[e] = plan[n].after[e]
      BY <2>2, <3>1 DEF Completes, Commit
    <3> QED BY <1>2, <1>3, <3>2 DEF Fresh
  <2> QED BY <2>1, <2>2
<1> DEFINE Without(p) ==
      \A i \in Items(p) : /\ p.before[i] # Gone => m \notin p.before[i].text
                          /\ p.after[i] # Gone => m \notin p.after[i].text
<1>4. ASSUME NEW n \in Mutations PROVE Without(plan'[n])
  <2>1. Without(plan[n])
    BY <1>2 DEF Fresh
  <2>2. CASE plan'[n] = plan[n]
    BY <2>1, <2>2
  <2>3. CASE Read(n)
    <3>1. PICK p \in CreatePlans(n) \cup MkdirPlans \cup RestorePlans \cup MovePlans \cup MoveTreePlans \cup DeletePlans :
             plan' = [plan EXCEPT ![n] = p]
      BY <2>3 DEF Read
    <3>2. /\ Shaped(n, p) /\ p.op \in Operations
          /\ p.op # "create" => \A i \in Items(p) : i \in Present /\ p.before[i] = tree[i]
          /\ p.op = "write" => \A i \in Items(p) : p.after[i].text \in Versions(i)
      BY WorkspaceAssumption, PlansShaped, PlansOK DEF WsTypeOK
    <3>3. n # m
      BY <1>0, <1>1, <2>3 DEF Read, WsTypeOK, RequestsOK
    <3>4. ASSUME p.op = "create" PROVE Without(p)
      <4>1. Items(p) = {n} /\ p.before[n] = Gone /\ p.after[n].text = {n}
        BY <3>2, <3>4 DEF Shaped
      <4> QED BY <3>3, <4>1
    <3>5. ASSUME p.op # "create" PROVE Without(p)
      <4>1. ASSUME NEW i \in Items(p) PROVE m \notin p.before[i].text /\ (p.after[i] # Gone => m \notin p.after[i].text)
        <5>1. m \notin p.before[i].text
          BY <1>2, <3>2, <3>5 DEF Fresh
        <5>2. CASE p.op = "write"
          BY <1>2, <3>2, <5>1, <5>2, FreshVersions
        <5>3. CASE p.op \in {"move", "move tree"}
          BY <3>2, <5>1, <5>3 DEF Shaped
        <5>4. CASE Deletes(p)
          BY <3>2, <5>1, <5>4 DEF Shaped
        <5>5. p.op # "mkdir"
          BY <3>2 DEF Shaped
        <5> QED BY <3>2, <3>5, <5>2, <5>3, <5>4, <5>5 DEF Operations, Deletes
      <4> QED BY <4>1
    <3> HIDE DEF Without
    <3>6. Without(p)
      BY <3>4, <3>5
    <3> QED BY <1>0, <3>1, <3>6
  <2>4. CASE Draft(n)
    <3>1. PICK e \in Present : plan' = [plan EXCEPT ![n] = Edit(e, tree[e].text \cup {n})]
      BY <2>4 DEF Draft
    <3>2. tree[e].text \cup {n} \in SUBSET Entries
      BY DEF Present, WsTypeOK, RowsOK, Row, Entries
    <3> DEFINE p == Edit(e, tree[e].text \cup {n})
    <3>3. Items(p) = {e} /\ p.before[e] = tree[e] /\ p.after[e].text = tree[e].text \cup {n}
      BY <3>2, EditIs DEF WsTypeOK
    <3>4. n # m
      BY <1>0, <1>1, <2>4 DEF Draft, WsTypeOK, RequestsOK
    <3>5. m \notin tree[e].text
      BY <1>2 DEF Fresh
    <3>6. plan'[n] = p
      BY <1>0, <3>1
    <3> HIDE DEF p
    <3>7. Without(p)
      BY <3>3, <3>4, <3>5
    <3> QED BY <3>6, <3>7
  <2>5. ASSUME NEW k \in Mutations, Retry(n, k) PROVE Without(plan'[n])
    <3>1. plan'[n] = plan[k]
      BY <1>0, <2>5 DEF Retry
    <3> QED BY <1>2, <3>1 DEF Fresh
  <2>6. CASE Rebased(n)
    <3>1. PICK e \in Items(plan[n]) :
             /\ phase[n] = "editing" /\ e \in Present /\ MergeOf(n, tree[e]) # tree[e].text
             /\ plan' = [plan EXCEPT ![n] = Edit(e, MergeOf(n, tree[e]))]
      BY <2>6 DEF Rebased
    <3>2. plan[n].op = "write" /\ JournalOK(plan[n])
      BY <3>1 DEF WsTypeOK, RequestsOK, RequestOK
    <3>3. /\ MergeOf(n, tree[e]) \in SUBSET Entries
          /\ MergeOf(n, tree[e]) \subseteq plan[n].after[e].text \cup tree[e].text
      BY <3>1, <3>2, MergeIs
    <3>4. plan[n].after[e] # Gone
      BY <3>2 DEF JournalOK
    <3>5. m \notin tree[e].text /\ m \notin plan[n].after[e].text
      BY <1>2, <3>1, <3>4 DEF Fresh
    <3> DEFINE p == Edit(e, MergeOf(n, tree[e]))
    <3>6. Items(p) = {e} /\ p.before[e] = tree[e] /\ p.after[e].text = MergeOf(n, tree[e])
      BY <3>1, <3>3, EditIs DEF WsTypeOK
    <3>7. plan'[n] = p
      BY <1>0, <3>1
    <3> HIDE DEF p
    <3>8. Without(p)
      BY <3>3, <3>5, <3>6
    <3> QED BY <3>7, <3>8
  <2> QED BY <2>2, <2>3, <2>4, <2>5, <2>6, PlansMove
<1>5. \A e \in Present' : m \notin tree'[e].text
  BY <1>3 DEF Present
<1>6. intent'[m] = m
  BY <1>1, <1>2 DEF Fresh
<1>7. \A n \in Mutations : \A i \in Items(plan'[n]) :
          /\ plan'[n].before[i] # Gone => m \notin plan'[n].before[i].text
          /\ plan'[n].after[i] # Gone => m \notin plan'[n].after[i].text
  BY <1>4
<1> QED BY <1>5, <1>6, <1>7 DEF Fresh

LEMMA JournalInit == WsInit => JournalInv
<1> SUFFICES ASSUME WsInit PROVE JournalInv
  OBVIOUS
<1>1. /\ \A m \in Mutations : plan[m] = NoPlan /\ intent[m] = m
      /\ \A e \in Entries : tree[e] = Gone \/ (e \in Files /\ tree[e].text = {e})
  BY DEF WsInit
<1>2. Items(NoPlan) = {} /\ NoPlan.op = "none"
  BY DEF Items, NoPlan
<1>3. ASSUME NEW m \in Mutations PROVE Journaled(m) /\ Fresh(m)
  <2>1. Items(plan[m]) = {} /\ plan[m].op = "none"
    BY <1>1, <1>2
  <2>2. Journaled(m)
    BY <2>1 DEF Journaled, Shaped, Adds, Deletes
  <2>3. \A n \in Mutations : Items(plan[n]) = {}
    BY <1>1, <1>2
  <2>4. \A e \in Present : m \notin tree[e].text
    BY <1>1, WorkspaceAssumption DEF Present, WorkspaceAssumption
  <2> QED BY <1>1, <2>2, <2>3, <2>4 DEF Fresh
<1>4. \A e \in Present : Made(e)
  BY <1>1, WorkspaceAssumption DEF Present, Made, WorkspaceAssumption
<1> QED BY <1>3, <1>4 DEF JournalInv

LEMMA JournalStep == ASSUME WsTypeOK, JournalInv, [WsNext]_wsVars PROVE JournalInv'
<1>1. \A e \in Present' : Made(e)'
  BY PresentIsMade DEF Present
<1> QED BY <1>1, JournaledStep, FreshStep DEF JournalInv

LEMMA JournalHolds == WsSpec => []JournalInv
<1>1. WsTypeOK /\ JournalInv /\ [WsNext]_wsVars => JournalInv'
  BY JournalStep
<1> QED BY <1>1, JournalInit, WsTypeCorrect, PTL DEF WsSpec

\* Whatever drafts, retries, merges and restored versions meet, a draft that can
\* be merged changes the place of its contribution and nothing else.
THEOREM NoLostUpdateHolds == WsSpec => NoLostUpdate
<1> DEFINE Kept ==
      \A m \in Mutations, e \in Entries :
          /\ state[m] = "prepared" /\ state'[m] = "completed"
          /\ plan[m].op = "write" /\ e \in Items(plan[m])
          /\ intent[m] \in tree'[e].text \ Unmergeable
          => \A c \in Entries \ Place(intent[m]) : c \in tree'[e].text <=> c \in tree[e].text
<1>1. ASSUME WsTypeOK, JournalInv, [WsNext]_wsVars PROVE Kept
  <2>1. SUFFICES ASSUME NEW m \in Mutations, NEW e \in Items(plan[m]),
                        state[m] = "prepared", state'[m] = "completed",
                        plan[m].op = "write", intent[m] \in tree'[e].text, intent[m] \notin Unmergeable, e \in Entries
                 PROVE  \A c \in Entries \ Place(intent[m]) : c \in tree'[e].text <=> c \in tree[e].text
    OBVIOUS
  <2>2. Completes(m)
    <3>1. PICK n \in Mutations : Completes(n)
      BY <1>1, <2>1, RowsMove
    <3>2. n = m
      BY <2>1, <3>1 DEF Completes
    <3> QED BY <3>1, <3>2
  <2>3. tree[e] = plan[m].before[e] /\ tree'[e] = plan[m].after[e]
    BY <2>1, <2>2 DEF Completes, Commit, Unchanged
  <2>4. Adds(plan[m], intent[m])
    BY <1>1 DEF JournalInv, Journaled
  <2> QED BY <2>1, <2>3, <2>4 DEF Adds, SameButAt
<1>2. WsTypeOK /\ JournalInv /\ [WsNext]_wsVars => [Kept]_wsVars
  BY <1>1
<1>3. NoLostUpdate <=> [][Kept]_wsVars
  BY DEF NoLostUpdate
<1> QED BY <1>2, <1>3, WsTypeCorrect, JournalHolds, PTL DEF WsSpec

-----------------------------------------------------------------------------
(* The directory as it was read, and what is in it.                        *)

\* The directory a journal froze is older than the one there is, or the same,
\* and then the journal of a change of the whole tree has all that is in it.
Based(m) ==
    LET p == plan[m] IN
    /\ p.base # NoFolder =>
          /\ Made(p.base.id)
          /\ p.base.id = folder.id => p.base.rev < folder.rev \/ p.base = folder
    /\ OnTree(p) /\ folder = p.base => Listing \subseteq Items(p)

BaseInv ==
    /\ folder # NoFolder => Made(folder.id)
    /\ \A m \in Mutations : phase[m] # "idle" => Based(m)

TouchesInside(p) == \E path \in Touched(p) : Inside(path)

\* What a commit does to the directory.
LEMMA FolderMoves ==
    ASSUME WsTypeOK, NEW n \in Mutations, Completes(n)
    PROVE  \/ folder' = folder /\ ~OnTree(plan[n]) /\ plan[n].op # "mkdir"
              /\ (folder = NoFolder \/ ~TouchesInside(plan[n]))
           \/ folder' = NoFolder /\ plan[n].op = "delete tree"
           \/ plan[n].op = "mkdir" /\ folder' = [id |-> n, name |-> plan[n].to, rev |-> 1]
           \/ /\ folder \in FolderRow /\ folder'.id = folder.id /\ folder' \in FolderRow
              /\ folder'.rev = folder.rev + 1 /\ plan[n].op \notin {"mkdir", "delete tree"}
              /\ plan[n].op # "move tree" => folder'.name = folder.name /\ TouchesInside(plan[n])
              /\ plan[n].op = "move tree" => folder'.name = plan[n].to
<1> DEFINE p == plan[n]
<1>0. JournalOK(p) /\ p.op \in Operations /\ Unchanged(p) /\ Commit(n)
  BY DEF Completes, WsTypeOK, RequestsOK, RequestOK
<1>a. ASSUME folder # NoFolder
      PROVE  /\ folder \in FolderRow /\ folder.rev + 1 \in Nat
             /\ [folder EXCEPT !.rev = @ + 1] \in FolderRow
             /\ [folder EXCEPT !.rev = @ + 1].id = folder.id
             /\ [folder EXCEPT !.rev = @ + 1].name = folder.name
             /\ [folder EXCEPT !.rev = @ + 1].rev = folder.rev + 1
  <2>1. folder \in FolderRow
    BY <1>a DEF WsTypeOK, RowsOK
  <2>2. folder.rev + 1 \in Nat
    BY <2>1 DEF FolderRow
  <2>3. [folder EXCEPT !.rev = folder.rev + 1] \in FolderRow
    BY <2>1, <2>2 DEF FolderRow
  <2>4. /\ [folder EXCEPT !.rev = folder.rev + 1].id = folder.id
        /\ [folder EXCEPT !.rev = folder.rev + 1].name = folder.name
        /\ [folder EXCEPT !.rev = folder.rev + 1].rev = folder.rev + 1
    BY <2>1 DEF FolderRow
  <2> QED BY <2>1, <2>2, <2>3, <2>4
<1>1. CASE p.op = "mkdir"
  <2>1. folder' = [id |-> n, name |-> p.to, rev |-> 1]
    BY <1>0, <1>1 DEF Commit
  <2> QED BY <1>1, <2>1
<1>2. CASE p.op = "delete tree"
  <2>1. folder' = NoFolder
    BY <1>0, <1>2 DEF Commit
  <2> QED BY <1>2, <2>1
<1>3. CASE p.op = "move tree"
  <2>1. folder' = [folder EXCEPT !.name = p.to, !.rev = @ + 1]
    BY <1>0, <1>3 DEF Commit
  <2>2. folder # NoFolder /\ p.to \in Dirs
    BY <1>0, <1>3 DEF Unchanged, JournalOK, OnTree
  <2>3. folder \in FolderRow /\ folder.rev + 1 \in Nat
    BY <1>a, <2>2
  <2>4. [folder EXCEPT !.name = p.to, !.rev = folder.rev + 1] \in FolderRow
    BY <2>2, <2>3 DEF FolderRow
  <2>5. /\ [folder EXCEPT !.name = p.to, !.rev = folder.rev + 1].id = folder.id
        /\ [folder EXCEPT !.name = p.to, !.rev = folder.rev + 1].name = p.to
        /\ [folder EXCEPT !.name = p.to, !.rev = folder.rev + 1].rev = folder.rev + 1
    BY <2>2, <2>3 DEF FolderRow
  <2> QED BY <1>3, <2>1, <2>3, <2>4, <2>5
<1>4. CASE p.op \notin {"mkdir", "delete tree", "move tree"}
  <2>1. folder' = IF folder # NoFolder /\ TouchesInside(p) THEN [folder EXCEPT !.rev = @ + 1] ELSE folder
    BY <1>0, <1>4 DEF Commit, TouchesInside
  <2>2. ~OnTree(p)
    BY <1>4 DEF OnTree
  <2>3. CASE folder # NoFolder /\ TouchesInside(p)
    BY <1>4, <1>a, <2>1, <2>3
  <2>4. CASE ~(folder # NoFolder /\ TouchesInside(p))
    BY <1>4, <2>1, <2>2, <2>4
  <2> QED BY <2>3, <2>4
<1> QED BY <1>1, <1>2, <1>3, <1>4

\* A commit that does not touch the directory leaves what is in it.
LEMMA ListingStays ==
    ASSUME WsTypeOK, NEW n \in Mutations, Completes(n), ~TouchesInside(plan[n])
    PROVE  Listing' = Listing
<1>1. ASSUME NEW e \in Entries
      PROVE  tree'[e] # Gone /\ Inside(tree'[e].path) <=> tree[e] # Gone /\ Inside(tree[e].path)
  <2>1. CASE e \in Items(plan[n])
    <3>1. tree[e] = plan[n].before[e] /\ tree'[e] = plan[n].after[e]
      BY <2>1 DEF Completes, Unchanged, Commit
    <3>2. plan[n].before[e].path \in Touched(plan[n]) /\ plan[n].after[e].path \in Touched(plan[n])
      BY <2>1 DEF Touched
    <3> QED BY <3>1, <3>2 DEF TouchesInside
  <2>2. CASE e \notin Items(plan[n])
    BY <2>2 DEF Completes, Commit
  <2> QED BY <2>1, <2>2
<1> QED BY <1>1 DEF Listing, Present

LEMMA BasedStays ==
    ASSUME WsTypeOK, BaseInv, [WsNext]_wsVars, NEW m \in Mutations, phase[m] # "idle", plan'[m] = plan[m]
    PROVE  Based(m)'
<1> USE DEF tables
<1> DEFINE p == plan[m]
<1>0. JournalOK(p) /\ Based(m)
  BY DEF WsTypeOK, RequestsOK, RequestOK, BaseInv
<1>1. CASE UNCHANGED tables /\ \A k \in Mutations : state'[k] = "completed" <=> state[k] = "completed"
  BY <1>0, <1>1 DEF Based, Made, Listing, Present
<1>2. ASSUME NEW n \in Mutations, Completes(n) PROVE Based(m)'
  <2>0. \A e : Made(e) => Made(e)'
    BY <1>2 DEF Made, Completes, WsTypeOK, RequestsOK
  <2>1. ASSUME p.base # NoFolder
        PROVE  /\ Made(p.base.id) /\ p.base \in FolderRow /\ p.base.rev \in Nat
               /\ p.base.id = folder'.id => p.base.rev < folder'.rev \/ p.base = folder'
               /\ p.base = folder' => p.base = folder /\ ~TouchesInside(plan[n])
    <3>1. Made(p.base.id) /\ p.base \in FolderRow /\ p.base.rev \in Nat
          /\ (p.base.id = folder.id => p.base.rev < folder.rev \/ p.base = folder)
      BY <1>0, <2>1 DEF Based, JournalOK, FolderRow
    <3> HIDE DEF p
    <3>2. CASE folder' = folder /\ (folder = NoFolder \/ ~TouchesInside(plan[n]))
      BY <2>1, <3>1, <3>2
    <3>3. CASE folder' = NoFolder
      BY <2>1, <3>1, <3>3, FoldersAre, WorkspaceAssumption DEF NoFolder, FolderRow, WorkspaceAssumption
    <3>4. CASE folder'.id = n
      <4>1. state[n] = "prepared"
        BY <1>2 DEF Completes
      <4>2. p.base.id # n
        BY <3>1, <4>1 DEF Made
      <4> QED BY <3>1, <3>4, <4>2
    <3>5. CASE folder \in FolderRow /\ folder'.id = folder.id /\ folder'.rev = folder.rev + 1
      <4>1. folder.rev \in Nat
        BY <3>5 DEF FolderRow
      <4>2. p.base.id = folder.id => p.base.rev <= folder.rev
        BY <3>1, <4>1
      <4> QED BY <3>1, <3>5, <4>1, <4>2
    <3>6. \/ folder' = folder /\ (folder = NoFolder \/ ~TouchesInside(plan[n]))
          \/ folder' = NoFolder
          \/ folder' = [id |-> n, name |-> plan[n].to, rev |-> 1]
          \/ folder \in FolderRow /\ folder'.id = folder.id /\ folder'.rev = folder.rev + 1
      BY <1>2, FolderMoves
    <3> QED BY <3>2, <3>3, <3>4, <3>5, <3>6
  <2>2. ASSUME OnTree(p), folder' = p.base PROVE Listing' \subseteq Items(p)
    <3>1. p.base # NoFolder
      BY <1>0, <2>2 DEF JournalOK
    <3>2. p.base = folder /\ ~TouchesInside(plan[n])
      BY <2>1, <2>2, <3>1
    <3> QED BY <1>0, <1>2, <2>2, <3>2, ListingStays DEF Based
  <2>3. ASSUME p.base # NoFolder PROVE p.base.id \in Mutations => state'[p.base.id] = "completed"
    BY <2>0, <2>1, <2>3 DEF Made
  <2>4. Based(m)' <=> /\ p.base # NoFolder =>
                            /\ p.base.id \in Mutations => state'[p.base.id] = "completed"
                            /\ p.base.id = folder'.id => p.base.rev < folder'.rev \/ p.base = folder'
                      /\ OnTree(p) /\ folder' = p.base => Listing' \subseteq Items(p)
    BY DEF Based, Made
  <2> QED BY <2>1, <2>2, <2>3, <2>4
<1> QED BY <1>1, <1>2, RowsMove

LEMMA BaseStep == ASSUME WsTypeOK, BaseInv, [WsNext]_wsVars PROVE BaseInv'
<1> USE DEF tables, journal
<1>0. DOMAIN plan = Mutations
  BY DEF WsTypeOK, RequestsOK
<1>1. folder' # NoFolder => Made(folder.id)'
  <2>1. CASE UNCHANGED tables /\ \A m \in Mutations : state'[m] = "completed" <=> state[m] = "completed"
    BY <2>1 DEF BaseInv, Made
  <2>2. ASSUME NEW n \in Mutations, Completes(n), folder' # NoFolder PROVE Made(folder.id)'
    <3>1. \A e \in Mutations : state[e] = "completed" => state'[e] = "completed"
      BY <2>2 DEF Completes, WsTypeOK, RequestsOK
    <3>2. state'[n] = "completed"
      BY <2>2 DEF Completes, WsTypeOK, RequestsOK
    <3>3. folder'.id = n \/ (folder # NoFolder /\ folder'.id = folder.id)
      <4>1. folder \in FolderRow => folder # NoFolder
        BY FoldersAre, WorkspaceAssumption
      <4>2. \/ folder' = folder
            \/ folder' = NoFolder
            \/ folder' = [id |-> n, name |-> plan[n].to, rev |-> 1]
            \/ folder \in FolderRow /\ folder'.id = folder.id
        BY <2>2, FolderMoves
      <4> QED BY <2>2, <4>1, <4>2
    <3>4. CASE folder'.id = n
      BY <3>2, <3>4 DEF Made
    <3>5. CASE folder # NoFolder /\ folder'.id = folder.id
      BY <3>1, <3>5 DEF BaseInv, Made
    <3> QED BY <3>3, <3>4, <3>5
  <2> QED BY <2>1, <2>2, RowsMove
\* A journal that is made of the directory of now.
<1>a. ASSUME NEW m \in Mutations, NEW p, plan'[m] = p, UNCHANGED <<tree, folder, state>>,
             p.base \in {NoFolder, folder}, OnTree(p) => Listing \subseteq Items(p)
      PROVE  Based(m)'
  BY <1>a DEF Based, BaseInv, Made, Listing, Present
<1>2. ASSUME NEW m \in Mutations, phase'[m] # "idle" PROVE Based(m)'
  <2>1. CASE plan'[m] = plan[m] /\ phase[m] # "idle"
    BY <2>1, BasedStays
  <2>2. CASE Read(m)
    <3>1. PICK p \in CreatePlans(m) \cup MkdirPlans \cup RestorePlans \cup MovePlans \cup MoveTreePlans \cup DeletePlans :
             plan' = [plan EXCEPT ![m] = p]
      BY <2>2 DEF Read
    <3>2. p.base \in {NoFolder, folder} /\ (OnTree(p) => Listing \subseteq Items(p))
      BY WorkspaceAssumption, PlansShaped DEF WsTypeOK
    <3> QED BY <1>0, <1>a, <2>2, <3>1, <3>2 DEF Read
  <2>3. CASE Draft(m)
    <3>1. PICK e \in Present : plan' = [plan EXCEPT ![m] = Edit(e, tree[e].text \cup {m})]
      BY <2>3 DEF Draft
    <3>2. PICK p : p = Edit(e, tree[e].text \cup {m})
      OBVIOUS
    <3>3. p.base = NoFolder /\ ~OnTree(p)
      BY <3>2 DEF Edit, OnTree
    <3> QED BY <1>0, <1>a, <2>3, <3>1, <3>2, <3>3 DEF Draft
  <2>4. ASSUME NEW n \in Mutations, Retry(m, n) PROVE Based(m)'
    <3>1. plan'[m] = plan[n] /\ plan[n].op = "write" /\ UNCHANGED <<tree, folder, state>> /\ Based(n)
      BY <1>0, <2>4 DEF Retry, BaseInv
    <3> QED BY <3>1 DEF Based, OnTree, Made
  <2>5. CASE Rebased(m)
    <3>1. PICK e \in Items(plan[m]) :
             plan' = [plan EXCEPT ![m] = Edit(e, MergeOf(m, tree[e]))] /\ UNCHANGED <<tables, state>>
      BY <2>5 DEF Rebased
    <3>2. PICK p : p = Edit(e, MergeOf(m, tree[e]))
      OBVIOUS
    <3>3. p.base = NoFolder /\ ~OnTree(p)
      BY <3>2 DEF Edit, OnTree
    <3> QED BY <1>0, <1>a, <3>1, <3>2, <3>3
  <2> QED BY <1>2, <2>1, <2>2, <2>3, <2>4, <2>5, PlansMove
<1> QED BY <1>1, <1>2 DEF BaseInv

LEMMA BaseInitially == WsInit => BaseInv
BY WorkspaceAssumption DEF WsInit, BaseInv, Made, NoFolder, WorkspaceAssumption, Entries

-----------------------------------------------------------------------------
(* Open changes are apart.                                                 *)

\* Two open changes share no entry; the tree of one is not touched by the
\* other; they do not go to the same place.
Apart(p, q) ==
    /\ Items(p) \cap Items(q) = {}
    /\ OnTree(p) => ~OnTree(q) /\ ~TouchesInside(q)
    /\ p.op \in {"create", "move"} /\ q.op \in {"create", "move"} => p.to # q.to

\* Until a change is settled, where it makes an entry the directory is the one
\* it read, and a change of a whole tree has all that is in it.
Placed(m) ==
    LET p == plan[m] IN
    /\ p.op = "mkdir" => folder = NoFolder /\ \A n \in Prepared : plan[n].op = "mkdir" => n = m
    /\ p.op \in {"create", "move"} /\ Inside(p.to) => folder.id = p.base.id /\ folder.name = p.base.name
    /\ OnTree(p) => Listing \subseteq Items(p)

OpenInv ==
    /\ BaseIsKept
    /\ \A m \in Prepared : Placed(m)
    /\ \A m, n \in Prepared : m # n => Apart(plan[m], plan[n])

\* What is open after a step was open before, or has just begun.
LEMMA PreparedMove ==
    ASSUME WsTypeOK, [WsNext]_wsVars, NEW m \in Mutations, state'[m] = "prepared"
    PROVE  /\ plan'[m] = plan[m]
           /\ \/ state[m] = "prepared"
              \/ Begin(m) /\ state[m] = "none" /\ UNCHANGED <<tables, plan>>
                          /\ state' = [state EXCEPT ![m] = "prepared"]
<1> USE DEF journal
<1>1. state[m] = "prepared" \/ Begin(m)
  BY StatesMove DEF StillOwns, WsTypeOK, RequestsOK, Fail, Record, Conclude, Settle
<1>2. CASE state[m] = "prepared"
  BY <1>2, JournalsStay
<1>3. CASE Begin(m)
  BY <1>3 DEF Begin, WsTypeOK, RequestsOK, RequestOK
<1> QED BY <1>1, <1>2, <1>3

\* What an open journal says of the directory and of the rows.
LEMMA OpenIs ==
    ASSUME WsTypeOK, JournalInv, OpenInv, NEW m \in Prepared
    PROVE  LET p == plan[m] IN
           /\ m \in Mutations /\ JournalOK(p) /\ p.op \in Operations /\ Shaped(m, p) /\ Unchanged(p) /\ Placed(m)
           /\ OnTree(p) => folder \in FolderRow /\ folder.id = p.base.id
           /\ p.op \in {"create", "move"} /\ Inside(p.to) => folder \in FolderRow
           /\ p.op \in {"create", "move"} => p.to \in Touched(p)
           /\ p.op = "mkdir" => folder = NoFolder
<1> DEFINE p == plan[m]
<1>1. m \in Mutations /\ JournalOK(p) /\ p.op \in Operations /\ Shaped(m, p) /\ Unchanged(p) /\ Placed(m)
  BY DEF Prepared, WsTypeOK, RequestsOK, RequestOK, JournalInv, Journaled, OpenInv, BaseIsKept
<1>a. ASSUME NEW f \in FolderRow, folder.id = f.id PROVE folder \in FolderRow
  BY <1>a, FoldersAre, WorkspaceAssumption DEF WsTypeOK, RowsOK, NoFolder, WorkspaceAssumption
<1>2. ASSUME OnTree(p) PROVE folder \in FolderRow /\ folder.id = p.base.id
  <2>1. p.base \in FolderRow /\ folder.id = p.base.id
    BY <1>1, <1>2 DEF JournalOK, Unchanged, OnTree
  <2> QED BY <1>a, <2>1
<1>3. ASSUME p.op \in {"create", "move"} PROVE p.to \in Touched(p) /\ (Inside(p.to) => folder \in FolderRow)
  <2>1. PICK i \in Items(p) : p.after[i].path = p.to
    BY <1>1, <1>3 DEF JournalOK
  <2>2. Inside(p.to) => p.base \in FolderRow /\ folder.id = p.base.id
    BY <1>1, <1>3 DEF JournalOK, Placed
  <2> QED BY <1>a, <2>1, <2>2 DEF Touched
<1>4. p.op = "mkdir" => folder = NoFolder
  BY <1>1 DEF Placed
<1> QED BY <1>1, <1>2, <1>3, <1>4

\* A change begins apart from every open one: that is what claims are for.
LEMMA BeginsApart ==
    ASSUME WsTypeOK, JournalInv, BaseInv, OpenInv, NEW n \in Mutations, Begin(n), NEW m \in Prepared
    PROVE  Apart(plan[m], plan[n]) /\ Apart(plan[n], plan[m])
<1> DEFINE p == plan[n]
           q == plan[m]
<1>1. /\ JournalOK(p) /\ p.op \in Operations /\ Shaped(n, p) /\ Based(n)
      /\ Admissible(n) /\ n # m
  BY DEF Begin, Prepared, WsTypeOK, RequestsOK, RequestOK, JournalInv, Journaled, BaseInv
<1>2. /\ m \in Mutations /\ JournalOK(q) /\ q.op \in Operations /\ Shaped(m, q) /\ Unchanged(q) /\ Placed(m)
      /\ OnTree(q) => folder \in FolderRow /\ folder.id = q.base.id
      /\ q.op \in {"create", "move"} /\ Inside(q.to) => folder \in FolderRow
  BY OpenIs
<1>3. /\ \A s \in Conflicts(p) : s \notin Claims(q)
      /\ \A i \in Items(p) : tree[i] = p.before[i]
      /\ \A i \in Items(q) : tree[i] = q.before[i]
      /\ p.base # NoFolder => folder = p.base
  BY <1>1, <1>2 DEF Admissible, Active, Current, Unchanged
<1> HIDE DEF p, q
<1>4. ASSUME NEW i \in Items(p), p.op # "create" PROVE FileScope(i) \in Conflicts(p)
  <2>1. CASE p.op \in {"write", "delete", "move"}
    BY <2>1 DEF Conflicts, Claims
  <2>2. CASE OnTree(p)
    BY <2>2 DEF Conflicts
  <2>3. p.op # "mkdir"
    BY <1>1 DEF Shaped
  <2> QED BY <1>1, <1>4, <2>1, <2>2, <2>3 DEF Operations, OnTree
<1>5. ASSUME TouchesInside(p), folder \in FolderRow PROVE TreeScope(folder.id) \in Conflicts(p)
  <2>1. folder.id # Nothing
    BY <1>5, WorkspaceAssumption DEF FolderRow, WorkspaceAssumption
  <2> QED BY <1>5, <2>1 DEF TouchesInside, Conflicts
<1>6. ASSUME OnTree(q) PROVE TreeScope(folder.id) \in Claims(q)
  BY <1>2, <1>6 DEF OnTree, Claims
<1>7. ASSUME OnTree(p) PROVE TreeScope(folder.id) \in Conflicts(p) /\ folder = p.base
  <2>1. folder = p.base
    BY <1>1, <1>3, <1>7 DEF JournalOK
  <2>2. TreeScope(p.base.id) \in Claims(p)
    BY <1>7 DEF OnTree, Claims
  <2> QED BY <2>1, <2>2 DEF Conflicts
<1>8. ASSUME NEW i, i \in Items(p), i \in Items(q) PROVE FALSE
  <2>1. p.before[i] = q.before[i] /\ tree[i] = q.before[i]
    BY <1>3, <1>8
  <2>2. p.op # "create" /\ q.op # "create"
    <3>1. p.op = "create" => i = n /\ p.before[i] = Gone
      BY <1>1, <1>8 DEF Shaped
    <3>2. q.op = "create" => i = m /\ q.before[i] = Gone
      BY <1>2, <1>8 DEF Shaped
    <3>3. p.op # "create" => p.before[i] # Gone
      BY <1>1, <1>8 DEF Shaped
    <3>4. q.op # "create" => q.before[i] # Gone
      BY <1>2, <1>8 DEF Shaped
    <3> QED BY <1>1, <2>1, <3>1, <3>2, <3>3, <3>4
  <2>3. FileScope(i) \notin Claims(q)
    BY <1>3, <1>4, <1>8, <2>2
  <2>4. q.op \notin {"write", "delete", "move"} /\ q.op # "mkdir"
    BY <1>2, <1>8, <2>3 DEF Claims, Shaped
  <2>5. OnTree(q)
    BY <1>2, <2>2, <2>4 DEF Operations, OnTree
  <2>6. Inside(q.before[i].path)
    <3>1. CASE q.op = "move tree"
      BY <1>2, <1>8, <3>1 DEF Shaped
    <3>2. CASE q.op = "delete tree" /\ ~Inside(q.before[i].path)
      BY <1>8, <2>3, <3>2 DEF Claims
    <3> QED BY <2>5, <3>1, <3>2 DEF OnTree
  <2>7. TouchesInside(p)
    BY <1>8, <2>1, <2>6 DEF TouchesInside, Touched
  <2> QED BY <1>2, <1>3, <1>5, <1>6, <2>5, <2>7
<1>9. Items(p) \cap Items(q) = {}
  BY <1>8
<1>10. ASSUME OnTree(q) PROVE ~OnTree(p) /\ ~TouchesInside(p)
  BY <1>2, <1>3, <1>5, <1>6, <1>7, <1>10
<1>11. ASSUME OnTree(p), NEW path \in Touched(q), Inside(path) PROVE FALSE
  <2>1. ~OnTree(q)
    BY <1>10, <1>11
  <2>2. ASSUME NEW i \in Items(q), path = q.before[i].path PROVE FALSE
    <3>1. tree[i] # Gone /\ i \in Entries /\ Inside(tree[i].path)
      <4>1. tree[i] = q.before[i] /\ i \in Entries
        BY <1>2, <1>3, <2>2 DEF JournalOK
      <4>2. ~Inside(Gone.path)
        BY DEF Inside, Gone
      <4> QED BY <1>11, <2>2, <4>1, <4>2
    <3>2. i \in Listing
      BY <3>1 DEF Listing, Present
    <3>3. i \in Items(p)
      BY <1>1, <1>7, <1>11, <3>2 DEF Based, p
    <3> QED BY <1>8, <3>3
  <2>3. PICK i \in Items(q) : path = q.after[i].path
    BY <2>2 DEF Touched
  <2>4. CASE q.op \in {"create", "move"}
    <3>1. path = q.to
      BY <1>2, <2>3, <2>4 DEF JournalOK
    <3>2. path[2] \in Names /\ folder.id = q.base.id
      BY <1>2, <1>11, <2>4, <3>1, NamesAre, WorkspaceAssumption DEF JournalOK, Placed, q
    <3>3. PathScope(folder.id, path[2]) \in Claims(q)
      BY <1>11, <2>4, <3>1, <3>2 DEF Claims, ScopeOf
    <3>4. PathScope(folder.id, path[2]) \in Conflicts(p)
      BY <1>7, <1>11, <3>2 DEF Conflicts
    <3> QED BY <1>3, <3>3, <3>4
  <2>5. CASE q.op = "write"
    <3>1. path = q.before[i].path
      <4>1. PICK j \in Items(q) : Items(q) = {j} /\ q.after[j].path = q.to
        BY <1>2, <2>5 DEF JournalOK
      <4> QED BY <1>2, <2>3, <2>5, <4>1 DEF Shaped
    <3> QED BY <2>2, <3>1
  <2>6. CASE Deletes(q)
    <3>1. q.after[i] = Gone
      BY <1>2, <2>3, <2>6 DEF Shaped
    <3>2. ~Inside(Gone.path)
      BY DEF Inside, Gone
    <3> QED BY <1>11, <2>3, <3>1, <3>2
  <2>7. q.op # "mkdir"
    BY <1>2, <2>3 DEF Shaped
  <2> QED BY <1>2, <2>1, <2>4, <2>5, <2>6, <2>7 DEF Operations, OnTree, Deletes
<1>12. ASSUME OnTree(p) PROVE ~OnTree(q) /\ ~TouchesInside(q)
  BY <1>10, <1>11, <1>12 DEF TouchesInside
<1>13. ASSUME p.op \in {"create", "move"}, q.op \in {"create", "move"}, p.to = q.to PROVE FALSE
  <2>1. ScopeOf(p) \in Conflicts(p) /\ ScopeOf(q) \in Claims(q)
    BY <1>13 DEF Conflicts, Claims
  <2>2. Inside(p.to) => p.base.id = q.base.id
    BY <1>1, <1>2, <1>3, <1>13 DEF JournalOK, Placed, q
  <2>3. ScopeOf(p) = ScopeOf(q)
    BY <1>13, <2>2 DEF ScopeOf
  <2> QED BY <1>3, <2>1, <2>3
<1>14. Apart(q, p) /\ Apart(p, q)
  BY <1>9, <1>10, <1>12, <1>13 DEF Apart
<1> QED BY <1>14 DEF p, q

\* A change that is completed leaves what another open one started from, and
\* the place it goes to.
LEMMA CommitsApart ==
    ASSUME WsTypeOK, JournalInv, OpenInv, NEW n \in Mutations, Completes(n), NEW m \in Prepared, m # n
    PROVE  /\ Unchanged(plan[m])'
           /\ plan[m].op = "mkdir" => folder' = NoFolder
           /\ plan[m].op \in {"create", "move"} /\ Inside(plan[m].to) =>
                 folder'.id = plan[m].base.id /\ folder'.name = plan[m].base.name
           /\ OnTree(plan[m]) => Listing' \subseteq Items(plan[m])
<1> DEFINE p == plan[n]
           q == plan[m]
<1>0. n \in Prepared
  BY DEF Completes, Prepared
<1>1. /\ JournalOK(p) /\ p.op \in Operations /\ Shaped(n, p) /\ Unchanged(p)
      /\ p.op = "mkdir" => folder = NoFolder
      /\ p.op = "mkdir" => q.op # "mkdir"
  BY <1>0, OpenIs DEF Placed
<1>2. /\ JournalOK(q) /\ q.op \in Operations /\ Shaped(m, q) /\ Unchanged(q)
      /\ OnTree(q) => folder \in FolderRow /\ folder.id = q.base.id
      /\ q.op \in {"create", "move"} /\ Inside(q.to) =>
            folder \in FolderRow /\ folder.id = q.base.id /\ folder.name = q.base.name
      /\ OnTree(q) => Listing \subseteq Items(q)
      /\ q.op \in {"create", "move"} => q.to \in Touched(q)
      /\ q.op = "mkdir" => folder = NoFolder
  BY OpenIs DEF Placed
<1>3. Apart(p, q) /\ Apart(q, p)
  BY <1>0 DEF OpenInv
<1>4. \A e \in Entries : tree'[e] = IF e \in Items(p) THEN p.after[e] ELSE tree[e]
  BY DEF Completes, Commit
<1>5. OnTree(p) => folder \in FolderRow
  BY <1>0, OpenIs
<1>6. \A f \in FolderRow : f # NoFolder
  BY FoldersAre, WorkspaceAssumption
<1>7. \/ folder' = folder
      \/ OnTree(p) /\ (p.op = "delete tree" \/ folder'.id = folder.id)
      \/ p.op = "mkdir"
      \/ ~OnTree(p) /\ TouchesInside(p) /\ folder \in FolderRow /\ folder'.id = folder.id /\ folder'.name = folder.name
  BY FolderMoves DEF OnTree
<1>8. plan'[m] = q
  BY DEF Completes
<1> HIDE DEF p, q
<1>9. \A i \in Items(q) : tree'[i] = q.before[i]
  <2>1. \A i \in Items(q) : i \notin Items(p) /\ i \in Entries /\ tree[i] = q.before[i]
    BY <1>2, <1>3 DEF Apart, JournalOK, Unchanged
  <2> QED BY <1>4, <2>1
<1>10. ASSUME OnTree(q) \/ q.op = "mkdir" PROVE folder' = folder
  <2>1. CASE OnTree(q)
    <3>1. ~OnTree(p) /\ ~TouchesInside(p) /\ p.op # "mkdir"
      BY <1>1, <1>2, <1>3, <1>6, <2>1 DEF Apart
    <3> QED BY <1>7, <3>1
  <2>2. CASE q.op = "mkdir"
    BY <1>1, <1>2, <1>5, <1>6, <1>7, <2>2
  <2> QED BY <1>10, <2>1, <2>2
<1>11. ASSUME q.op \in {"create", "move"}, Inside(q.to)
       PROVE  folder'.id = q.base.id /\ folder'.name = q.base.name
  <2>1. ~OnTree(p) /\ p.op # "mkdir"
    BY <1>1, <1>2, <1>3, <1>6, <1>11 DEF Apart, TouchesInside
  <2> QED BY <1>2, <1>7, <1>11, <2>1
<1>12. ASSUME q.op \in {"create", "move"}, NEW e \in Entries, tree'[e] # Gone, e \notin Items(q), tree'[e].path = q.to
       PROVE  FALSE
  <2>1. \A k \in Present \ Items(q) : tree[k].path # q.to
    BY <1>2, <1>12 DEF Unchanged, Free
  <2>2. e \in Items(p) /\ tree'[e] = p.after[e]
    BY <1>4, <1>12, <2>1 DEF Present
  <2>3. CASE p.op \in {"create", "move"}
    <3>1. p.after[e].path = p.to
      BY <1>1, <2>2, <2>3 DEF JournalOK
    <3> QED BY <1>3, <1>12, <2>2, <2>3, <3>1 DEF Apart
  <2>4. CASE p.op = "write"
    <3>1. p.after[e].path = p.to
      BY <1>1, <2>2, <2>4 DEF JournalOK
    <3>2. p.before[e].path = p.to /\ p.before[e] # Gone
      BY <1>1, <2>2, <2>4 DEF Shaped
    <3>3. tree[e] = p.before[e]
      BY <1>1, <2>2 DEF Unchanged
    <3> QED BY <1>12, <2>1, <2>2, <3>1, <3>2, <3>3 DEF Present
  <2>5. CASE Deletes(p)
    BY <1>1, <1>12, <2>2, <2>5 DEF Shaped
  <2>6. CASE p.op = "move tree"
    <3>1. p.after[e].path = <<p.to, p.before[e].path[2]>> /\ p.to \in Dirs
      BY <1>1, <2>2, <2>6 DEF Shaped, JournalOK
    <3>2. q.to \in Paths
      BY <1>2, <1>12 DEF JournalOK
    <3>3. q.to[1] = p.to
      BY <1>12, <2>2, <3>1
    <3>4. Inside(q.to)
      BY <3>1, <3>2, <3>3, NamesAre, WorkspaceAssumption DEF Inside
    <3> QED BY <1>2, <1>3, <1>12, <2>6, <3>4 DEF Apart, OnTree, TouchesInside
  <2>7. p.op # "mkdir"
    BY <1>1, <2>2 DEF Shaped
  <2> QED BY <1>1, <2>3, <2>4, <2>5, <2>6, <2>7 DEF Operations, Deletes
<1>13. ASSUME q.op \in {"mkdir", "move tree"} PROVE folder'.name # q.to
  BY <1>2, <1>10, <1>13 DEF Unchanged, Free, OnTree
<1>14. q.op = "move tree" => folder' = q.base
  BY <1>2, <1>10 DEF Unchanged, OnTree
<1>15. q.op = "delete tree" => folder'.id = q.base.id /\ folder'.name = q.base.name
  BY <1>2, <1>10 DEF Unchanged, OnTree
<1>16. q.op \in {"create", "move"} => \A e \in Present' \ Items(q) : tree'[e].path # q.to
  BY <1>12 DEF Present
<1>b. OnTree(q) => Listing' \subseteq Items(q)
  BY <1>2, <1>3, ListingStays DEF Apart, p
<1>17. /\ \A i \in Items(q) : tree'[i] = q.before[i]
       /\ q.op = "move tree" => folder' = q.base
       /\ q.op = "delete tree" => folder'.id = q.base.id /\ folder'.name = q.base.name
       /\ q.op \in {"create", "move"} => \A e \in Present' \ Items(q) : tree'[e].path # q.to
       /\ q.op \in {"mkdir", "move tree"} => folder'.name # q.to
       /\ q.op = "mkdir" => folder' = NoFolder
       /\ q.op \in {"create", "move"} /\ Inside(q.to) => folder'.id = q.base.id /\ folder'.name = q.base.name
  BY <1>2, <1>9, <1>10, <1>11, <1>13, <1>14, <1>15, <1>16
<1>18. Unchanged(plan[m])' <=>
          /\ \A i \in Items(plan'[m]) : tree'[i] = plan'[m].before[i]
          /\ plan'[m].op = "move tree" => folder' = plan'[m].base
          /\ plan'[m].op = "delete tree" => folder'.id = plan'[m].base.id /\ folder'.name = plan'[m].base.name
          /\ plan'[m].op \in {"create", "move"} => \A e \in Present' \ Items(plan'[m]) : tree'[e].path # plan'[m].to
          /\ plan'[m].op \in {"mkdir", "move tree"} => folder'.name # plan'[m].to
  BY DEF Unchanged, Free
<1> QED BY <1>8, <1>b, <1>17, <1>18 DEF q

LEMMA OpenStep == ASSUME WsTypeOK, JournalInv, BaseInv, OpenInv, [WsNext]_wsVars PROVE OpenInv'
<1> USE DEF tables
<1>a. ASSUME NEW m \in Prepared'
      PROVE  /\ m \in Mutations /\ state'[m] = "prepared" /\ plan'[m] = plan[m]
             /\ m \in Prepared \/ (Begin(m) /\ state[m] = "none" /\ UNCHANGED <<tables, plan>>
                                  /\ state' = [state EXCEPT ![m] = "prepared"])
  BY <1>a, PreparedMove DEF Prepared
\* The rows of an open change stay.
<1>1. ASSUME NEW m \in Prepared' PROVE Unchanged(plan[m])'
  <2>1. ASSUME UNCHANGED tables, Unchanged(plan[m]) PROVE Unchanged(plan[m])'
    BY <1>a, <1>1, <2>1 DEF Unchanged, Free, Present
  <2>2. CASE m \in Prepared /\ UNCHANGED tables
    BY <2>1, <2>2 DEF OpenInv, BaseIsKept
  <2>3. ASSUME NEW n \in Mutations, Completes(n), m \in Prepared PROVE Unchanged(plan[m])'
    <3>1. m # n
      BY <1>a, <1>1, <2>3 DEF Completes, WsTypeOK, RequestsOK
    <3> QED BY <2>3, <3>1, CommitsApart
  <2>4. CASE Begin(m)
    <3>1. Admissible(m) /\ JournalOK(plan[m]) /\ UNCHANGED tables
      <4>1. Admissible(m) /\ phase[m] = "read" /\ UNCHANGED tables
        BY <2>4 DEF Begin
      <4> QED BY <1>a, <1>1, <4>1 DEF WsTypeOK, RequestsOK, RequestOK
    <3>2. Current(plan[m]) /\ Free(plan[m])
      BY <3>1 DEF Admissible
    <3>3. Unchanged(plan[m])
      BY <3>1, <3>2 DEF Current, Unchanged, JournalOK, OnTree
    <3> QED BY <2>1, <3>1, <3>3
  <2> QED BY <1>a, <1>1, <2>2, <2>3, <2>4, RowsMove
<1>2. ASSUME NEW m \in Prepared' PROVE Placed(m)'
  <2>1. ASSUME plan[m].op = "mkdir" PROVE folder' = NoFolder
    <3>1. CASE m \in Prepared /\ UNCHANGED tables
      BY <2>1, <3>1 DEF OpenInv, Placed
    <3>2. ASSUME NEW n \in Mutations, Completes(n), m \in Prepared PROVE folder' = NoFolder
      <4>1. m # n
        BY <1>a, <1>2, <3>2 DEF Completes, WsTypeOK, RequestsOK
      <4> QED BY <2>1, <3>2, <4>1, CommitsApart
    <3>3. CASE Begin(m)
      BY <2>1, <3>3 DEF Begin, Admissible, OneFolder
    <3> QED BY <1>a, <1>2, <3>1, <3>2, <3>3, RowsMove
  <2>2. ASSUME plan[m].op \in {"create", "move"}, Inside(plan[m].to)
        PROVE  folder'.id = plan[m].base.id /\ folder'.name = plan[m].base.name
    <3>1. CASE m \in Prepared /\ UNCHANGED tables
      BY <2>2, <3>1 DEF OpenInv, Placed
    <3>2. ASSUME NEW n \in Mutations, Completes(n), m \in Prepared
          PROVE  folder'.id = plan[m].base.id /\ folder'.name = plan[m].base.name
      <4>1. m # n
        BY <1>a, <1>2, <3>2 DEF Completes, WsTypeOK, RequestsOK
      <4> QED BY <2>2, <3>2, <4>1, CommitsApart
    <3>3. CASE Begin(m)
      <4>1. JournalOK(plan[m]) /\ Current(plan[m]) /\ UNCHANGED tables
        <5>1. Current(plan[m]) /\ phase[m] = "read" /\ UNCHANGED tables
          BY <3>3 DEF Begin, Admissible
        <5> QED BY <1>a, <1>2, <5>1 DEF WsTypeOK, RequestsOK, RequestOK
      <4> QED BY <2>2, <4>1 DEF JournalOK, Current
    <3> QED BY <1>a, <1>2, <3>1, <3>2, <3>3, RowsMove
  <2>3. ASSUME plan[m].op = "mkdir", NEW n \in Prepared', plan'[n].op = "mkdir" PROVE n = m
    <3>1. plan[n].op = "mkdir" /\ n \in Mutations
      BY <1>a, <2>3
    <3>2. CASE m \in Prepared /\ n \in Prepared
      BY <2>3, <3>1, <3>2 DEF OpenInv, Placed
    <3>3. CASE Begin(m)
      <4>1. n = m \/ n \in Prepared
        BY <1>a, <1>2, <2>3, <3>1, <3>3 DEF Prepared, Begin, WsTypeOK, RequestsOK
      <4> QED BY <2>3, <3>1, <3>3, <4>1 DEF Begin, Admissible, OneFolder
    <3>4. CASE Begin(n)
      <4>1. n = m \/ m \in Prepared
        BY <1>a, <1>2, <2>3, <3>1, <3>4 DEF Prepared, Begin, WsTypeOK, RequestsOK
      <4> QED BY <2>3, <3>1, <3>4, <4>1 DEF Begin, Admissible, OneFolder
    <3> QED BY <1>a, <1>2, <2>3, <3>2, <3>3, <3>4
  <2>6. ASSUME OnTree(plan[m]) PROVE Listing' \subseteq Items(plan[m])
    <3>1. CASE m \in Prepared /\ UNCHANGED tables
      BY <2>6, <3>1 DEF OpenInv, Placed, Listing, Present
    <3>2. ASSUME NEW n \in Mutations, Completes(n), m \in Prepared PROVE Listing' \subseteq Items(plan[m])
      <4>1. m # n
        BY <1>a, <1>2, <3>2 DEF Completes, WsTypeOK, RequestsOK
      <4> QED BY <2>6, <3>2, <4>1, CommitsApart
    <3>3. CASE Begin(m)
      <4>1. /\ JournalOK(plan[m]) /\ Current(plan[m]) /\ Based(m)
        <5>1. Current(plan[m]) /\ phase[m] = "read"
          BY <3>3 DEF Begin, Admissible
        <5> QED BY <1>a, <1>2, <5>1 DEF WsTypeOK, RequestsOK, RequestOK, BaseInv
      <4>2. Listing' = Listing
        BY <3>3 DEF Begin, Listing, Present
      <4> QED BY <2>6, <4>1, <4>2 DEF JournalOK, Current, Based
    <3> QED BY <1>a, <1>2, <3>1, <3>2, <3>3, RowsMove
  <2>4. plan'[m] = plan[m]
    BY <1>a, <1>2
  <2>5. Placed(m)' <=>
          /\ plan'[m].op = "mkdir" => folder' = NoFolder /\ \A n \in Prepared' : plan'[n].op = "mkdir" => n = m
          /\ plan'[m].op \in {"create", "move"} /\ Inside(plan'[m].to) =>
                folder'.id = plan'[m].base.id /\ folder'.name = plan'[m].base.name
          /\ OnTree(plan'[m]) => Listing' \subseteq Items(plan'[m])
    BY DEF Placed
  <2> QED BY <2>1, <2>2, <2>3, <2>4, <2>5, <2>6
<1>3. ASSUME NEW m \in Prepared', NEW n \in Prepared', m # n PROVE Apart(plan[m], plan[n])
  <2>1. CASE m \in Prepared /\ n \in Prepared
    BY <1>3, <2>1 DEF OpenInv
  <2>2. CASE Begin(n) /\ UNCHANGED plan /\ state' = [state EXCEPT ![n] = "prepared"]
    <3>1. m \in Prepared
      BY <1>3, <2>2 DEF Prepared, WsTypeOK, RequestsOK
    <3> QED BY <1>a, <1>3, <2>2, <3>1, BeginsApart
  <2>3. CASE Begin(m) /\ UNCHANGED plan /\ state' = [state EXCEPT ![m] = "prepared"]
    <3>1. n \in Prepared
      BY <1>3, <2>3 DEF Prepared, WsTypeOK, RequestsOK
    <3> QED BY <1>a, <1>3, <2>3, <3>1, BeginsApart
  <2> QED BY <1>a, <1>3, <2>1, <2>2, <2>3
<1>4. ASSUME NEW m \in Prepared', NEW n \in Prepared', m # n PROVE Apart(plan'[m], plan'[n])
  BY <1>a, <1>3, <1>4
<1>5. BaseIsKept'
  BY <1>1 DEF BaseIsKept
<1>6. (\A m, n \in Prepared : m # n => Apart(plan[m], plan[n]))'
  BY <1>4 DEF Apart, OnTree, TouchesInside
<1> QED BY <1>2, <1>5, <1>6 DEF OpenInv

LEMMA OpenHolds == WsSpec => [](BaseInv /\ OpenInv)
<1>1. WsInit => OpenInv
  BY DEF WsInit, OpenInv, BaseIsKept, Prepared
<1>2. WsTypeOK /\ JournalInv /\ BaseInv /\ OpenInv /\ [WsNext]_wsVars => BaseInv' /\ OpenInv'
  BY BaseStep, OpenStep
<1> QED BY <1>1, <1>2, BaseInitially, WsTypeCorrect, JournalHolds, PTL DEF WsSpec

\* Claims, not the compare-and-set, decide conflicts: what an open change
\* started from and the place it goes to stay as they are until it is settled.
THEOREM BaseIsKeptHolds == WsSpec => []BaseIsKept
<1>1. OpenInv => BaseIsKept
  BY DEF OpenInv
<1> QED BY <1>1, OpenHolds, PTL

-----------------------------------------------------------------------------
(* Where rows are.                                                         *)

\* Rows are in the root or in the directory there is, each in a place of its own.
LayoutInv == PathsAreUnique /\ \A e \in Present : There(tree[e].path)

LEMMA LayoutInitially == WsInit => LayoutInv
<1> SUFFICES ASSUME WsInit PROVE LayoutInv
  OBVIOUS
<1>1. PICK place \in [Files -> {q \in Paths : There(q)}] :
          /\ \A e, f \in Files : place[e] = place[f] => e = f
          /\ tree = [e \in Entries |-> IF e \in Files THEN [path |-> place[e], text |-> {e}, rev |-> 1] ELSE Gone]
  BY DEF WsInit
<1>2. \A e \in Present : e \in Files /\ tree[e].path = place[e]
  BY <1>1 DEF Present
<1> QED BY <1>1, <1>2 DEF LayoutInv, PathsAreUnique

\* A row that is not in the directory is in the root.
LEMMA OutsideIsTop ==
    ASSUME WsTypeOK, NEW e \in Present
    PROVE  /\ tree[e] \in Row /\ tree[e].path \in Paths
           /\ e \notin Listing => tree[e].path[1] = Top
<1>1. tree[e] \in Row
  BY DEF Present, WsTypeOK, RowsOK
<1>2. tree[e].path \in Paths
  BY <1>1 DEF Row
<1>3. tree[e].path # Nothing
  BY <1>2, NamesAre, WorkspaceAssumption
<1> QED BY <1>1, <1>2, <1>3 DEF Listing, Inside

\* A path is its directory and its name.
LEMMA PathIs ==
    ASSUME NEW p \in Paths, NEW q \in Paths, p[1] = q[1], p[2] = q[2]
    PROVE  p = q
BY DEF Paths

\* A row that a journal leaves, and where it is: in the place that the journal
\* names, where the row was, or moved with the directory.
LEMMA RowsLeft ==
    ASSUME WsTypeOK, JournalInv, OpenInv, LayoutInv, NEW n \in Mutations, Completes(n),
           NEW e \in Items(plan[n]), plan[n].after[e] # Gone
    PROVE  /\ tree'[e] = plan[n].after[e]
           /\ \/ /\ plan[n].op \in {"create", "move"} /\ tree'[e].path = plan[n].to /\ Items(plan[n]) = {e}
                 /\ \A f \in Present \ Items(plan[n]) : tree[f].path # plan[n].to
                 /\ Inside(plan[n].to) => plan[n].to[1] = folder.name
                 /\ plan[n].to \in Paths
              \/ /\ plan[n].op = "write" /\ e \in Present /\ tree'[e].path = tree[e].path /\ Items(plan[n]) = {e}
              \/ /\ plan[n].op = "move tree" /\ e \in Present /\ plan[n].to \in Dirs /\ tree[e].path[1] = folder.name
                 /\ tree'[e].path[1] = plan[n].to /\ tree'[e].path[2] = tree[e].path[2]
<1> DEFINE p == plan[n]
<1>1. n \in Prepared
  BY DEF Completes, Prepared
<1>2. JournalOK(p) /\ p.op \in Operations /\ Shaped(n, p) /\ Unchanged(p) /\ Placed(n)
  BY <1>1, OpenIs
<1>3. e \in Entries /\ tree[e] = p.before[e] /\ tree'[e] = p.after[e]
  BY <1>2 DEF JournalOK, Unchanged, Completes, Commit
<1>a. p.op # "create" => e \in Present
  BY <1>2, <1>3 DEF Shaped, Present
<1>4. CASE p.op \in {"create", "move"}
  <2>1. tree'[e].path = p.to /\ Items(p) = {e} /\ p.to \in Paths
    BY <1>2, <1>3, <1>4 DEF JournalOK
  <2>2. \A f \in Present \ Items(p) : tree[f].path # p.to
    BY <1>2, <1>4 DEF Unchanged, Free
  <2>3. Inside(p.to) => p.to[1] = folder.name
    BY <1>2, <1>4 DEF Shaped, Placed
  <2> QED BY <1>3, <1>4, <2>1, <2>2, <2>3
<1>5. CASE p.op = "write"
  <2>1. tree'[e].path = p.to /\ Items(p) = {e}
    BY <1>2, <1>3, <1>5 DEF JournalOK
  <2>2. tree[e].path = p.to
    BY <1>2, <1>3, <1>5 DEF Shaped
  <2> QED BY <1>3, <1>a, <1>5, <2>1, <2>2
<1>6. CASE p.op = "move tree"
  <2>1. Inside(tree[e].path) /\ tree'[e].path = <<p.to, tree[e].path[2]>> /\ p.to \in Dirs
    BY <1>2, <1>3, <1>6 DEF Shaped, JournalOK
  <2>2. There(tree[e].path)
    BY <1>a, <1>6 DEF LayoutInv
  <2>3. tree[e].path[1] = folder.name
    BY <2>1, <2>2 DEF There, Inside
  <2>4. <<p.to, tree[e].path[2]>>[1] = p.to /\ <<p.to, tree[e].path[2]>>[2] = tree[e].path[2]
    OBVIOUS
  <2>5. tree'[e].path[1] = p.to /\ tree'[e].path[2] = tree[e].path[2]
    BY <2>1, <2>4
  <2> QED BY <1>3, <1>a, <1>6, <2>1, <2>3, <2>5
<1>7. CASE Deletes(p)
  BY <1>2, <1>7 DEF Shaped
<1>8. p.op # "mkdir"
  BY <1>2 DEF Shaped
<1> QED BY <1>2, <1>4, <1>5, <1>6, <1>7, <1>8 DEF Operations, Deletes

LEMMA LayoutStep == ASSUME WsTypeOK, JournalInv, OpenInv, LayoutInv, [WsNext]_wsVars PROVE LayoutInv'
<1> USE DEF tables
<1>1. CASE UNCHANGED tables
  BY <1>1 DEF LayoutInv, PathsAreUnique, Present, There
<1>2. ASSUME NEW n \in Mutations, Completes(n) PROVE LayoutInv'
  <2> DEFINE p == plan[n]
  <2>1. n \in Prepared
    BY <1>2 DEF Completes, Prepared
  <2>2. JournalOK(p) /\ p.op \in Operations /\ Placed(n)
    BY <2>1, OpenIs
  <2>3. ASSUME NEW e \in Present'
        PROVE  /\ e \in Entries
               /\ e \in Items(p) => tree'[e] = p.after[e] /\ p.after[e] # Gone
               /\ e \notin Items(p) => e \in Present /\ tree'[e] = tree[e]
    BY <1>2, <2>3 DEF Present, Completes, Commit
  \* The directory's name stays, or it is made, moved or removed.
  <2>4. \/ folder'.name = folder.name /\ ~OnTree(p) /\ p.op # "mkdir"
        \/ p.op = "delete tree"
        \/ p.op = "mkdir" /\ folder = NoFolder
        \/ p.op = "move tree" /\ folder'.name = p.to
    BY <1>2, <2>2, FolderMoves DEF Placed, OnTree
  <2>5. OnTree(p) => Listing \subseteq Items(p)
    BY <2>2 DEF Placed
  <2> HIDE DEF p
  <2>6. ASSUME NEW e \in Present' PROVE tree'[e].path[1] \in {Top, folder'.name}
    <3>1. CASE e \in Items(p)
      <4>1. p.after[e] # Gone
        BY <2>3, <2>6, <3>1
      <4>2. \/ p.op \in {"create", "move"} /\ tree'[e].path = p.to
               /\ (Inside(p.to) => p.to[1] = folder.name) /\ p.to \in Paths
            \/ p.op = "write" /\ e \in Present /\ tree'[e].path = tree[e].path
            \/ p.op = "move tree" /\ tree'[e].path[1] = p.to
        BY <1>2, <3>1, <4>1, RowsLeft DEF p
      <4>3. p.op \in {"create", "move", "write"} => folder'.name = folder.name
        BY <2>4
      <4>4. CASE p.op \in {"create", "move"}
        <5>1. p.to # Nothing
          BY <4>2, <4>4, NamesAre, WorkspaceAssumption
        <5> QED BY <4>2, <4>3, <4>4, <5>1 DEF Inside
      <4>5. CASE p.op = "write"
        BY <4>2, <4>3, <4>5 DEF LayoutInv, There
      <4>6. CASE p.op = "move tree"
        BY <2>4, <4>2, <4>6 DEF OnTree
      <4> QED BY <4>2, <4>4, <4>5, <4>6
    <3>2. CASE e \notin Items(p)
      <4>1. e \in Present /\ tree'[e] = tree[e] /\ tree[e].path[1] \in {Top, folder.name}
        BY <2>3, <2>6, <3>2 DEF LayoutInv, There
      <4>2. CASE OnTree(p)
        BY <2>5, <3>2, <4>1, <4>2, OutsideIsTop
      <4>3. CASE folder = NoFolder
        <5>1. tree[e].path[1] \in {Top} \cup Dirs
          BY <4>1, OutsideIsTop, NamesAre, WorkspaceAssumption
        <5>2. tree[e].path[1] # Nothing
          BY <5>1, WorkspaceAssumption DEF WorkspaceAssumption
        <5> QED BY <4>1, <4>3, <5>2 DEF NoFolder
      <4> QED BY <2>4, <4>1, <4>2, <4>3 DEF OnTree
    <3> QED BY <3>1, <3>2
  \* One of them the change leaves, the other it does not touch.
  <2>7. ASSUME NEW e \in Present', NEW f \in Present', e \in Items(p), f \notin Items(p) PROVE tree'[e].path # tree'[f].path
    <3>1. f \in Present /\ tree'[f] = tree[f] /\ p.after[e] # Gone
      BY <2>3, <2>7
    <3>5. \/ tree'[e].path = p.to /\ \A k \in Present \ Items(p) : tree[k].path # p.to
          \/ e \in Present /\ tree'[e].path = tree[e].path
          \/ p.op = "move tree" /\ tree'[e].path[1] = p.to /\ p.to \in Dirs
      BY <1>2, <2>7, <3>1, RowsLeft DEF p
    <3>2. \/ tree[f].path # tree'[e].path
          \/ e \in Present /\ tree'[e].path = tree[e].path
          \/ p.op = "move tree" /\ tree'[e].path[1] = p.to /\ p.to \in Dirs
      BY <2>7, <3>1, <3>5
    <3>3. e # f
      BY <2>7
    <3>4. CASE p.op = "move tree" /\ tree'[e].path[1] = p.to /\ p.to \in Dirs
      <4>1. tree'[e].path[1] = p.to /\ p.to # Top
        BY <3>4, NamesAre, WorkspaceAssumption
      <4>2. f \notin Listing
        BY <2>5, <2>7, <3>4 DEF OnTree
      <4> QED BY <3>1, <4>1, <4>2, OutsideIsTop
    <3> QED BY <2>7, <3>1, <3>2, <3>3, <3>4 DEF LayoutInv, PathsAreUnique
  <2>8. ASSUME NEW e \in Present', NEW f \in Present', e \in Items(p), f \in Items(p), tree'[e].path = tree'[f].path
        PROVE  e = f
    <3>1. p.after[e] # Gone /\ p.after[f] # Gone
      BY <2>3, <2>8
    <3>2. \/ Items(p) = {e}
          \/ e \in Present /\ tree'[e].path[2] = tree[e].path[2] /\ tree[e].path[1] = folder.name
      BY <1>2, <2>8, <3>1, RowsLeft DEF p
    <3>3. \/ Items(p) = {f}
          \/ f \in Present /\ tree'[f].path[2] = tree[f].path[2] /\ tree[f].path[1] = folder.name
      BY <1>2, <2>8, <3>1, RowsLeft DEF p
    <3>4. CASE /\ e \in Present /\ tree'[e].path[2] = tree[e].path[2] /\ tree[e].path[1] = folder.name
               /\ f \in Present /\ tree'[f].path[2] = tree[f].path[2] /\ tree[f].path[1] = folder.name
      <4>1. tree[e].path[2] = tree[f].path[2]
        BY <2>8, <3>4
      <4>2. tree[e].path = tree[f].path
        BY <3>4, <4>1, OutsideIsTop, PathIs
      <4> QED BY <3>4, <4>2 DEF LayoutInv, PathsAreUnique
    <3> QED BY <2>8, <3>2, <3>3, <3>4
  <2>9. ASSUME NEW e \in Present', NEW f \in Present', e \notin Items(p), f \notin Items(p), tree'[e].path = tree'[f].path
        PROVE  e = f
    BY <2>3, <2>9 DEF LayoutInv, PathsAreUnique
  <2>10. PathsAreUnique'
    BY <2>7, <2>8, <2>9 DEF PathsAreUnique
  <2>11. LayoutInv' <=> PathsAreUnique' /\ \A e \in Present' : tree'[e].path[1] \in {Top, folder'.name}
    BY DEF LayoutInv, There
  <2> QED BY <2>6, <2>10, <2>11
<1> QED BY <1>1, <1>2, RowsMove

LEMMA LayoutHolds == WsSpec => []LayoutInv
<1>1. WsTypeOK /\ JournalInv /\ OpenInv /\ LayoutInv /\ [WsNext]_wsVars => LayoutInv'
  BY LayoutStep
<1>2. BaseInv /\ OpenInv => OpenInv
  OBVIOUS
<1> QED BY <1>1, <1>2, LayoutInitially, WsTypeCorrect, JournalHolds, OpenHolds, PTL DEF WsSpec

-----------------------------------------------------------------------------
(* The two sides of an open change, as files d and directories D.          *)

\* x is the text that the rows of f have at a path.
Says(f, path, x) ==
    /\ \A i \in DOMAIN f : f[i].path = path => x = f[i].text
    /\ (\A i \in DOMAIN f : f[i].path # path) => x = Nothing

AreaOf(p) == {path \in Paths : path \in Touched(p) \/ (OnTree(p) /\ Inside(path))}

Before(p, d, D) ==
    /\ \A path \in AreaOf(p) : Says(p.before, path, d[path])
    /\ p.op = "mkdir" => D = {}
    /\ OnTree(p) => D = {p.base.name}

After(p, d, D) ==
    /\ \A path \in AreaOf(p) : Says(p.after, path, d[path])
    /\ p.op \in {"mkdir", "move tree"} => D = {p.to}
    /\ p.op = "delete tree" => D = {}

\* A deletion that has gone some way.
InPart(p, d, D) ==
    /\ \A path \in AreaOf(p) : d[path] = Nothing \/ Says(p.before, path, d[path])
    /\ p.op = "delete tree" => D \subseteq {p.base.name}

\* What a change of a tree lists is in the directory it names.
Under(p) == p.op = "move tree" => \A i \in Items(p) : p.before[i].path[1] = p.base.name

OnDirs(p) == p.op \in {"mkdir", "move tree", "delete tree"}

\* A side is a matter of the area of a change, and of the directories only if
\* the change is one of the directory.
LEMMA SidesFrame ==
    ASSUME NEW p, NEW d, NEW D, NEW e, NEW E,
           \A path \in AreaOf(p) : d[path] = e[path],
           OnDirs(p) => D = E
    PROVE  /\ Before(p, d, D) => Before(p, e, E)
           /\ After(p, d, D) => After(p, e, E)
           /\ InPart(p, d, D) => InPart(p, e, E)
<1>1. (\A path \in AreaOf(p) : Says(p.before, path, d[path])) => \A path \in AreaOf(p) : Says(p.before, path, e[path])
  OBVIOUS
<1>2. (\A path \in AreaOf(p) : Says(p.after, path, d[path])) => \A path \in AreaOf(p) : Says(p.after, path, e[path])
  OBVIOUS
<1>3. (\A path \in AreaOf(p) : d[path] = Nothing \/ Says(p.before, path, d[path]))
         => \A path \in AreaOf(p) : e[path] = Nothing \/ Says(p.before, path, e[path])
  OBVIOUS
<1> QED BY <1>1, <1>2, <1>3 DEF Before, After, InPart, OnDirs, OnTree

\* The one file of a creation, a write or a move, and its paths.
LEMMA OneFile ==
    ASSUME NEW m, NEW p, JournalOK(p), Shaped(m, p), p.op \in {"create", "write", "move"}
    PROVE  \E i \in Items(p) :
              /\ Items(p) = {i} /\ DOMAIN p.after = {i} /\ p.to \in Paths /\ p.after[i].path = p.to
              /\ Touched(p) = {p.before[i].path, p.to} /\ ~OnTree(p)
              /\ NewText(p) = p.after[i].text /\ OldText(p) = p.before[i].text /\ From(p) = p.before[i].path
              /\ p.op = "create" => p.before[i].path = Nothing /\ p.before[i].text = Nothing
              /\ p.op = "write" => p.before[i].path = p.to /\ p.before[i].text # p.after[i].text
              /\ p.op = "move" => /\ p.before[i].path \in Paths /\ p.before[i].path # p.to
                                  /\ p.before[i].text = p.after[i].text
              /\ p.after[i].text # Nothing
<1>1. PICK i \in Items(p) : Items(p) = {i} /\ p.after[i].path = p.to
  BY DEF JournalOK
<1>2. DOMAIN p.after = {i} /\ p.to \in Paths
  BY <1>1 DEF JournalOK
<1>3. Touched(p) = {p.before[i].path, p.to} /\ ~OnTree(p)
  BY <1>1 DEF Touched, OnTree
<1>4. NewText(p) = p.after[i].text /\ OldText(p) = p.before[i].text /\ From(p) = p.before[i].path
  <2>1. /\ {p.after[j].text : j \in Items(p)} = {p.after[i].text}
        /\ {p.before[j].text : j \in Items(p)} = {p.before[i].text}
        /\ {p.before[j].path : j \in Items(p)} = {p.before[i].path}
    BY <1>1
  <2> QED BY <2>1 DEF NewText, OldText, From
<1>5. p.op = "create" => p.before[i] = Gone /\ p.after[i].text # Nothing
  <2>1. ASSUME p.op = "create" PROVE p.before[i] = Gone /\ p.after[i] # Gone
    <3>1. i = m
      BY <1>1, <2>1 DEF Shaped
    <3> QED BY <1>1, <1>2, <2>1, <3>1, NamesAre, WorkspaceAssumption DEF Shaped, Gone
  <2>2. p.after[i] # Gone => p.after[i].text \in SUBSET Entries
    BY <1>1 DEF JournalOK, Row
  <2> QED BY <2>1, <2>2, NothingAssumption
<1>6. p.op = "write" => p.before[i].path = p.to /\ p.before[i].text # p.after[i].text
  BY <1>1 DEF Shaped
<1>7. p.op \in {"write", "move"} => p.before[i].path \in Paths /\ p.after[i].text # Nothing
  <2>1. p.op \in {"write", "move"} => p.before[i] \in Row /\ p.after[i] \in Row
    BY <1>1 DEF JournalOK
  <2> QED BY <2>1, NothingAssumption DEF Row
<1>8. p.op = "move" => p.before[i].path # p.to /\ p.before[i].text = p.after[i].text
  BY <1>1 DEF Shaped
<1> QED BY <1>1, <1>2, <1>3, <1>4, <1>5, <1>6, <1>7, <1>8 DEF Gone

LEMMA DeletedAreGone ==
    ASSUME NEW m, NEW p, JournalOK(p), Shaped(m, p), Deletes(p)
    PROVE  \A i \in DOMAIN p.after : p.after[i] = Gone /\ p.after[i].path = Nothing /\ p.after[i].text = Nothing
<1>1. DOMAIN p.after = Items(p)
  BY DEF JournalOK
<1>2. \A i \in Items(p) : p.after[i] = Gone
  BY DEF Shaped
<1> QED BY <1>1, <1>2 DEF Gone

\* A deletion, from wherever it is, brings its files to their new side.
LEMMA EraseBrings ==
    ASSUME NEW m, NEW p, JournalOK(p), Shaped(m, p), Deletes(p), InPart(p, disk, dirs), Erase(p, Doomed(p))
    PROVE  After(p, disk', dirs')
<1>1. ASSUME NEW path \in AreaOf(p) PROVE disk'[path] = Nothing
  <2>1. path \in Paths
    BY DEF AreaOf
  <2>2. CASE path \in Doomed(p)
    BY <2>1, <2>2 DEF Erase
  <2>3. CASE path \notin Doomed(p)
    <3>1. path \notin Touched(p) /\ disk'[path] = disk[path]
      BY <2>1, <2>3 DEF Doomed, Erase
    <3>2. \A i \in DOMAIN p.before : p.before[i].path # path
      BY <3>1 DEF Touched, Items
    <3>3. disk[path] = Nothing
      BY <3>2 DEF InPart, Says
    <3> QED BY <3>1, <3>3
  <2> QED BY <2>2, <2>3
<1>2. \A i \in DOMAIN p.after : p.after[i].text = Nothing
  BY DeletedAreGone
<1>3. p.op = "delete tree" => dirs' = {}
  BY DEF Erase, InPart
<1>4. p.op \notin {"mkdir", "move tree"}
  BY DEF Deletes
<1> QED BY <1>1, <1>2, <1>3, <1>4 DEF After, Says

LEMMA EraseKeeps ==
    ASSUME NEW p, InPart(p, disk, dirs), NEW part, Erase(p, part)
    PROVE  InPart(p, disk', dirs')
<1>1. ASSUME NEW path \in AreaOf(p) PROVE disk'[path] \in {Nothing, disk[path]}
  BY DEF AreaOf, Erase
<1>2. ASSUME p.op = "delete tree" PROVE dirs' \subseteq {p.base.name}
  BY <1>2 DEF Erase, InPart
<1>3. ASSUME NEW path \in AreaOf(p) PROVE disk'[path] = Nothing \/ Says(p.before, path, disk'[path])
  <2>1. disk[path] = Nothing \/ Says(p.before, path, disk[path])
    BY DEF InPart
  <2> QED BY <1>1, <2>1
<1> QED BY <1>2, <1>3 DEF InPart

\* A deletion that is through is one that has gone some way.
LEMMA AfterIsInPart ==
    ASSUME NEW m, NEW p, JournalOK(p), Shaped(m, p), Deletes(p), NEW d, NEW D, After(p, d, D)
    PROVE  InPart(p, d, D)
<1>1. \A i \in DOMAIN p.after : p.after[i].path = Nothing /\ p.after[i].text = Nothing
  BY DeletedAreGone
<1>2. ASSUME NEW path \in AreaOf(p) PROVE d[path] = Nothing
  <2>1. path # Nothing
    BY NamesAre, WorkspaceAssumption DEF AreaOf
  <2> QED BY <1>1, <2>1 DEF After, Says
<1> QED BY <1>2 DEF InPart, After

\* Any other script brings its files from the old side to the new one.
LEMMA PerformBrings ==
    ASSUME StoreOK, NEW m, NEW p, JournalOK(p), Shaped(m, p), Under(p), p.op \in Operations, ~Deletes(p),
           Before(p, disk, dirs), Perform(p)
    PROVE  After(p, disk', dirs')
<1>0. \A path \in Paths : path \in DOMAIN disk /\ path # Nothing
  BY NamesAre, WorkspaceAssumption DEF StoreOK
<1>1. CASE p.op \in {"create", "write", "move"}
  <2>1. PICK i \in Items(p) :
              /\ Items(p) = {i} /\ DOMAIN p.after = {i} /\ p.to \in Paths /\ p.after[i].path = p.to
              /\ Touched(p) = {p.before[i].path, p.to} /\ ~OnTree(p)
              /\ NewText(p) = p.after[i].text /\ From(p) = p.before[i].path
              /\ p.op = "create" => p.before[i].path = Nothing
              /\ p.op = "write" => p.before[i].path = p.to
              /\ p.op = "move" => /\ p.before[i].path \in Paths /\ p.before[i].path # p.to
                                  /\ p.before[i].text = p.after[i].text
    BY <1>1, OneFile
  <2>2. CASE p.op = "move"
    <3>1. disk' = [disk EXCEPT ![p.to] = disk[p.before[i].path], ![p.before[i].path] = Nothing]
      BY <2>1, <2>2 DEF Perform, Deletes
    <3>2. disk'[p.to] = disk[p.before[i].path] /\ disk'[p.before[i].path] = Nothing
      BY <1>0, <2>1, <2>2, <3>1
    <3>3. p.before[i].path \in AreaOf(p)
      BY <2>1, <2>2 DEF AreaOf
    <3>4. disk[p.before[i].path] = p.before[i].text
      BY <3>3 DEF Before, Says, Items
    <3>5. ASSUME NEW path \in AreaOf(p) PROVE Says(p.after, path, disk'[path])
      <4>1. path = p.to \/ path = p.before[i].path
        BY <2>1 DEF AreaOf
      <4>2. Says(p.after, p.to, disk'[p.to])
        BY <2>1, <2>2, <3>2, <3>4 DEF Says
      <4>3. Says(p.after, p.before[i].path, disk'[p.before[i].path])
        BY <2>1, <2>2, <3>2 DEF Says
      <4> QED BY <4>1, <4>2, <4>3
    <3> QED BY <2>2, <3>5 DEF After
  <2>3. CASE p.op \in {"create", "write"}
    <3>1. disk' = [disk EXCEPT ![p.to] = p.after[i].text]
      BY <2>1, <2>3 DEF Perform, Deletes
    <3>2. disk'[p.to] = p.after[i].text
      BY <1>0, <2>1, <3>1
    <3>3. ASSUME NEW path \in AreaOf(p) PROVE path = p.to
      BY <1>0, <2>1, <2>3 DEF AreaOf
    <3>4. Says(p.after, p.to, disk'[p.to])
      BY <2>1, <3>2 DEF Says
    <3>5. \A path \in AreaOf(p) : Says(p.after, path, disk'[path])
      BY <3>3, <3>4
    <3> QED BY <2>3, <3>5 DEF After
  <2> QED BY <1>1, <2>2, <2>3
<1>2. CASE p.op = "mkdir"
  <2>1. Items(p) = {} /\ dirs' = dirs \cup {p.to}
    BY <1>2 DEF Shaped, Perform, Deletes
  <2>2. AreaOf(p) = {}
    BY <1>2, <2>1 DEF AreaOf, Touched, OnTree
  <2> QED BY <1>2, <2>1, <2>2 DEF After, Before
<1>3. CASE p.op = "move tree"
  <2> DEFINE old == p.base.name
  <2>1. /\ disk' = [q \in Paths |-> IF q[1] = old THEN Nothing
                                    ELSE IF q[1] = p.to THEN disk[<<old, q[2]>>] ELSE disk[q]]
        /\ dirs' = (dirs \ {old}) \cup {p.to}
    BY <1>3 DEF Perform, Deletes, Rename
  <2>2. p.to \in Dirs /\ old \in Dirs /\ p.to # old /\ dirs = {old} /\ OnTree(p)
    BY <1>3 DEF JournalOK, Shaped, FolderRow, OnTree, Before
  <2>3. ASSUME NEW i \in Items(p)
        PROVE  /\ p.before[i].path \in Paths /\ p.before[i].path[1] = old
               /\ p.after[i].path[1] = p.to /\ p.after[i].path[2] = p.before[i].path[2]
               /\ p.after[i].path \in Paths
               /\ p.after[i].text = p.before[i].text
    <3>1. p.before[i] \in Row
      BY <1>3, <2>3 DEF JournalOK, Shaped
    <3>2. p.before[i].path \in Paths /\ p.before[i].path[1] = old
      BY <1>3, <3>1 DEF Row, Under
    <3>3. p.after[i].path = <<p.to, p.before[i].path[2]>> /\ p.after[i].text = p.before[i].text
      BY <1>3 DEF Shaped
    <3>4. <<p.to, p.before[i].path[2]>>[1] = p.to /\ <<p.to, p.before[i].path[2]>>[2] = p.before[i].path[2]
      OBVIOUS
    <3>5. <<p.to, p.before[i].path[2]>> \in Paths
      BY <2>2, <3>2, NamesAre, WorkspaceAssumption
    <3> QED BY <3>2, <3>3, <3>4, <3>5
  <2>4. DOMAIN p.after = Items(p) /\ DOMAIN p.before = Items(p)
    BY DEF JournalOK, Items
  <2> HIDE DEF old
  <2>5. ASSUME NEW q \in AreaOf(p) PROVE Says(p.after, q, disk'[q])
    <3>1. q \in Paths /\ q[1] # Top
      <4>1. \A i \in Items(p) : p.before[i].path[1] # Top /\ p.after[i].path[1] # Top
        BY <2>2, <2>3, NamesAre, WorkspaceAssumption
      <4> QED BY <4>1 DEF AreaOf, Touched, Inside
    <3>2. CASE q[1] = old
      <4>1. disk'[q] = Nothing
        BY <2>1, <3>1, <3>2
      <4>2. \A i \in Items(p) : p.after[i].path # q
        BY <2>2, <2>3, <3>2
      <4> QED BY <2>4, <4>1, <4>2 DEF Says
    <3>3. CASE q[1] = p.to
      <4> DEFINE k == <<old, q[2]>>
      <4>1. k \in Paths /\ k[1] = old /\ k[2] = q[2]
        BY <2>2, <3>1, NamesAre, WorkspaceAssumption
      <4>2. disk'[q] = disk[k]
        BY <2>1, <2>2, <3>1, <3>3
      <4> HIDE DEF k
      <4>3. k \in AreaOf(p)
        BY <2>2, <4>1, NamesAre, WorkspaceAssumption DEF AreaOf, Inside
      <4>4. Says(p.before, k, disk[k])
        BY <4>3 DEF Before
      <4>5. ASSUME NEW i \in Items(p) PROVE p.after[i].path = q <=> p.before[i].path = k
        <5>1. ASSUME p.after[i].path = q PROVE p.before[i].path = k
          BY <2>3, <4>1, <5>1, PathIs
        <5>2. ASSUME p.before[i].path = k PROVE p.after[i].path = q
          BY <2>3, <3>1, <3>3, <4>1, <5>2, PathIs
        <5> QED BY <5>1, <5>2
      <4>6. Says(p.after, q, disk[k])
        BY <2>3, <2>4, <4>4, <4>5 DEF Says
      <4> QED BY <4>2, <4>6
    <3>4. CASE q[1] \notin {old, p.to}
      <4>1. disk'[q] = disk[q] /\ Says(p.before, q, disk[q])
        BY <2>1, <3>1, <3>4 DEF Before
      <4>2. \A i \in Items(p) : p.before[i].path # q /\ p.after[i].path # q
        BY <2>3, <3>4
      <4>3. disk[q] = Nothing
        BY <2>4, <4>1, <4>2 DEF Says
      <4> QED BY <2>4, <4>1, <4>2, <4>3 DEF Says
    <3> QED BY <3>2, <3>3, <3>4
  <2>6. dirs' = {p.to}
    BY <2>1, <2>2
  <2> QED BY <1>3, <2>5, <2>6 DEF After
<1> QED BY <1>1, <1>2, <1>3 DEF Operations, Deletes

\* A reconciler recognises either side.
LEMMA VerdictIs ==
    ASSUME NEW m, NEW p, JournalOK(p), Shaped(m, p), p.op \in Operations, ~Deletes(p)
    PROVE  /\ Before(p, disk, dirs) => Verdict(p) = "not applied"
           /\ After(p, disk, dirs) => Verdict(p) = "applied"
<1>1. CASE p.op \in {"create", "write", "move"}
  <2>1. PICK i \in Items(p) :
              /\ Items(p) = {i} /\ DOMAIN p.after = {i} /\ p.to \in Paths /\ p.after[i].path = p.to
              /\ Touched(p) = {p.before[i].path, p.to} /\ ~OnTree(p)
              /\ NewText(p) = p.after[i].text /\ OldText(p) = p.before[i].text /\ From(p) = p.before[i].path
              /\ p.op = "create" => p.before[i].path = Nothing /\ p.before[i].text = Nothing
              /\ p.op = "write" => p.before[i].path = p.to /\ p.before[i].text # p.after[i].text
              /\ p.op = "move" => /\ p.before[i].path \in Paths /\ p.before[i].path # p.to
                                  /\ p.before[i].text = p.after[i].text
              /\ p.after[i].text # Nothing
    BY <1>1, OneFile
  <2>2. p.to \in AreaOf(p) /\ p.to # Nothing /\ DOMAIN p.before = {i}
    BY <2>1, NamesAre, WorkspaceAssumption DEF AreaOf, Items
  <2>3. ASSUME Before(p, disk, dirs) PROVE Verdict(p) = "not applied"
    <3>1. Says(p.before, p.to, disk[p.to])
      BY <2>2, <2>3 DEF Before
    <3>2. CASE p.op \in {"create", "write"}
      <4>1. disk[p.to] = p.before[i].text /\ p.before[i].text # p.after[i].text
        BY <2>1, <2>2, <3>1, <3>2 DEF Says
      <4>2. ~IsApplied(p) /\ IsNotApplied(p)
        BY <2>1, <3>2, <4>1 DEF IsApplied, IsNotApplied
      <4> QED BY <4>2 DEF Verdict
    <3>3. CASE p.op = "move"
      <4>1. disk[p.to] = Nothing
        BY <2>1, <2>2, <3>1, <3>3 DEF Says
      <4>2. p.before[i].path \in AreaOf(p)
        BY <2>1, <3>3 DEF AreaOf
      <4>3. disk[p.before[i].path] # Nothing
        BY <2>1, <2>2, <2>3, <3>3, <4>2 DEF Before, Says
      <4>4. ~IsApplied(p) /\ IsNotApplied(p)
        BY <2>1, <3>3, <4>1, <4>3 DEF IsApplied, IsNotApplied
      <4> QED BY <4>4 DEF Verdict
    <3> QED BY <1>1, <3>2, <3>3
  <2>4. ASSUME After(p, disk, dirs) PROVE Verdict(p) = "applied"
    <3>1. Says(p.after, p.to, disk[p.to])
      BY <2>2, <2>4 DEF After
    <3>2. disk[p.to] = p.after[i].text
      BY <2>1, <3>1 DEF Says
    <3>3. CASE p.op \in {"create", "write"}
      <4>1. IsApplied(p)
        BY <2>1, <3>2, <3>3 DEF IsApplied
      <4> QED BY <4>1 DEF Verdict
    <3>4. CASE p.op = "move"
      <4>1. p.before[i].path \in AreaOf(p)
        BY <2>1, <3>4 DEF AreaOf
      <4>2. disk[p.before[i].path] = Nothing
        BY <2>1, <2>4, <3>4, <4>1 DEF After, Says
      <4>3. IsApplied(p)
        BY <2>1, <3>2, <3>4, <4>2 DEF IsApplied
      <4> QED BY <4>3 DEF Verdict
    <3> QED BY <1>1, <3>3, <3>4
  <2> QED BY <2>3, <2>4
<1>2. CASE p.op = "mkdir"
  BY <1>2 DEF Before, After, Verdict, IsApplied, IsNotApplied, OnTree
<1>3. CASE p.op = "move tree"
  <2>1. p.to # p.base.name
    BY <1>3 DEF Shaped
  <2>2. Before(p, disk, dirs) => p.to \notin dirs /\ p.base.name \in dirs
    BY <1>3, <2>1 DEF Before, OnTree
  <2>3. After(p, disk, dirs) => p.to \in dirs /\ p.base.name \notin dirs
    BY <1>3, <2>1 DEF After
  <2>4. /\ IsApplied(p) <=> p.to \in dirs /\ p.base.name \notin dirs
        /\ IsNotApplied(p) <=> p.base.name \in dirs /\ p.to \notin dirs
    BY <1>3 DEF IsApplied, IsNotApplied
  <2> QED BY <2>2, <2>3, <2>4 DEF Verdict
<1> QED BY <1>1, <1>2, <1>3 DEF Operations, Deletes

-----------------------------------------------------------------------------
(* The areas of open changes.                                              *)

\* An open journal fits the rows and the directory.
Open(m, p) ==
    /\ JournalOK(p) /\ p.op \in Operations /\ Shaped(m, p) /\ Unchanged(p)
    /\ OnTree(p) => folder \in FolderRow /\ folder.name = p.base.name /\ Listing \subseteq Items(p)
    /\ p.op = "mkdir" => folder = NoFolder

LEMMA PreparedIsOpen ==
    ASSUME WsTypeOK, JournalInv, OpenInv, NEW m \in Prepared
    PROVE  Open(m, plan[m])
<1>1. /\ JournalOK(plan[m]) /\ plan[m].op \in Operations /\ Shaped(m, plan[m]) /\ Unchanged(plan[m]) /\ Placed(m)
      /\ OnTree(plan[m]) => folder \in FolderRow
  BY OpenIs
<1>2. OnTree(plan[m]) => folder.name = plan[m].base.name
  BY <1>1 DEF Unchanged, OnTree
<1> QED BY <1>1, <1>2 DEF Placed, Open

LEMMA BegunIsOpen ==
    ASSUME WsTypeOK, JournalInv, BaseInv, NEW n \in Mutations, Begin(n)
    PROVE  Open(n, plan[n]) /\ state[n] = "none" /\ phase[n] = "read"
<1>1. /\ JournalOK(plan[n]) /\ plan[n].op \in Operations /\ Shaped(n, plan[n]) /\ Based(n)
      /\ Admissible(n) /\ state[n] = "none" /\ phase[n] = "read"
  BY DEF Begin, WsTypeOK, RequestsOK, RequestOK, JournalInv, Journaled, BaseInv
<1>2. Current(plan[n]) /\ Free(plan[n]) /\ OneFolder(plan[n])
  BY <1>1 DEF Admissible
<1>3. Unchanged(plan[n])
  BY <1>1, <1>2 DEF Current, Unchanged, JournalOK, OnTree
<1>4. OnTree(plan[n]) => folder = plan[n].base /\ folder \in FolderRow
  BY <1>1, <1>2 DEF Current, JournalOK
<1> QED BY <1>1, <1>2, <1>3, <1>4 DEF Open, Based, OneFolder

LEMMA OpenIsUnder == ASSUME LayoutInv, NEW m, NEW p, Open(m, p) PROVE Under(p)
<1>1. ASSUME p.op = "move tree", NEW i \in Items(p) PROVE p.before[i].path[1] = p.base.name
  <2>1. tree[i] = p.before[i] /\ i \in Entries /\ Inside(p.before[i].path) /\ p.before[i] # Gone
    BY <1>1 DEF Open, Unchanged, JournalOK, Shaped
  <2>2. p.before[i].path[1] \in {Top, folder.name}
    BY <2>1 DEF LayoutInv, Present, There
  <2> QED BY <1>1, <2>1, <2>2 DEF Open, OnTree, Inside
<1> QED BY <1>1 DEF Under

\* What an area is: the tree, rows of the change, or the place it goes to.
LEMMA AreaIs ==
    ASSUME WsTypeOK, NEW m, NEW p, Open(m, p), NEW path \in AreaOf(p)
    PROVE  \/ OnTree(p) /\ Inside(path)
           \/ \E i \in Items(p) : i \in Present /\ tree[i].path = path
           \/ p.op \in {"create", "move"} /\ path = p.to
<1>0. path \in Paths /\ path # Nothing
  BY NamesAre, WorkspaceAssumption DEF AreaOf
<1>1. \A i \in Items(p) : tree[i] = p.before[i] /\ i \in Entries
  BY DEF Open, Unchanged, JournalOK
<1>2. ASSUME NEW i \in Items(p), path = p.before[i].path PROVE i \in Present /\ tree[i].path = path
  BY <1>0, <1>1, <1>2 DEF Present, Gone
<1>3. ASSUME NEW i \in Items(p), path = p.after[i].path, path # p.before[i].path
      PROVE  (OnTree(p) /\ Inside(path)) \/ (p.op \in {"create", "move"} /\ path = p.to)
  <2>0. JournalOK(p) /\ Shaped(m, p) /\ p.op \in Operations
    BY DEF Open
  <2>1. CASE p.op \in {"create", "move"}
    BY <1>3, <2>0, <2>1 DEF JournalOK
  <2>2. CASE p.op = "write"
    BY <1>3, <2>0, <2>2 DEF JournalOK, Shaped
  <2>3. CASE p.op = "move tree"
    <3>1. path = <<p.to, p.before[i].path[2]>> /\ p.to \in Dirs
      BY <1>3, <2>0, <2>3 DEF JournalOK, Shaped
    <3>2. path[1] = p.to
      BY <3>1
    <3> QED BY <1>0, <2>3, <3>1, <3>2, NamesAre, WorkspaceAssumption DEF Inside, OnTree
  <2>4. CASE Deletes(p)
    <3>1. p.after[i] = Gone
      BY <2>0, <2>4 DEF Shaped
    <3> QED BY <1>0, <1>3, <3>1 DEF Gone
  <2>5. p.op # "mkdir"
    BY <1>3, <2>0 DEF Shaped
  <2> QED BY <2>0, <2>1, <2>2, <2>3, <2>4, <2>5 DEF Operations, Deletes
<1>4. (OnTree(p) /\ Inside(path)) \/ \E i \in Items(p) : path = p.before[i].path \/ path = p.after[i].path
  BY DEF AreaOf, Touched
<1> QED BY <1>2, <1>3, <1>4

\* In the area of a change nobody else has a row.
LEMMA RowsInArea ==
    ASSUME WsTypeOK, LayoutInv, NEW m, NEW p, Open(m, p), NEW e \in Present, tree[e].path \in AreaOf(p)
    PROVE  e \in Items(p)
<1>1. CASE OnTree(p) /\ Inside(tree[e].path)
  BY <1>1 DEF Listing, Open
<1>2. ASSUME NEW i \in Items(p), i \in Present, tree[i].path = tree[e].path PROVE e = i
  BY <1>2 DEF LayoutInv, PathsAreUnique
<1>3. CASE p.op \in {"create", "move"} /\ tree[e].path = p.to
  BY <1>3 DEF Open, Unchanged, Free
<1> QED BY <1>1, <1>2, <1>3, AreaIs

\* Changes that are apart have no path in common.
LEMMA AreasApart ==
    ASSUME WsTypeOK, LayoutInv, NEW m, NEW p, Open(m, p), NEW n, NEW q, Open(n, q), Apart(p, q), Apart(q, p),
           NEW path \in AreaOf(p), path \in AreaOf(q)
    PROVE  FALSE
<1>1. ASSUME OnTree(p), Inside(path) PROVE FALSE
  <2>1. ~OnTree(q) /\ path \in Touched(q)
    BY <1>1 DEF Apart, AreaOf
  <2> QED BY <1>1, <2>1 DEF Apart, TouchesInside
<1>2. ASSUME OnTree(q), Inside(path) PROVE FALSE
  <2>1. ~OnTree(p) /\ path \in Touched(p)
    BY <1>2 DEF Apart, AreaOf
  <2> QED BY <1>2, <2>1 DEF Apart, TouchesInside
<1>3. ASSUME NEW i \in Items(p), i \in Present, tree[i].path = path PROVE FALSE
  <2>1. i \in Items(q)
    BY <1>3, RowsInArea
  <2> QED BY <1>3, <2>1 DEF Apart
<1>4. ASSUME NEW i \in Items(q), i \in Present, tree[i].path = path PROVE FALSE
  <2>1. i \in Items(p)
    BY <1>4, RowsInArea
  <2> QED BY <1>4, <2>1 DEF Apart
<1>5. p.op \in {"create", "move"} /\ path = p.to
  BY <1>1, <1>3, AreaIs
<1>6. q.op \in {"create", "move"} /\ path = q.to
  BY <1>2, <1>4, AreaIs
<1> QED BY <1>5, <1>6 DEF Apart

\* There is one change of the directory at a time.
LEMMA OneOnDirs ==
    ASSUME NEW m, NEW p, Open(m, p), NEW n, NEW q, Open(n, q), Apart(p, q), OnDirs(p), OnDirs(q)
    PROVE  p.op = "mkdir" /\ q.op = "mkdir"
<1>1. folder \in FolderRow => folder # NoFolder
  BY FoldersAre, WorkspaceAssumption
<1>2. ~(OnTree(p) /\ OnTree(q))
  BY DEF Apart
<1>3. OnTree(p) => q.op # "mkdir"
  BY <1>1 DEF Open
<1>4. OnTree(q) => p.op # "mkdir"
  BY <1>1 DEF Open
<1> QED BY <1>2, <1>3, <1>4 DEF OnDirs, OnTree

-----------------------------------------------------------------------------
(* The sides of a change and the rows.                                     *)

\* In its area the rows are those that the journal froze.
LEMMA RowsAreBefore ==
    ASSUME WsTypeOK, LayoutInv, NEW m, NEW p, Open(m, p), NEW path \in AreaOf(p), NEW x
    PROVE  Says(p.before, path, x) <=> Says(tree, path, x)
<1>0. path # Nothing /\ DOMAIN tree = Entries
  BY NamesAre, WorkspaceAssumption DEF AreaOf, WsTypeOK, RowsOK
<1>1. \A i \in Items(p) : i \in Entries /\ tree[i] = p.before[i]
  BY DEF Open, Unchanged, JournalOK
<1>2. ASSUME NEW e \in Entries, tree[e].path = path PROVE e \in Items(p)
  <2>1. e \in Present
    BY <1>0, <1>2 DEF Present, Gone
  <2> QED BY <1>2, <2>1, RowsInArea
<1> QED BY <1>0, <1>1, <1>2 DEF Says, Items

\* As a change is completed, the rows become those of its new side in its area
\* and stay as they are elsewhere.
LEMMA RowsBecomeAfter ==
    ASSUME WsTypeOK, LayoutInv, NEW n \in Mutations, Completes(n), Open(n, plan[n]), NEW path \in Paths, NEW x
    PROVE  /\ path \in AreaOf(plan[n]) => (Says(plan[n].after, path, x) <=> Says(tree', path, x))
           /\ path \notin AreaOf(plan[n]) => (Says(tree, path, x) <=> Says(tree', path, x))
<1> DEFINE p == plan[n]
<1>0. path # Nothing /\ DOMAIN tree = Entries /\ DOMAIN tree' = Entries
  BY NamesAre, WorkspaceAssumption DEF WsTypeOK, RowsOK, Completes, Commit
<1>1. \A e \in Entries : tree'[e] = IF e \in Items(p) THEN p.after[e] ELSE tree[e]
  BY DEF Completes, Commit
<1>2. /\ \A i \in Items(p) : i \in Entries /\ tree[i] = p.before[i]
      /\ DOMAIN p.after = Items(p)
  BY DEF Open, Unchanged, JournalOK
<1>3. ASSUME NEW e \in Entries, tree[e].path = path, path \in AreaOf(p) PROVE e \in Items(p)
  <2>1. e \in Present
    BY <1>0, <1>3 DEF Present, Gone
  <2> QED BY <1>3, <2>1, RowsInArea
<1>4. \A i \in Items(p) : path \notin AreaOf(p) => p.before[i].path # path /\ p.after[i].path # path
  BY DEF AreaOf, Touched
<1> HIDE DEF p
<1>5. ASSUME path \in AreaOf(p) PROVE Says(p.after, path, x) <=> Says(tree', path, x)
  <2>1. \A e \in Entries : tree'[e].path = path <=> e \in Items(p) /\ p.after[e].path = path
    BY <1>1, <1>3, <1>5
  <2>2. \A e \in Items(p) : e \in Entries /\ tree'[e] = p.after[e]
    BY <1>1, <1>2
  <2> QED BY <1>0, <1>2, <2>1, <2>2 DEF Says
<1>6. ASSUME path \notin AreaOf(p) PROVE Says(tree, path, x) <=> Says(tree', path, x)
  <2>1. \A e \in Entries : /\ tree'[e].path = path <=> tree[e].path = path
                           /\ tree[e].path = path => tree'[e] = tree[e]
    BY <1>1, <1>2, <1>4, <1>6
  <2> QED BY <1>0, <2>1 DEF Says
<1> QED BY <1>5, <1>6 DEF p

-----------------------------------------------------------------------------
(* Files and rows.                                                         *)

\* What a reconciler has found out is so.
Told(p, x, d, D) ==
    \/ x.verdict = "applied" /\ After(p, d, D)
    \/ x.verdict = "not applied" /\ ~Deletes(p) /\ Before(p, d, D)

\* The files are on one side of a change, a deletion between them; the side is
\* what the request, at ph, has been told.
Sides(p, ph, d, D) ==
    /\ IF Deletes(p) THEN InPart(p, d, D) ELSE Before(p, d, D) \/ After(p, d, D)
    /\ ph \in {"begun", "refused"} => Deletes(p) \/ Before(p, d, D)
    /\ ph = "refused" => ~Deletes(p)
    /\ ph = "installed" => After(p, d, D)

OneSide(m) ==
    /\ Sides(plan[m], phase[m], disk, dirs)
    /\ \A r \in Reconcilers :
          rec[r].step = "examined" /\ rec[r].of = m => Told(plan[m], rec[r], disk, dirs)

\* Outside the areas of open changes the files are the rows'.
SettledInv ==
    /\ \A path \in Paths : (\E m \in Prepared : path \in AreaOf(plan[m])) \/ Says(tree, path, disk[path])
    /\ (\E m \in Prepared : OnDirs(plan[m])) \/ dirs = {folder.name} \ {Nothing}

DiskInv == drifted \/ (SettledInv /\ \A m \in Prepared : OneSide(m))

LEMMA SettledNext ==
    SettledInv' <=>
        /\ \A path \in Paths : (\E m \in Prepared' : path \in AreaOf(plan'[m])) \/ Says(tree', path, disk'[path])
        /\ (\E m \in Prepared' : OnDirs(plan'[m])) \/ dirs' = {folder'.name} \ {Nothing}
BY DEF SettledInv, AreaOf, Says, OnDirs, OnTree, Inside, Touched, Items

LEMMA OneSideNext ==
    ASSUME NEW m
    PROVE  OneSide(m)' <=>
              /\ Sides(plan'[m], phase'[m], disk', dirs')
              /\ \A r \in Reconcilers :
                    rec'[r].step = "examined" /\ rec'[r].of = m => Told(plan'[m], rec'[r], disk', dirs')
BY DEF OneSide, Sides, Told, Before, After, InPart, Deletes, AreaOf, Says, OnTree, Inside, Touched, Items

\* A step that leaves the area of a change alone, and tells nobody anything.
Apathy(m) ==
    /\ plan'[m] = plan[m]
    /\ \A path \in AreaOf(plan[m]) : disk'[path] = disk[path]
    /\ OnDirs(plan[m]) => dirs' = dirs
    /\ phase'[m] \in {phase[m], "gone"} \/ (phase[m] = "begun" /\ phase'[m] = "refused" /\ ~Deletes(plan[m]))
    /\ \A r \in Reconcilers : rec'[r].step = "examined" /\ rec'[r].of = m => rec'[r] = rec[r]

LEMMA SideStays == ASSUME NEW m, OneSide(m), Apathy(m) PROVE OneSide(m)'
<1> DEFINE p == plan[m]
<1>1. /\ Before(p, disk, dirs) => Before(p, disk', dirs')
      /\ After(p, disk, dirs) => After(p, disk', dirs')
      /\ InPart(p, disk, dirs) => InPart(p, disk', dirs')
  BY SidesFrame DEF Apathy
<1>2. Sides(p, phase[m], disk, dirs)
  BY DEF OneSide
<1>3. Sides(p, phase'[m], disk', dirs')
  BY <1>1, <1>2 DEF Sides, Apathy
<1>4. ASSUME NEW r \in Reconcilers, rec'[r].step = "examined", rec'[r].of = m PROVE Told(p, rec'[r], disk', dirs')
  <2>1. rec'[r] = rec[r]
    BY <1>4 DEF Apathy
  <2>2. Told(p, rec[r], disk, dirs)
    BY <1>4, <2>1 DEF OneSide
  <2> QED BY <1>1, <2>1, <2>2 DEF Told
<1> QED BY <1>3, <1>4, OneSideNext DEF Apathy

\* A change is settled, with the files on the side of its outcome.
LEMMA Completed ==
    ASSUME WsTypeOK, JournalInv, OpenInv, LayoutInv, SettledInv, NEW n \in Mutations, Completes(n),
           After(plan[n], disk, dirs), UNCHANGED store
    PROVE  SettledInv'
<1> DEFINE p == plan[n]
<1>0. n \in Prepared /\ Prepared' = Prepared \ {n} /\ UNCHANGED plan /\ disk' = disk /\ dirs' = dirs
  BY DEF Completes, Prepared, WsTypeOK, RequestsOK, store
<1>1. Open(n, p)
  BY <1>0, PreparedIsOpen
<1>2. ASSUME NEW path \in Paths
      PROVE  (\E m \in Prepared' : path \in AreaOf(plan'[m])) \/ Says(tree', path, disk'[path])
  <2>1. CASE path \in AreaOf(p)
    <3>1. Says(p.after, path, disk[path])
      BY <2>1 DEF After
    <3> QED BY <1>0, <1>1, <2>1, <3>1, RowsBecomeAfter
  <2>2. CASE path \notin AreaOf(p) /\ Says(tree, path, disk[path])
    BY <1>0, <1>1, <2>2, RowsBecomeAfter
  <2>3. ASSUME NEW m \in Prepared, path \in AreaOf(plan[m]), path \notin AreaOf(p)
        PROVE  \E k \in Prepared' : path \in AreaOf(plan'[k])
    BY <1>0, <2>3
  <2> QED BY <2>1, <2>2, <2>3 DEF SettledInv
<1>3. (\E m \in Prepared' : OnDirs(plan'[m])) \/ dirs' = {folder'.name} \ {Nothing}
  <2>1. CASE OnDirs(p)
    <3>1. CASE p.op = "delete tree"
      <4>1. dirs = {}
        BY <3>1 DEF After
      <4>2. folder' = NoFolder
        BY <3>1 DEF Completes, Commit
      <4> QED BY <1>0, <4>1, <4>2 DEF NoFolder
    <3>2. CASE p.op \in {"mkdir", "move tree"}
      <4>1. dirs = {p.to} /\ p.to # Nothing
        BY <1>1, <3>2, NamesAre, WorkspaceAssumption DEF After, Open, JournalOK
      <4>2. folder'.name = p.to
        <5>0. folder \in FolderRow => folder # NoFolder
          BY FoldersAre, WorkspaceAssumption
        <5>1. CASE p.op = "mkdir"
          BY <5>1 DEF Completes, Commit
        <5>2. CASE p.op = "move tree"
          BY <5>2, FolderMoves DEF OnTree
        <5> QED BY <3>2, <5>1, <5>2
      <4> QED BY <1>0, <4>1, <4>2
    <3> QED BY <2>1, <3>1, <3>2 DEF OnDirs
  <2>2. CASE ~OnDirs(p)
    <3>1. folder'.name = folder.name
      BY <2>2, FolderMoves DEF OnDirs
    <3>2. ASSUME NEW m \in Prepared, OnDirs(plan[m]) PROVE \E k \in Prepared' : OnDirs(plan'[k])
      <4>1. m \in Prepared' /\ plan'[m] = plan[m]
        BY <1>0, <2>2, <3>2
      <4> QED BY <3>2, <4>1
    <3> QED BY <1>0, <3>1, <3>2 DEF SettledInv
  <2> QED BY <2>1, <2>2
<1> QED BY <1>2, <1>3, SettledNext

LEMMA Failed ==
    ASSUME WsTypeOK, JournalInv, OpenInv, LayoutInv, SettledInv, NEW n \in Prepared,
           state' = [state EXCEPT ![n] = "failed"], UNCHANGED <<plan, tables, store>>,
           Before(plan[n], disk, dirs), ~Deletes(plan[n])
    PROVE  SettledInv'
<1> DEFINE p == plan[n]
<1>0. /\ Prepared' = Prepared \ {n} /\ UNCHANGED plan /\ disk' = disk /\ dirs' = dirs
      /\ tree' = tree /\ folder' = folder
  BY DEF Prepared, WsTypeOK, RequestsOK, store, tables
<1>1. Open(n, p)
  BY <1>0, PreparedIsOpen
<1>2. ASSUME NEW path \in Paths
      PROVE  (\E m \in Prepared' : path \in AreaOf(plan'[m])) \/ Says(tree', path, disk'[path])
  <2>1. CASE path \in AreaOf(p)
    <3>1. Says(p.before, path, disk[path])
      BY <2>1 DEF Before
    <3> QED BY <1>0, <1>1, <2>1, <3>1, RowsAreBefore
  <2>2. CASE Says(tree, path, disk[path])
    BY <1>0, <2>2
  <2>3. ASSUME NEW m \in Prepared, path \in AreaOf(plan[m]), path \notin AreaOf(p)
        PROVE  \E k \in Prepared' : path \in AreaOf(plan'[k])
    BY <1>0, <2>3
  <2> QED BY <2>1, <2>2, <2>3 DEF SettledInv
<1>3. (\E m \in Prepared' : OnDirs(plan'[m])) \/ dirs' = {folder'.name} \ {Nothing}
  <2>1. CASE p.op = "mkdir"
    BY <1>0, <1>1, <2>1 DEF Open, Before, NoFolder
  <2>2. CASE p.op = "move tree"
    <3>1. dirs = {p.base.name} /\ folder \in FolderRow /\ folder.name = p.base.name
      BY <1>1, <2>2 DEF Open, Before, OnTree
    <3>2. folder.name # Nothing
      BY <3>1, FoldersAre, WorkspaceAssumption
    <3> QED BY <1>0, <3>1, <3>2
  <2>3. CASE ~OnDirs(p)
    <3>2. ASSUME NEW m \in Prepared, OnDirs(plan[m]) PROVE \E k \in Prepared' : OnDirs(plan'[k])
      <4>1. m \in Prepared' /\ plan'[m] = plan[m]
        BY <1>0, <2>3, <3>2
      <4> QED BY <3>2, <4>1
    <3> QED BY <1>0, <3>2 DEF SettledInv
  <2> QED BY <2>1, <2>2, <2>3 DEF OnDirs, Deletes
<1> QED BY <1>2, <1>3, SettledNext

\* What the proofs about the files start from.
Known == WsTypeOK /\ JournalInv /\ BaseInv /\ OpenInv /\ LayoutInv /\ FenceInv
Agreed == SettledInv /\ \A m \in Prepared : OneSide(m)

LEMMA PassesIsFresh ==
    ASSUME WsTypeOK, NEW m \in Mutations, NEW t \in Nat, state[m] # "none", Passes(m, t)
    PROVE  ~Stale(m, t)
BY HoldsAre DEF Passes, Generation, Stale

LEMMA ExaminedIs ==
    ASSUME WsTypeOK, NEW r \in Reconcilers, rec[r].step \in {"advanced", "examined"}
    PROVE  rec[r] # Idle /\ rec[r].of \in Mutations /\ rec[r].turn \in Nat /\ state[rec[r].of] # "none"
<1>1. rec[r] # Idle
  BY DEF Idle
<1> QED BY <1>1, ReconcilersAre

\* The script of an owner that passes the fence: nobody has looked at the
\* files of the change yet.
LEMMA RunIsFirst ==
    ASSUME WsTypeOK, FenceInv, NEW n \in Mutations, phase[n] = "begun", Passes(n, 0)
    PROVE  n \in Prepared /\ \A r \in Reconcilers : rec[r].step = "examined" => rec[r].of # n
<1>1. state[n] # "none"
  BY DEF WsTypeOK, RequestsOK, RequestOK
<1>2. ~Stale(n, 0)
  BY <1>1, PassesIsFresh
<1>3. ASSUME NEW r \in Reconcilers, rec[r].step = "examined", rec[r].of = n PROVE FALSE
  <2>1. rec[r] # Idle /\ rec[r].turn \in Nat
    BY <1>3, ExaminedIs
  <2>2. rec[r].turn \in 1 .. turn[n] /\ \A s \in Claims(plan[n]) : marker[s] >= hold[n][s] + rec[r].turn
    BY <1>3, <2>1 DEF FenceInv, Knows
  <2>3. 0 < rec[r].turn
    BY <2>1, <2>2
  <2> QED BY <1>1, <1>2, <2>1, <2>2, <2>3, ReachedIsStale
<1> QED BY <1>2, <1>3 DEF FenceInv, Prepared

\* A deletion that is done again belongs to an open change.
LEMMA ExamineIsOpen ==
    ASSUME WsTypeOK, FenceInv, NEW r \in Reconcilers, Examine(r), Deletes(plan[rec[r].of])
    PROVE  rec[r].of \in Prepared
<1>1. rec[r].step = "advanced" /\ Passes(rec[r].of, rec[r].turn)
  BY DEF Examine
<1>2. rec[r] # Idle /\ rec[r].of \in Mutations /\ rec[r].turn \in Nat /\ state[rec[r].of] # "none"
  BY <1>1, ExaminedIs
<1>3. ~Stale(rec[r].of, rec[r].turn)
  BY <1>1, <1>2, PassesIsFresh
<1> QED BY <1>1, <1>2, <1>3 DEF FenceInv, Knows, Prepared

LEMMA DirsStay ==
    ASSUME NEW p, p.op \in Operations, ~OnDirs(p),
           Perform(p) \/ (Deletes(p) /\ \E part \in SUBSET Doomed(p) : Erase(p, part))
    PROVE  dirs' = dirs
<1>1. p.op \in {"create", "write", "move", "delete"}
  BY DEF Operations, OnDirs
<1>2. CASE p.op = "delete"
  BY <1>2 DEF Perform, Erase, Deletes
<1>3. CASE p.op = "move"
  BY <1>3 DEF Perform, Deletes
<1>4. CASE p.op \in {"create", "write"}
  BY <1>4 DEF Perform, Deletes
<1> QED BY <1>1, <1>2, <1>3, <1>4

\* What a script writes concerns no other open change.
LEMMA Written ==
    ASSUME Known, SettledInv, NEW n \in Prepared, UNCHANGED <<plan, state, tree, folder>>,
           \/ Perform(plan[n])
           \/ Deletes(plan[n]) /\ \E part \in SUBSET Doomed(plan[n]) : Erase(plan[n], part)
           \/ UNCHANGED store
    PROVE  /\ SettledInv'
           /\ \A m \in Prepared : m # n =>
                 /\ \A path \in AreaOf(plan[m]) : disk'[path] = disk[path]
                 /\ OnDirs(plan[m]) => dirs' = dirs
<1>0. WsTypeOK /\ JournalInv /\ BaseInv /\ OpenInv /\ LayoutInv /\ n \in Mutations /\ Prepared' = Prepared
  BY DEF Known, Prepared
<1>1. Open(n, plan[n])
  BY <1>0, PreparedIsOpen
<1>2. ASSUME NEW path \in Paths, disk'[path] # disk[path] PROVE path \in AreaOf(plan[n])
  <2>1. JournalOK(plan[n]) /\ plan[n].op \in Operations
    BY <1>1 DEF Open
  <2>2. Perform(plan[n]) \/ (Deletes(plan[n]) /\ \E part \in SUBSET Doomed(plan[n]) : Erase(plan[n], part))
    BY <1>2 DEF store
  <2> QED BY <1>0, <1>2, <2>1, <2>2, PerformStaysInside, WorkspaceAssumption DEF WsTypeOK, AreaOf
<1>3. ~OnDirs(plan[n]) => dirs' = dirs
  BY <1>1, DirsStay DEF store, Open
<1>4. ASSUME NEW m \in Prepared, m # n
      PROVE  /\ \A path \in AreaOf(plan[m]) : disk'[path] = disk[path]
             /\ OnDirs(plan[m]) => dirs' = dirs
  <2>1. Open(m, plan[m]) /\ Apart(plan[m], plan[n]) /\ Apart(plan[n], plan[m])
    BY <1>0, <1>4, PreparedIsOpen DEF OpenInv
  <2>2. ASSUME NEW path \in AreaOf(plan[m]) PROVE disk'[path] = disk[path]
    <3>1. path \in Paths
      BY DEF AreaOf
    <3>2. path \notin AreaOf(plan[n])
      BY <1>0, <1>1, <2>1, AreasApart
    <3> QED BY <1>2, <3>1, <3>2
  <2>3. OnDirs(plan[m]) => ~OnDirs(plan[n])
    <3>1. ASSUME OnDirs(plan[m]), OnDirs(plan[n]) PROVE FALSE
      <4>1. plan[m].op = "mkdir" /\ plan[n].op = "mkdir"
        BY <1>1, <2>1, <3>1, OneOnDirs
      <4>2. Placed(m)
        BY <1>0 DEF OpenInv
      <4> QED BY <1>4, <4>1, <4>2 DEF Placed
    <3> QED BY <3>1
  <2> QED BY <1>3, <2>2, <2>3
<1>5. \A path \in Paths : (\E m \in Prepared' : path \in AreaOf(plan'[m])) \/ Says(tree', path, disk'[path])
  <2>1. ASSUME NEW path \in Paths PROVE (\E m \in Prepared : path \in AreaOf(plan[m])) \/ Says(tree, path, disk'[path])
    BY <1>2 DEF SettledInv
  <2> QED BY <1>0, <2>1
<1>6. (\E m \in Prepared' : OnDirs(plan'[m])) \/ dirs' = {folder'.name} \ {Nothing}
  BY <1>0, <1>3 DEF SettledInv
<1> QED BY <1>4, <1>5, <1>6, SettledNext

\* The script of the owner.
LEMMA RunAgrees ==
    ASSUME Known, Agreed, NEW n \in Mutations, Run(n) \/ RunUnheard(n)
    PROVE  SettledInv' /\ \A m \in Prepared' : OneSide(m)'
<1> DEFINE p == plan[n]
<1> USE DEF store, tables, journal
<1>1. /\ phase[n] = "begun" /\ Passes(n, 0) /\ UNCHANGED <<plan, state, tree, folder, rec>>
      /\ \E x \in {"installed", "refused", "gone"} : phase' = [phase EXCEPT ![n] = x]
  BY DEF Run, RunUnheard
<1>2. n \in Prepared /\ \A r \in Reconcilers : rec[r].step = "examined" => rec[r].of # n
  BY <1>1, RunIsFirst DEF Known
<1>3. Open(n, p) /\ OneSide(n) /\ Prepared' = Prepared /\ StoreOK /\ DOMAIN phase = Mutations /\ Under(p)
  <2>1. Open(n, p)
    BY <1>2, PreparedIsOpen DEF Known
  <2>2. Under(p)
    BY <2>1, OpenIsUnder DEF Known
  <2> QED BY <1>1, <1>2, <2>1, <2>2 DEF Known, Agreed, Prepared, WsTypeOK, RequestsOK
<1>4. \/ Perform(p) /\ phase'[n] \in {"installed", "gone"}
      \/ Deletes(p) /\ (\E part \in SUBSET Doomed(p) : Erase(p, part)) /\ phase'[n] = "gone"
      \/ ~Fits(p) /\ UNCHANGED store /\ phase'[n] \in {"refused", "gone"}
  BY <1>3 DEF Run, RunUnheard
<1>5. SettledInv' /\ \A m \in Prepared : m # n => /\ \A path \in AreaOf(plan[m]) : disk'[path] = disk[path]
                                                  /\ OnDirs(plan[m]) => dirs' = dirs
  <2>1. \/ Perform(plan[n])
        \/ Deletes(plan[n]) /\ \E part \in SUBSET Doomed(plan[n]) : Erase(plan[n], part)
        \/ UNCHANGED store
    BY <1>4
  <2> QED BY <1>1, <1>2, <2>1, Written DEF Agreed
<1>6. ASSUME NEW m \in Prepared, m # n PROVE OneSide(m)'
  <2>1. phase'[m] = phase[m] /\ OneSide(m)
    BY <1>1, <1>3, <1>6 DEF Agreed, Prepared
  <2>2. Apathy(m)
    BY <1>1, <1>5, <1>6, <2>1 DEF Apathy
  <2> QED BY <2>1, <2>2, SideStays
<1>7. OneSide(n)'
  <2> HIDE DEF store
  <2>0. Sides(p, "begun", disk, dirs) /\ JournalOK(p) /\ Shaped(n, p) /\ p.op \in Operations
    BY <1>1, <1>3 DEF OneSide, Open
  <2>1. CASE ~Fits(p) /\ UNCHANGED store /\ phase'[n] \in {"refused", "gone"}
    <3>1. ~Deletes(p)
      BY <2>1 DEF Fits, Deletes
    <3>2. Apathy(n)
      BY <1>1, <2>1, <3>1 DEF Apathy, store
    <3> QED BY <1>3, <3>2, SideStays
  <2>2. CASE Deletes(p) /\ (\E part \in SUBSET Doomed(p) : Erase(p, part)) /\ phase'[n] = "gone"
    <3>1. InPart(p, disk, dirs)
      BY <2>0, <2>2 DEF Sides
    <3>2. InPart(p, disk', dirs')
      BY <2>2, <3>1, EraseKeeps
    <3>3. Sides(p, phase'[n], disk', dirs')
      BY <2>2, <3>2 DEF Sides
    <3> QED BY <1>1, <1>2, <3>3, OneSideNext
  <2>3. CASE Perform(p) /\ phase'[n] \in {"installed", "gone"}
    <3>1. After(p, disk', dirs')
      <4>1. CASE Deletes(p)
        <5>1. InPart(p, disk, dirs) /\ Erase(p, Doomed(p))
          BY <2>0, <2>3, <4>1 DEF Sides, Perform, Deletes
        <5> QED BY <2>0, <4>1, <5>1, EraseBrings
      <4>2. CASE ~Deletes(p)
        <5>1. Before(p, disk, dirs)
          BY <2>0, <4>2 DEF Sides
        <5> QED BY <1>3, <2>0, <2>3, <4>2, <5>1, PerformBrings
      <4> QED BY <4>1, <4>2
    <3>2. Deletes(p) => InPart(p, disk', dirs')
      BY <2>0, <3>1, AfterIsInPart
    <3>3. Sides(p, phase'[n], disk', dirs')
      BY <2>3, <3>1, <3>2 DEF Sides
    <3> QED BY <1>1, <1>2, <3>3, OneSideNext
  <2> QED BY <1>4, <2>1, <2>2, <2>3
<1> QED BY <1>3, <1>5, <1>6, <1>7

\* A reconciler looks at the files, or does the deletion again.
LEMMA ExamineAgrees ==
    ASSUME Known, Agreed, NEW r \in Reconcilers, Examine(r)
    PROVE  SettledInv' /\ \A m \in Prepared' : OneSide(m)'
<1> USE DEF store, tables, journal
<1>a. rec[r].step = "advanced"
  BY DEF Examine
<1>2. rec[r] # Idle /\ rec[r] \in Reconciling /\ rec[r].of \in Mutations /\ DOMAIN rec = Reconcilers
  <2>1. rec[r] # Idle
    BY <1>a DEF Idle
  <2> QED BY <2>1, ReconcilersAre DEF Known, WsTypeOK, ReconcilersOK
<1>b. PICK n \in Mutations : n = rec[r].of
  BY <1>2
<1> DEFINE p == plan[n]
<1>1. /\ UNCHANGED <<plan, state, tree, folder, phase>> /\ Prepared' = Prepared
      /\ rec[r].step = "advanced"
      /\ IF Deletes(p) THEN Perform(p) ELSE UNCHANGED store
      /\ rec' = [rec EXCEPT ![r].step = "examined", ![r].verdict = IF Deletes(p) THEN "applied" ELSE Verdict(p)]
  BY <1>b DEF Examine, Prepared
<1>3. /\ rec'[r].of = n /\ rec'[r].step = "examined"
      /\ rec'[r].verdict = IF Deletes(p) THEN "applied" ELSE Verdict(p)
      /\ \A q \in Reconcilers \ {r} : rec'[q] = rec[q]
  BY <1>1, <1>2, <1>b DEF Reconciling
<1>4. Deletes(p) => n \in Prepared
  BY <1>b, ExamineIsOpen DEF Known
<1>5. /\ SettledInv'
      /\ \A m \in Prepared : m # n => /\ \A path \in AreaOf(plan[m]) : disk'[path] = disk[path]
                                      /\ OnDirs(plan[m]) => dirs' = dirs
  <2>1. CASE n \in Prepared
    BY <1>1, <2>1, Written DEF Agreed
  <2>2. CASE UNCHANGED store
    BY <1>1, <2>2, SettledNext DEF Agreed, SettledInv
  <2> QED BY <1>1, <1>4, <2>1, <2>2
<1>6. ASSUME NEW m \in Prepared, m # n PROVE OneSide(m)'
  <2>1. OneSide(m)
    BY DEF Agreed
  <2>2. ASSUME NEW q \in Reconcilers, rec'[q].of = m PROVE rec'[q] = rec[q]
    BY <1>3, <1>6, <2>2
  <2>3. Apathy(m)
    BY <1>1, <1>5, <1>6, <2>2 DEF Apathy
  <2> QED BY <2>1, <2>3, SideStays
<1>7. ASSUME n \in Prepared PROVE OneSide(n)'
  <2>0. OneSide(n) /\ Open(n, p)
    BY <1>7, PreparedIsOpen DEF Known, Agreed
  <2>1. /\ Sides(p, phase[n], disk, dirs) /\ JournalOK(p) /\ Shaped(n, p) /\ p.op \in Operations
        /\ \A q \in Reconcilers : rec[q].step = "examined" /\ rec[q].of = n => Told(p, rec[q], disk, dirs)
    BY <2>0 DEF OneSide, Open
  <2>2. /\ Sides(p, phase[n], disk', dirs')
        /\ \A q \in Reconcilers : rec'[q].step = "examined" /\ rec'[q].of = n => Told(p, rec'[q], disk', dirs')
    <3>1. CASE Deletes(p)
      <4>1. Erase(p, Doomed(p)) /\ InPart(p, disk, dirs)
        BY <1>1, <2>1, <3>1 DEF Perform, Sides, Deletes
      <4>2. After(p, disk', dirs')
        BY <2>1, <3>1, <4>1, EraseBrings
      <4>3. InPart(p, disk', dirs')
        BY <2>1, <3>1, <4>2, AfterIsInPart
      <4>4. Sides(p, phase[n], disk', dirs')
        BY <2>1, <3>1, <4>2, <4>3 DEF Sides
      <4>5. ASSUME NEW q \in Reconcilers, rec'[q].step = "examined", rec'[q].of = n PROVE rec'[q].verdict = "applied"
        BY <1>3, <2>1, <3>1, <4>5 DEF Told
      <4> QED BY <4>2, <4>4, <4>5 DEF Told
    <3>2. CASE ~Deletes(p)
      <4>1. disk' = disk /\ dirs' = dirs
        BY <1>1, <3>2
      <4>2. Before(p, disk, dirs) \/ After(p, disk, dirs)
        BY <2>1, <3>2 DEF Sides
      <4>3. Told(p, rec'[r], disk, dirs)
        BY <1>3, <2>1, <3>2, <4>2, VerdictIs DEF Told
      <4> QED BY <1>3, <2>1, <4>1, <4>3
    <3> QED BY <3>1, <3>2
  <2> QED BY <1>1, <2>2, OneSideNext
<1> QED BY <1>1, <1>5, <1>6, <1>7

\* A change begins: the files in its area are those of its journal.
LEMMA BeginAgrees ==
    ASSUME Known, Agreed, NEW n \in Mutations, Begin(n)
    PROVE  SettledInv' /\ \A m \in Prepared' : OneSide(m)'
<1> DEFINE p == plan[n]
<1> USE DEF store, tables
<1>0. WsTypeOK /\ JournalInv /\ BaseInv /\ OpenInv /\ LayoutInv
  BY DEF Known
<1>1. /\ UNCHANGED <<plan, tree, folder, disk, dirs, rec>> /\ state[n] = "none" /\ Open(n, p)
      /\ state' = [state EXCEPT ![n] = "prepared"] /\ phase' = [phase EXCEPT ![n] = "begun"]
  BY <1>0, BegunIsOpen DEF Begin
<1>2. /\ Prepared' = Prepared \cup {n} /\ n \notin Prepared
      /\ phase'[n] = "begun" /\ \A m \in Prepared : phase'[m] = phase[m]
  BY <1>0, <1>1 DEF Prepared, WsTypeOK, RequestsOK
<1>3. ASSUME NEW m \in Prepared
      PROVE  /\ \A path \in AreaOf(p) : path \notin AreaOf(plan[m])
             /\ ~(OnDirs(p) /\ OnDirs(plan[m]))
  <2>1. Open(m, plan[m]) /\ Apart(plan[m], p) /\ Apart(p, plan[m])
    BY <1>0, PreparedIsOpen, BeginsApart
  <2>2. \A path \in AreaOf(p) : path \notin AreaOf(plan[m])
    BY <1>0, <1>1, <2>1, AreasApart
  <2>3. ASSUME OnDirs(p), OnDirs(plan[m]) PROVE FALSE
    <3>1. p.op = "mkdir" /\ plan[m].op = "mkdir"
      BY <1>1, <2>1, <2>3, OneOnDirs
    <3>2. OneFolder(p)
      BY DEF Begin, Admissible
    <3> QED BY <3>1, <3>2 DEF OneFolder
  <2> QED BY <2>2, <2>3
<1>4. SettledInv'
  <2>1. \A path \in Paths : (\E m \in Prepared' : path \in AreaOf(plan'[m])) \/ Says(tree', path, disk'[path])
    BY <1>1, <1>2 DEF Agreed, SettledInv
  <2>2. (\E m \in Prepared' : OnDirs(plan'[m])) \/ dirs' = {folder'.name} \ {Nothing}
    BY <1>1, <1>2 DEF Agreed, SettledInv
  <2> QED BY <2>1, <2>2, SettledNext
<1>5. ASSUME NEW m \in Prepared PROVE OneSide(m)'
  <2>1. OneSide(m)
    BY DEF Agreed
  <2>2. Apathy(m)
    BY <1>1, <1>2 DEF Apathy
  <2> QED BY <2>1, <2>2, SideStays
<1>6. Before(p, disk, dirs)
  <2>1. ASSUME NEW path \in AreaOf(p) PROVE Says(p.before, path, disk[path])
    <3>1. path \in Paths
      BY DEF AreaOf
    <3>2. Says(tree, path, disk[path])
      BY <1>3, <3>1 DEF Agreed, SettledInv
    <3> QED BY <1>0, <1>1, <3>2, RowsAreBefore
  <2>2. OnDirs(p) => dirs = {folder.name} \ {Nothing}
    BY <1>3 DEF Agreed, SettledInv
  <2>3. p.op = "mkdir" => dirs = {}
    BY <1>1, <2>2 DEF OnDirs, Open, NoFolder
  <2>4. ASSUME OnTree(p) PROVE dirs = {p.base.name}
    <3>1. folder.name = p.base.name /\ folder.name # Nothing
      BY <1>1, <2>4, FoldersAre, WorkspaceAssumption DEF Open
    <3>2. OnDirs(p)
      BY <2>4 DEF OnTree, OnDirs
    <3> QED BY <2>2, <3>1, <3>2
  <2> QED BY <2>1, <2>3, <2>4 DEF Before
<1>7. OneSide(n)'
  <2>1. Sides(p, "begun", disk, dirs)
    <3>1. InPart(p, disk, dirs) \/ ~Deletes(p)
      BY <1>6 DEF Before, InPart, Deletes, OnTree
    <3> QED BY <1>6, <3>1 DEF Sides
  <2>2. ASSUME NEW r \in Reconcilers, rec[r].step = "examined" PROVE rec[r].of # n
    BY <1>0, <1>1, <2>2, ExaminedIs
  <2> QED BY <1>1, <1>2, <2>1, <2>2, OneSideNext
<1> QED BY <1>2, <1>4, <1>5, <1>7

\* A change is settled by its owner or by a reconciler.
LEMMA SettleAgrees ==
    ASSUME Known, Agreed,
           NEW n \in Prepared, UNCHANGED <<plan, store>>,
           \/ Completes(n) /\ After(plan[n], disk, dirs)
           \/ /\ state' = [state EXCEPT ![n] = "failed"] /\ UNCHANGED <<plan, tables>>
              /\ Before(plan[n], disk, dirs) /\ ~Deletes(plan[n]),
           \A m \in Prepared : m # n => phase'[m] = phase[m],
           \A r \in Reconcilers : rec'[r].step = "examined" => rec'[r] = rec[r]
    PROVE  SettledInv' /\ \A m \in Prepared' : OneSide(m)'
<1>0. WsTypeOK /\ JournalInv /\ BaseInv /\ OpenInv /\ LayoutInv /\ SettledInv /\ n \in Mutations
  BY DEF Known, Agreed, Prepared
<1>1. Prepared' = Prepared \ {n}
  BY <1>0 DEF Prepared, Completes, WsTypeOK, RequestsOK
<1>2. SettledInv'
  BY <1>0, Completed, Failed
<1>3. ASSUME NEW m \in Prepared, m # n PROVE OneSide(m)'
  <2>1. OneSide(m)
    BY DEF Agreed
  <2>2. Apathy(m)
    BY <1>3 DEF Apathy, store
  <2> QED BY <2>1, <2>2, SideStays
<1> QED BY <1>1, <1>2, <1>3

\* A step that writes no file, changes no row and settles nothing.
Calm ==
    /\ UNCHANGED <<tree, folder, state, disk, dirs>>
    /\ \A m \in Prepared :
          /\ plan'[m] = plan[m]
          /\ \/ phase'[m] \in {phase[m], "gone"}
             \/ phase[m] = "begun" /\ phase'[m] = "refused" /\ ~Deletes(plan[m])
    /\ \A r \in Reconcilers : rec'[r].step = "examined" => rec'[r] = rec[r]

LEMMA CalmAgrees ==
    ASSUME Agreed, Calm
    PROVE  SettledInv' /\ \A m \in Prepared' : OneSide(m)'
<1>1. Prepared' = Prepared
  BY DEF Calm, Prepared
<1>2. ASSUME NEW m \in Prepared PROVE OneSide(m)'
  <2>1. OneSide(m)
    BY DEF Agreed
  <2>2. Apathy(m)
    BY <1>2 DEF Calm, Apathy
  <2> QED BY <2>1, <2>2, SideStays
<1>3. SettledInv'
  BY <1>1, SettledNext DEF Agreed, SettledInv, Calm
<1> QED BY <1>1, <1>2, <1>3

\* A reconciler's record: nobody but Examine sets it to "examined".
LEMMA RecordsStay ==
    ASSUME WsTypeOK, NEW r \in Reconcilers, NEW x, rec' = [rec EXCEPT ![r] = x], x.step # "examined"
    PROVE  \A q \in Reconcilers : rec'[q].step = "examined" => rec'[q] = rec[q]
BY DEF WsTypeOK, ReconcilersOK

LEMMA CalmRequest ==
    ASSUME WsTypeOK, NEW n \in Mutations, Request(n),
           ~Begin(n), ~Run(n), ~RunUnheard(n), ~Record(n), ~(Fail(n) /\ StillOwns(n, 0))
    PROVE  Calm
<1> USE DEF tables, journal, claims, store
<1>0. DOMAIN plan = Mutations /\ DOMAIN phase = Mutations
  BY DEF WsTypeOK, RequestsOK
<1>1. ASSUME UNCHANGED <<tree, folder, state, disk, dirs, rec>>, NEW k \in Mutations, k \notin Prepared,
             \A m \in Mutations \ {k} : plan'[m] = plan[m] /\ phase'[m] = phase[m]
      PROVE  Calm
  BY <1>0, <1>1 DEF Calm, Prepared
<1>2. phase[n] \in {"idle", "editing", "read"} => n \notin Prepared
  BY DEF Prepared, WsTypeOK, RequestsOK, RequestOK
<1>3. CASE Read(n) \/ Draft(n) \/ (\E k \in Mutations : Retry(n, k))
  <2>1. /\ UNCHANGED <<tree, folder, state, disk, dirs, rec>> /\ phase[n] = "idle"
        /\ \A m \in Mutations \ {n} : plan'[m] = plan[m] /\ phase'[m] = phase[m]
    BY <1>0, <1>3 DEF Read, Draft, Retry, trouble
  <2> QED BY <1>1, <1>2, <2>1
<1>4. CASE Send(n)
  <2>1. /\ UNCHANGED <<tree, folder, state, disk, dirs, rec>> /\ phase[n] = "editing"
        /\ \A m \in Mutations \ {n} : plan'[m] = plan[m] /\ phase'[m] = phase[m]
    BY <1>0, <1>4 DEF Send, trouble
  <2> QED BY <1>1, <1>2, <2>1
<1>5. ASSUME UNCHANGED <<tree, folder, state, plan, disk, dirs, rec>>, phase' = [phase EXCEPT ![n] = "gone"] \/ UNCHANGED phase
      PROVE  Calm
  BY <1>0, <1>5 DEF Calm, Prepared
<1>6. CASE BeginRefused(n) \/ RunFenced(n) \/ RecordRefused(n) \/ Die(n) \/ Lapse(n) \/ Renew(n)
  BY <1>5, <1>6 DEF BeginRefused, RunFenced, RecordRefused, Die, Go, Lapse, Renew
<1>7. CASE Fail(n) /\ ~StillOwns(n, 0)
  BY <1>5, <1>7 DEF Fail
<1>8. CASE ObjectIsPruned(n)
  <2>1. /\ UNCHANGED <<tree, folder, state, plan, disk, dirs, rec>>
        /\ phase[n] = "begun" /\ ~Deletes(plan[n]) /\ phase' = [phase EXCEPT ![n] = "refused"]
    BY <1>8 DEF ObjectIsPruned, Deletes
  <2> QED BY <1>0, <2>1 DEF Calm, Prepared
<1> QED BY <1>3, <1>4, <1>6, <1>7, <1>8 DEF Request

LEMMA CalmReconcile ==
    ASSUME WsTypeOK, NEW r \in Reconcilers, Reconcile(r), ~Examine(r), ~Conclude(r)
    PROVE  Calm
<1> USE DEF tables, journal, claims, store
<1>1. ASSUME UNCHANGED <<tree, folder, state, plan, disk, dirs, phase>>,
             \A q \in Reconcilers : rec'[q].step = "examined" => rec'[q] = rec[q]
      PROVE  Calm
  BY <1>1 DEF Calm
<1>2. ASSUME NEW m \in Mutations, Take(r, m) PROVE Calm
  <2>1. UNCHANGED <<tree, folder, state, plan, disk, dirs, phase>>
    BY <1>2 DEF Take
  <2>2. \A q \in Reconcilers : rec'[q].step = "examined" => rec'[q] = rec[q]
    BY <1>2, RecordsStay DEF Take
  <2> QED BY <1>1, <2>1, <2>2
<1>3. ASSUME GiveUp(r) PROVE Calm
  <2>1. UNCHANGED <<tree, folder, state, plan, disk, dirs, phase>>
    BY <1>3 DEF GiveUp
  <2>2. \A q \in Reconcilers : rec'[q].step = "examined" => rec'[q] = rec[q]
    BY <1>3, RecordsStay DEF GiveUp, Idle
  <2> QED BY <1>1, <2>1, <2>2
<1>4. ASSUME Advance(r), ~GiveUp(r) PROVE Calm
  <2>1. UNCHANGED <<tree, folder, state, plan, disk, dirs, phase>> /\ rec' = [rec EXCEPT ![r].step = "advanced"]
        /\ rec[r].step = "took"
    BY <1>4 DEF Advance
  <2>2. rec[r] \in Reconciling /\ DOMAIN rec = Reconcilers
    <3>1. rec[r] # Idle
      BY <2>1 DEF Idle
    <3> QED BY <3>1, ReconcilersAre DEF WsTypeOK, ReconcilersOK
  <2>3. rec'[r].step = "advanced" /\ \A q \in Reconcilers \ {r} : rec'[q] = rec[q]
    BY <2>1, <2>2 DEF Reconciling
  <2> QED BY <1>1, <2>1, <2>3
<1> QED BY <1>2, <1>3, <1>4 DEF Reconcile, ExamineFenced, ConcludeRefused, ReconcilerFails

LEMMA DriftStays == ASSUME [WsNext]_wsVars, drifted PROVE drifted'
<1> USE DEF trouble, tables, journal, claims, store
<1>1. ASSUME NEW n \in Mutations, Request(n) PROVE drifted'
  BY <1>1 DEF Request, Read, Draft, Retry, Send, Begin, BeginRefused, Go, Run, RunUnheard, RunFenced, Fault,
              Fail, ObjectIsPruned, Record, RecordRefused, Die, Lapse, Renew
<1>2. ASSUME NEW r \in Reconcilers, Reconcile(r) PROVE drifted'
  BY <1>2 DEF Reconcile, Take, Advance, Examine, ExamineFenced, Conclude, ConcludeRefused, ReconcilerFails, GiveUp, Fault
<1>3. ASSUME Admin \/ (\E path \in Paths : Drift(path)) \/ UNCHANGED wsVars PROVE drifted'
  BY <1>3 DEF Admin, BeginDrain, FinishDrain, Rebuild, Drift, wsVars
<1> QED BY <1>1, <1>2, <1>3 DEF WsNext

LEMMA DiskStep == ASSUME Known, DrainIsQuiet, DiskInv, [WsNext]_wsVars PROVE DiskInv'
<1> USE DEF tables, journal, store
<1>0. WsTypeOK /\ FenceInv
  BY DEF Known
<1>1. CASE drifted
  BY <1>1, DriftStays DEF DiskInv
<1>2. CASE Agreed
  <2> DEFINE Agrees == SettledInv' /\ \A m \in Prepared' : OneSide(m)'
  <2>1. ASSUME NEW n \in Mutations, Request(n) PROVE Agrees
    <3>1. ASSUME Run(n) \/ RunUnheard(n) PROVE Agrees
      BY <1>2, <3>1, RunAgrees
    <3>2. ASSUME Begin(n) PROVE Agrees
      BY <1>2, <3>2, BeginAgrees
    <3>a. \A k \in Prepared : OneSide(k)
      BY <1>2 DEF Agreed
    <3>3. ASSUME Record(n) PROVE Agrees
      <4>1. n \in Prepared /\ Completes(n) /\ UNCHANGED <<plan, store, rec>>
        BY <3>3 DEF Record, StillOwns, Settle, Completes, Prepared
      <4>2. After(plan[n], disk, dirs)
        BY <3>3, <3>a, <4>1 DEF Record, OneSide, Sides
      <4>3. \A m \in Prepared : m # n => phase'[m] = phase[m]
        BY <1>0, <3>3 DEF Record, Prepared, WsTypeOK, RequestsOK
      <4> QED BY <1>2, <4>1, <4>2, <4>3, SettleAgrees
    <3>4. ASSUME Fail(n), StillOwns(n, 0) PROVE Agrees
      <4>1. /\ n \in Prepared /\ UNCHANGED <<plan, store, rec, tables>>
            /\ state' = [state EXCEPT ![n] = "failed"]
        BY <3>4 DEF Fail, StillOwns, Settle, Prepared
      <4>2. Before(plan[n], disk, dirs) /\ ~Deletes(plan[n])
        BY <3>4, <3>a, <4>1 DEF Fail, OneSide, Sides
      <4>3. \A m \in Prepared : m # n => phase'[m] = phase[m]
        BY <1>0, <3>4 DEF Fail, Prepared, WsTypeOK, RequestsOK
      <4> QED BY <1>2, <4>1, <4>2, <4>3, SettleAgrees
    <3> QED BY <1>0, <1>2, <2>1, <3>1, <3>2, <3>3, <3>4, CalmRequest, CalmAgrees
  <2>2. ASSUME NEW r \in Reconcilers, Reconcile(r) PROVE Agrees
    <3>1. ASSUME Examine(r) PROVE Agrees
      BY <1>2, <3>1, ExamineAgrees
    <3>2. ASSUME Conclude(r) PROVE Agrees
      <4>1. rec[r].step = "examined" /\ state[rec[r].of] = "prepared"
        BY <3>2, ConcludesPrepared DEF Conclude
      <4>2. PICK n \in Mutations : n = rec[r].of
        BY <1>0, <4>1, ExaminedIs
      <4>3. n \in Prepared /\ UNCHANGED <<plan, store, phase>>
        BY <3>2, <4>1, <4>2 DEF Prepared, Conclude, Settle
      <4>4. Told(plan[n], rec[r], disk, dirs)
        BY <1>2, <4>1, <4>2, <4>3 DEF Agreed, OneSide
      <4>5. \A q \in Reconcilers : rec'[q].step = "examined" => rec'[q] = rec[q]
        BY <1>0, <3>2, RecordsStay DEF Conclude, Idle
      <4>6. CASE rec[r].verdict = "applied"
        <5>1. Completes(n)
          BY <3>2, <4>1, <4>2, <4>6 DEF Conclude, Settle, Completes
        <5>2. After(plan[n], disk, dirs)
          BY <4>4, <4>6 DEF Told
        <5> QED BY <1>2, <4>3, <4>5, <5>1, <5>2, SettleAgrees
      <4>7. CASE rec[r].verdict # "applied"
        <5>1. state' = [state EXCEPT ![n] = "failed"] /\ UNCHANGED tables
          BY <3>2, <4>2, <4>7 DEF Conclude, Settle
        <5>2. Before(plan[n], disk, dirs) /\ ~Deletes(plan[n])
          BY <4>4, <4>7 DEF Told
        <5> QED BY <1>2, <4>3, <4>5, <5>1, <5>2, SettleAgrees
      <4> QED BY <4>6, <4>7
    <3> QED BY <1>0, <1>2, <2>2, <3>1, <3>2, CalmReconcile, CalmAgrees
  <2>3. ASSUME Rebuild PROVE Agrees
    <3>1. Prepared = {} /\ Prepared' = {} /\ tree' = tree /\ folder' = NoFolder
      BY <2>3 DEF Rebuild, DrainIsQuiet, Prepared
    <3>2. ASSUME NEW path \in Paths PROVE Says(tree', path, disk'[path])
      <4>1. path # Nothing /\ disk'[path] = Nothing
        BY <2>3, <3>2, NamesAre, WorkspaceAssumption DEF Rebuild
      <4>2. \A e \in DOMAIN tree : tree[e] = Gone
        BY <1>0, <2>3 DEF Rebuild, Present, WsTypeOK, RowsOK
      <4>3. \A e \in DOMAIN tree : tree[e].path # path
        BY <4>1, <4>2 DEF Gone
      <4> QED BY <3>1, <4>1, <4>3 DEF Says
    <3>3. dirs' = {folder'.name} \ {Nothing}
      BY <2>3, <3>1 DEF Rebuild, NoFolder
    <3> QED BY <3>1, <3>2, <3>3, SettledNext
  <2>4. ASSUME BeginDrain \/ FinishDrain \/ UNCHANGED wsVars PROVE Agrees
    <3>1. Calm
      BY <2>4 DEF BeginDrain, FinishDrain, wsVars, Calm
    <3> QED BY <1>2, <3>1, CalmAgrees
  <2>5. ASSUME NEW path \in Paths, Drift(path) PROVE drifted'
    BY <2>5 DEF Drift
  <2>6. drifted' \/ Agrees
    BY <2>1, <2>2, <2>3, <2>4, <2>5 DEF WsNext, Admin
  <2> QED BY <2>6 DEF DiskInv
<1> QED BY <1>1, <1>2 DEF DiskInv, Agreed

LEMMA DiskInitially == WsInit => DiskInv
<1> SUFFICES ASSUME WsInit PROVE SettledInv /\ Prepared = {}
  BY DEF DiskInv
<1>1. Prepared = {} /\ dirs = {folder.name} \ {Nothing}
  BY DEF WsInit, Prepared
<1>2. PICK place \in [Files -> {q \in Paths : There(q)}] :
          /\ \A e, f \in Files : place[e] = place[f] => e = f
          /\ tree = [e \in Entries |-> IF e \in Files THEN [path |-> place[e], text |-> {e}, rev |-> 1] ELSE Gone]
          /\ disk = [q \in Paths |-> IF \E e \in Files : place[e] = q THEN {e \in Files : place[e] = q} ELSE Nothing]
  BY DEF WsInit
<1>3. ASSUME NEW path \in Paths PROVE Says(tree, path, disk[path])
  <2>0. path # Nothing /\ DOMAIN tree = Entries /\ Files \subseteq Entries
    BY <1>2, NamesAre, WorkspaceAssumption DEF Entries
  <2>1. \A e \in Files : tree[e].path = place[e] /\ tree[e].text = {e}
    BY <1>2, <2>0
  <2>2. \A e \in Entries : tree[e].path = path <=> e \in Files /\ place[e] = path
    BY <1>2, <2>0 DEF Gone
  <2>3. ASSUME NEW e \in Files, place[e] = path PROVE disk[path] = {e}
    <3>1. {f \in Files : place[f] = path} = {e}
      BY <1>2, <2>3
    <3> QED BY <1>2, <2>3, <3>1
  <2>4. (\A e \in Files : place[e] # path) => disk[path] = Nothing
    BY <1>2
  <2>5. \A e \in DOMAIN tree : tree[e].path = path => disk[path] = tree[e].text
    BY <2>0, <2>1, <2>2, <2>3
  <2>6. (\A e \in DOMAIN tree : tree[e].path # path) => disk[path] = Nothing
    BY <2>0, <2>2, <2>4
  <2> QED BY <2>5, <2>6 DEF Says
<1> QED BY <1>1, <1>3 DEF SettledInv

LEMMA DiskHolds == WsSpec => []DiskInv
<1>1. Known /\ DrainIsQuiet /\ DiskInv /\ [WsNext]_wsVars => DiskInv'
  BY DiskStep
<1>2. WsTypeOK /\ JournalInv /\ (BaseInv /\ OpenInv) /\ LayoutInv /\ FenceInv => Known
  BY DEF Known
<1> QED BY <1>1, <1>2, DiskInitially, WsTypeCorrect, JournalHolds, OpenHolds, LayoutHolds, FenceHolds,
           DrainIsQuietHolds, PTL DEF WsSpec

\* A verdict is one of a reconciler that has looked at the files.
VerdictInv == \A r \in Reconcilers : rec[r].step # "examined" => rec[r].verdict = "none"

LEMMA VerdictStep == ASSUME WsTypeOK, VerdictInv, [WsNext]_wsVars PROVE VerdictInv'
<1> USE DEF tables, journal, claims, store
<1>0. rec \in [Reconcilers -> {Idle} \cup Reconciling] /\ DOMAIN rec = Reconcilers
  BY DEF WsTypeOK, ReconcilersOK
<1>1. ASSUME NEW r \in Reconcilers, rec' = [rec EXCEPT ![r] = Idle] PROVE VerdictInv'
  BY <1>0, <1>1 DEF VerdictInv, Idle
<1>2. ASSUME NEW r \in Reconcilers, Reconcile(r), rec' # [rec EXCEPT ![r] = Idle] PROVE VerdictInv'
  <2>1. ASSUME NEW m \in Mutations, Take(r, m) PROVE VerdictInv'
    BY <1>0, <2>1 DEF Take, VerdictInv
  <2>2. CASE Advance(r)
    <3>1. rec' = [rec EXCEPT ![r].step = "advanced"] /\ rec[r].step = "took"
      BY <1>2, <2>2 DEF Advance, GiveUp
    <3>2. rec[r] \in Reconciling /\ rec[r].verdict = "none"
      BY <1>0, <3>1 DEF VerdictInv, Idle
    <3>3. rec'[r].verdict = "none" /\ \A q \in Reconcilers \ {r} : rec'[q] = rec[q]
      BY <1>0, <3>1, <3>2 DEF Reconciling
    <3> QED BY <3>3 DEF VerdictInv
  <2>3. CASE Examine(r)
    <3>1. PICK v : rec' = [rec EXCEPT ![r].step = "examined", ![r].verdict = v]
      BY <2>3 DEF Examine
    <3>2. rec[r].step = "advanced"
      BY <2>3 DEF Examine
    <3>3. rec[r] \in Reconciling
      BY <1>0, <3>2 DEF Idle
    <3>4. rec'[r].step = "examined" /\ \A q \in Reconcilers \ {r} : rec'[q] = rec[q]
      BY <1>0, <3>1, <3>3 DEF Reconciling
    <3> QED BY <3>4 DEF VerdictInv
  <2> QED BY <1>2, <2>1, <2>2, <2>3 DEF Reconcile, ExamineFenced, Conclude, ConcludeRefused, ReconcilerFails, GiveUp
<1>3. ASSUME NEW n \in Mutations, Request(n) PROVE UNCHANGED rec
  BY <1>3 DEF Request, Read, Draft, Retry, Send, Begin, BeginRefused, Go, Run, RunUnheard, RunFenced,
              Fail, ObjectIsPruned, Record, RecordRefused, Die, Lapse, Renew
<1>4. ASSUME BeginDrain \/ FinishDrain \/ (\E path \in Paths : Drift(path)) \/ UNCHANGED wsVars PROVE UNCHANGED rec
  BY <1>4 DEF BeginDrain, FinishDrain, Drift, wsVars
<1>5. ASSUME Rebuild PROVE VerdictInv'
  BY <1>5 DEF Rebuild, VerdictInv, Idle
<1>6. ASSUME UNCHANGED rec PROVE VerdictInv'
  BY <1>6 DEF VerdictInv
<1> QED BY <1>1, <1>2, <1>3, <1>4, <1>5, <1>6 DEF WsNext, Admin

LEMMA VerdictHolds == WsSpec => []VerdictInv
<1>1. WsInit => VerdictInv
  BY DEF WsInit, VerdictInv, Idle
<1>2. WsTypeOK /\ VerdictInv /\ [WsNext]_wsVars => VerdictInv'
  BY VerdictStep
<1> QED BY <1>1, <1>2, WsTypeCorrect, PTL DEF WsSpec

LEMMA Agreement ==
    ASSUME WsTypeOK, LayoutInv, DiskInv, VerdictInv
    PROVE  FilesAgree
<1>1. ASSUME ~drifted PROVE SettledAgree
  <2>1. SettledInv
    BY <1>1 DEF DiskInv
  <2>2. ASSUME NEW path \in Paths, ~Covered(path)
        PROVE  disk[path] = IF RowAt(path) = {} THEN Nothing ELSE tree[CHOOSE e \in RowAt(path) : TRUE].text
    <3>1. \A m \in Prepared : path \notin AreaOf(plan[m])
      BY <2>2 DEF Covered, AreaOf
    <3>2. Says(tree, path, disk[path]) /\ DOMAIN tree = Entries /\ path # Nothing
      BY <2>1, <2>2, <3>1, NamesAre, WorkspaceAssumption DEF SettledInv, WsTypeOK, RowsOK
    <3>3. CASE RowAt(path) = {}
      <4>1. \A e \in Entries : tree[e].path # path
        BY <3>2, <3>3 DEF RowAt, Present, Gone
      <4> QED BY <3>2, <3>3, <4>1 DEF Says
    <3>4. CASE RowAt(path) # {}
      <4>1. PICK e : e = CHOOSE f \in RowAt(path) : TRUE
        OBVIOUS
      <4>2. e \in RowAt(path)
        BY <3>4, <4>1
      <4>3. e \in Entries /\ tree[e].path = path
        BY <4>2 DEF RowAt, Present
      <4> QED BY <3>2, <3>4, <4>1, <4>3 DEF Says
    <3> QED BY <3>3, <3>4
  <2>3. DirectoryIsOpen \/ dirs = {folder.name} \ {Nothing}
    BY <2>1 DEF SettledInv, DirectoryIsOpen, OnDirs
  <2> QED BY <2>2, <2>3 DEF SettledAgree
<1>2. ASSUME ~drifted PROVE NeverPuzzled
  <2>1. ASSUME NEW r \in Reconcilers, rec[r].verdict = "neither", state[rec[r].of] = "prepared" PROVE FALSE
    <3>1. rec[r].step = "examined"
      BY <2>1 DEF VerdictInv
    <3>2. rec[r].of \in Prepared
      BY <2>1, <3>1, ExaminedIs DEF Prepared
    <3>3. Told(plan[rec[r].of], rec[r], disk, dirs)
      BY <1>2, <3>1, <3>2 DEF DiskInv, OneSide
    <3> QED BY <2>1, <3>3 DEF Told
  <2> QED BY <2>1 DEF NeverPuzzled
<1> QED BY <1>1, <1>2 DEF FilesAgree, LayoutInv

\* Rows and files agree after stalls, takeovers, lost replies and crashes in
\* any order, unless somebody else has changed the files.
THEOREM FilesAgreeHolds == WsSpec => []FilesAgree
<1>1. WsTypeOK /\ LayoutInv /\ DiskInv /\ VerdictInv => FilesAgree
  BY Agreement
<1> QED BY <1>1, WsTypeCorrect, LayoutHolds, DiskHolds, VerdictHolds, PTL

-----------------------------------------------------------------------------
(* Sums.  The total of f over S is the number of its units: of pairs of an *)
(* element and one of the numbers up to its share.  A sum that takes one   *)
(* element after another, as those of the model do, is that number.        *)

Units(f, S) == {u \in S \X Nat : u[2] \in 1 .. f[u[1]]}
Total(f, S) == Cardinality(Units(f, S))

\* The share of one element.
LEMMA OneUnits ==
    ASSUME NEW f, NEW x, f[x] \in Nat
    PROVE  IsFiniteSet(Units(f, {x})) /\ Total(f, {x}) = f[x]
<1>1. Units(f, {x}) = {x} \X (1 .. f[x])
  BY DEF Units
<1>2. IsFiniteSet({x}) /\ Cardinality({x}) = 1
  BY FS_Singleton
<1>3. IsFiniteSet(1 .. f[x]) /\ Cardinality(1 .. f[x]) = f[x]
  BY FS_Interval
<1>4. IsFiniteSet({x} \X (1 .. f[x])) /\ Cardinality({x} \X (1 .. f[x])) = Cardinality({x}) * Cardinality(1 .. f[x])
  BY <1>2, <1>3, FS_Product
<1>5. IsFiniteSet(Units(f, {x})) /\ Cardinality(Units(f, {x})) = 1 * f[x]
  BY <1>1, <1>2, <1>3, <1>4
<1>6. 1 * f[x] = f[x]
  OBVIOUS
<1> QED BY <1>5, <1>6 DEF Total

\* A finite set has finitely many units.
LEMMA UnitsFinite ==
    ASSUME NEW S, IsFiniteSet(S), NEW f, \A x \in S : f[x] \in Nat
    PROVE  IsFiniteSet(Units(f, S)) /\ Total(f, S) \in Nat
<1> DEFINE parts == {Units(f, {x}) : x \in S}
           part == [x \in S |-> Units(f, {x})]
<1>1. part \in Surjection(S, parts)
  BY DEF Surjection
<1>2. IsFiniteSet(parts)
  BY <1>1, FS_Surjection
<1>3. \A T \in parts : IsFiniteSet(T)
  BY OneUnits
<1>4. IsFiniteSet(UNION parts)
  BY <1>2, <1>3, FS_UNION
<1>5. Units(f, S) \subseteq UNION parts
  BY DEF Units
<1>6. IsFiniteSet(Units(f, S))
  BY <1>4, <1>5, FS_Subset
<1> QED BY <1>6, FS_CardinalityType DEF Total

\* The totals of disjoint sets add up.
LEMMA TotalSplits ==
    ASSUME NEW S, NEW T, IsFiniteSet(S), IsFiniteSet(T), S \cap T = {},
           NEW f, \A x \in S \cup T : f[x] \in Nat
    PROVE  Total(f, S \cup T) = Total(f, S) + Total(f, T)
<1>1. Units(f, S \cup T) = Units(f, S) \cup Units(f, T) /\ Units(f, S) \cap Units(f, T) = {}
  BY DEF Units
<1>2. IsFiniteSet(Units(f, S)) /\ IsFiniteSet(Units(f, T)) /\ Total(f, S) \in Nat /\ Total(f, T) \in Nat
  BY UnitsFinite
<1>3. Cardinality(Units(f, S) \cup Units(f, T)) =
        Cardinality(Units(f, S)) + Cardinality(Units(f, T)) - Cardinality(Units(f, S) \cap Units(f, T))
  BY <1>2, FS_Union
<1>4. Cardinality({}) = 0
  BY FS_EmptySet
<1>5. Total(f, S \cup T) = Total(f, S) + Total(f, T) - 0
  BY <1>1, <1>3, <1>4 DEF Total
<1> QED BY <1>2, <1>5

\* Nothing has no units.
LEMMA TotalOfNothing == ASSUME NEW f PROVE Total(f, {}) = 0
BY FS_EmptySet DEF Total, Units

\* The total depends on the shares only.
LEMMA TotalAgrees ==
    ASSUME NEW S, NEW f, NEW g, \A x \in S : f[x] = g[x]
    PROVE  Total(f, S) = Total(g, S)
<1>1. Units(f, S) = Units(g, S)
  BY DEF Units
<1> QED BY <1>1 DEF Total

\* Taking out an element takes out its share.
LEMMA TotalWithout ==
    ASSUME NEW S, IsFiniteSet(S), NEW x \in S, NEW f, \A y \in S : f[y] \in Nat
    PROVE  Total(f, S) = f[x] + Total(f, S \ {x}) /\ Total(f, S \ {x}) \in Nat
<1>1. IsFiniteSet(S \ {x}) /\ IsFiniteSet({x})
  BY FS_RemoveElement, FS_Singleton
<1>2. Total(f, {x} \cup (S \ {x})) = Total(f, {x}) + Total(f, S \ {x})
  BY <1>1, TotalSplits
<1>3. {x} \cup (S \ {x}) = S
  OBVIOUS
<1> QED BY <1>1, <1>2, <1>3, OneUnits, UnitsFinite

\* Adding up an element at a time, in the order CHOOSE takes them: what the
\* model's sums are.  it is one such sum over the subsets of S.
AddsOver(S, h, it) ==
    it = [s \in SUBSET S |-> IF s = {} THEN 0 ELSE h[CHOOSE x \in s : TRUE] + it[s \ {CHOOSE x \in s : TRUE}]]

\* Totals add up an element at a time: there is a sum.
LEMMA SumIsThere ==
    ASSUME NEW S, IsFiniteSet(S), NEW f \in [S -> Nat], NEW g \in [S -> Nat]
    PROVE  AddsOver(S, [x \in S |-> f[x] - g[x]], [s \in SUBSET S |-> Total(f, s) - Total(g, s)])
<1> DEFINE it == [s \in SUBSET S |-> Total(f, s) - Total(g, s)]
           h == [x \in S |-> f[x] - g[x]]
<1>1. ASSUME NEW s \in SUBSET S, s # {}
      PROVE  it[s] = h[CHOOSE x \in s : TRUE] + it[s \ {CHOOSE x \in s : TRUE}]
  <2>1. PICK x : x = CHOOSE y \in s : TRUE
    OBVIOUS
  <2>2. x \in s
    BY <1>1, <2>1
  <2>3. IsFiniteSet(s)
    BY FS_Subset
  <2>4. Total(f, s) = f[x] + Total(f, s \ {x}) /\ Total(f, s \ {x}) \in Nat
    BY <2>2, <2>3, TotalWithout
  <2>5. Total(g, s) = g[x] + Total(g, s \ {x}) /\ Total(g, s \ {x}) \in Nat
    BY <2>2, <2>3, TotalWithout
  <2>6. it[s] = Total(f, s) - Total(g, s) /\ it[s \ {x}] = Total(f, s \ {x}) - Total(g, s \ {x})
    OBVIOUS
  <2>7. h[x] = f[x] - g[x] /\ f[x] \in Nat /\ g[x] \in Nat
    BY <2>2
  <2> HIDE DEF it, h
  <2>8. it[s] = h[x] + it[s \ {x}]
    BY <2>4, <2>5, <2>6, <2>7
  <2> QED BY <2>1, <2>8
<1>2. it[{}] = 0
  BY TotalOfNothing
<1>3. it = [s \in SUBSET S |-> it[s]]
  OBVIOUS
<1> HIDE DEF it, h
<1>4. AddsOver(S, h, it)
  BY <1>1, <1>2, <1>3 DEF AddsOver
<1> QED BY <1>4 DEF it, h

\* Two sums agree, or they would differ first on a smallest set.
LEMMA SumIsOne ==
    ASSUME NEW S, IsFiniteSet(S), NEW h, NEW a, NEW b, AddsOver(S, h, a), AddsOver(S, h, b)
    PROVE  a[S] = b[S]
<1> DEFINE Differ == {s \in SUBSET S : a[s] # b[s]}
<1>1. SUFFICES ASSUME S \in Differ PROVE FALSE
  OBVIOUS
<1>2. Differ \subseteq FiniteSubsetsOf(S)
  BY FS_Subset DEF FiniteSubsetsOf
<1>3. PICK s \in Differ : \A t \in Differ : ~(<<t, s>> \in StrictSubsetOrdering(S))
  <2> HIDE DEF Differ
  <2> QED BY <1>1, <1>2, FS_StrictSubsetOrderingWellFounded, WFMin
<1>4. s # {}
  BY <1>3 DEF AddsOver
<1>5. PICK x : x = CHOOSE y \in s : TRUE
  OBVIOUS
<1>6. x \in s
  BY <1>4, <1>5
<1>7. a[s] = h[x] + a[s \ {x}] /\ b[s] = h[x] + b[s \ {x}]
  BY <1>3, <1>4, <1>5 DEF AddsOver
<1>8. s \ {x} \in Differ
  BY <1>3, <1>7
<1>9. <<s \ {x}, s>> \in StrictSubsetOrdering(S)
  BY <1>3, <1>6 DEF StrictSubsetOrdering
<1> QED BY <1>3, <1>8, <1>9

\* One share changes.
LEMMA TotalExcept ==
    ASSUME NEW S, IsFiniteSet(S), NEW x \in S, NEW f \in [S -> Nat], NEW g \in [S -> Nat],
           \A y \in S \ {x} : g[y] = f[y]
    PROVE  Total(g, S) = Total(f, S) - f[x] + g[x]
<1>1. Total(f, S) = f[x] + Total(f, S \ {x}) /\ Total(f, S \ {x}) \in Nat
  BY TotalWithout
<1>2. Total(g, S) = g[x] + Total(g, S \ {x}) /\ Total(g, S \ {x}) \in Nat
  BY TotalWithout
<1>3. Total(f, S \ {x}) = Total(g, S \ {x})
  BY TotalAgrees
<1>4. f[x] \in Nat /\ g[x] \in Nat
  OBVIOUS
<1> QED BY <1>1, <1>2, <1>3, <1>4

\* No share gets larger.
LEMMA TotalGrows ==
    ASSUME NEW S, IsFiniteSet(S), NEW f \in [S -> Nat], NEW g \in [S -> Nat], \A y \in S : g[y] <= f[y]
    PROVE  Total(g, S) <= Total(f, S)
<1>1. Units(g, S) \subseteq Units(f, S)
  BY DEF Units
<1>2. IsFiniteSet(Units(f, S))
  BY UnitsFinite
<1> QED BY <1>1, <1>2, FS_Subset DEF Total

\* The same of an operator.
AddsBy(op(_), S, it) ==
    it = [s \in SUBSET S |-> IF s = {} THEN 0 ELSE op(CHOOSE x \in s : TRUE) + it[s \ {CHOOSE x \in s : TRUE}]]

-----------------------------------------------------------------------------
(* The bytes of rows, what a journal adds to them and what is reserved.    *)

\* The bytes of rows or of one side of a journal, and what an open one needs.
Sizes(rows) == [i \in DOMAIN rows |-> Bytes(rows[i])]
Size(rows) == Total(Sizes(rows), DOMAIN rows)
Growth(p) == Size(p.after) - Size(p.before)
Needs(p) == IF Growth(p) > 0 THEN Growth(p) ELSE 0
Booked(st, pl) == [k \in Mutations |-> IF st[k] = "prepared" THEN Needs(pl[k]) ELSE 0]

\* There are finitely many entries.
LEMMA EntriesAreFinite == IsFiniteSet(Entries) /\ \A S \in SUBSET Entries : IsFiniteSet(S)
<1>1. IsFiniteSet(Entries)
  BY RoomAssumption, FS_Union DEF RoomAssumption, Entries
<1> QED BY <1>1, FS_Subset

\* A row has a number of bytes.
LEMMA BytesAreNat == ASSUME NEW row \in Row \cup {Gone} PROVE Bytes(row) \in Nat
<1>1. CASE row = Gone
  BY <1>1 DEF Bytes
<1>2. CASE row # Gone
  <2>1. row.text \in SUBSET Entries
    BY <1>2 DEF Row
  <2>2. Cardinality(row.text) \in Nat
    BY <2>1, EntriesAreFinite, FS_CardinalityType
  <2> QED BY <1>2, <2>2 DEF Bytes
<1> QED BY <1>1, <1>2

\* So have the rows of a set of entries.
LEMMA SizesAre ==
    ASSUME NEW rows, DOMAIN rows \subseteq Entries, \A i \in DOMAIN rows : rows[i] \in Row \cup {Gone}
    PROVE  /\ Sizes(rows) \in [DOMAIN rows -> Nat]
           /\ Size(rows) \in Nat
<1>1. Sizes(rows) \in [DOMAIN rows -> Nat]
  BY BytesAreNat DEF Sizes
<1>2. IsFiniteSet(DOMAIN rows)
  BY EntriesAreFinite
<1>3. \A i \in DOMAIN rows : Sizes(rows)[i] \in Nat
  BY <1>1
<1> QED BY <1>1, <1>2, <1>3, UnitsFinite DEF Size

\* What a journal adds is the difference of its sides, and no more than it needs.
LEMMA DeltaIs ==
    ASSUME NEW p, JournalOK(p)
    PROVE  /\ Delta(p) = Growth(p) /\ Growth(p) \in Int
           /\ Reserved(p) = Needs(p) /\ Needs(p) \in Nat /\ Growth(p) <= Needs(p)
<1> DEFINE S == Items(p)
           f == Sizes(p.after)
           g == Sizes(p.before)
           h == [x \in S |-> f[x] - g[x]]
           sums == [s \in SUBSET S |-> Total(f, s) - Total(g, s)]
           it == CHOOSE iter : AddsBy(LAMBDA i : Bytes(p.after[i]) - Bytes(p.before[i]), S, iter)
<1>1. /\ f \in [S -> Nat] /\ Size(p.after) \in Nat /\ Size(p.after) = Total(f, S)
      /\ g \in [S -> Nat] /\ Size(p.before) \in Nat /\ Size(p.before) = Total(g, S)
      /\ IsFiniteSet(S)
  <2>1. /\ DOMAIN p.before = S /\ DOMAIN p.after = S /\ S \subseteq Entries
        /\ \A i \in S : p.before[i] \in Row \cup {Gone} /\ p.after[i] \in Row \cup {Gone}
    BY DEF JournalOK, Items
  <2>2. f \in [S -> Nat] /\ Size(p.after) \in Nat
    BY <2>1, SizesAre
  <2>3. g \in [S -> Nat] /\ Size(p.before) \in Nat
    BY <2>1, SizesAre
  <2> QED BY <2>1, <2>2, <2>3, EntriesAreFinite DEF Size
<1>2. \A x \in S : h[x] = Bytes(p.after[x]) - Bytes(p.before[x])
  BY DEF JournalOK, Items, Sizes
<1>3. \A s \in SUBSET S : s # {} => (CHOOSE x \in s : TRUE) \in S
  OBVIOUS
<1>4. AddsOver(S, h, sums)
  <2> HIDE DEF f, g, S
  <2> QED BY <1>1, SumIsThere
<1>5. AddsBy(LAMBDA i : Bytes(p.after[i]) - Bytes(p.before[i]), S, sums)
  <2> HIDE DEF h, sums, S
  <2> QED BY <1>2, <1>3, <1>4 DEF AddsOver, AddsBy
<1>6. AddsBy(LAMBDA i : Bytes(p.after[i]) - Bytes(p.before[i]), S, it)
  <2> HIDE DEF sums, S
  <2> QED BY <1>5
<1>7. Delta(p) = it[S]
  BY DEF Delta, MapThenSumSet, MapThenFoldSet, AddsBy
<1>8. AddsOver(S, h, it)
  <2> HIDE DEF h, it, S
  <2> QED BY <1>2, <1>3, <1>6 DEF AddsOver, AddsBy
<1>9. it[S] = sums[S]
  <2> HIDE DEF h, it, S, sums
  <2> QED BY <1>1, <1>4, <1>8, SumIsOne
<1>10. sums[S] = Total(f, S) - Total(g, S)
  OBVIOUS
<1>11. Delta(p) = Growth(p) /\ Growth(p) \in Int
  <2> HIDE DEF f, g, it, S, sums
  <2> QED BY <1>1, <1>7, <1>9, <1>10 DEF Growth
<1> QED BY <1>11 DEF Reserved, Needs

\* The counter's sum, taken over the rows as they are now.
LEMMA TextsAre ==
    ASSUME WsTypeOK
    PROVE  MapThenSumSet(LAMBDA e : Bytes(tree[e]), Entries) = Size(tree) /\ Size(tree) \in Nat
<1> DEFINE f == Sizes(tree)
           g == [e \in Entries |-> 0]
           h == [x \in Entries |-> f[x] - g[x]]
           sums == [s \in SUBSET Entries |-> Total(f, s) - Total(g, s)]
           it == CHOOSE iter : AddsBy(LAMBDA e : Bytes(tree[e]), Entries, iter)
<1>1. /\ f \in [Entries -> Nat] /\ Size(tree) \in Nat /\ Size(tree) = Total(f, Entries)
      /\ g \in [Entries -> Nat] /\ IsFiniteSet(Entries)
  <2>1. DOMAIN tree = Entries /\ \A e \in Entries : tree[e] \in Row \cup {Gone}
    BY DEF WsTypeOK, RowsOK
  <2> QED BY <2>1, SizesAre, EntriesAreFinite DEF Size
<1>2. \A x \in Entries : h[x] = Bytes(tree[x])
  <2>1. \A x \in Entries : f[x] = Bytes(tree[x]) /\ g[x] = 0 /\ f[x] \in Nat
    BY <1>1 DEF WsTypeOK, RowsOK, Sizes
  <2> HIDE DEF f, g
  <2> QED BY <2>1
<1>3. \A s \in SUBSET Entries : s # {} => (CHOOSE x \in s : TRUE) \in Entries
  OBVIOUS
<1>4. AddsOver(Entries, h, sums)
  <2> HIDE DEF f, g
  <2> QED BY <1>1, SumIsThere
<1>5. AddsBy(LAMBDA e : Bytes(tree[e]), Entries, sums)
  <2> HIDE DEF h, sums
  <2> QED BY <1>2, <1>3, <1>4 DEF AddsOver, AddsBy
<1>6. AddsBy(LAMBDA e : Bytes(tree[e]), Entries, it)
  <2> HIDE DEF sums
  <2> QED BY <1>5
<1>7. MapThenSumSet(LAMBDA e : Bytes(tree[e]), Entries) = it[Entries]
  BY DEF MapThenSumSet, MapThenFoldSet, AddsBy
<1>8. AddsOver(Entries, h, it)
  <2> HIDE DEF h, it
  <2> QED BY <1>2, <1>3, <1>6 DEF AddsOver, AddsBy
<1>9. it[Entries] = sums[Entries]
  <2> HIDE DEF h, it, sums
  <2> QED BY <1>1, <1>4, <1>8, SumIsOne
<1>10. sums[Entries] = Total(f, Entries) - Total(g, Entries)
  OBVIOUS
<1>11. Total(g, Entries) = 0
  <2>1. Units(g, Entries) = {}
    BY DEF Units
  <2> QED BY <2>1, FS_EmptySet DEF Total
<1> HIDE DEF f, g, it, sums
<1> QED BY <1>1, <1>7, <1>9, <1>10, <1>11

\* What a journal that has been planned needs.
LEMMA BookedIs ==
    ASSUME WsTypeOK
    PROVE  /\ Booked(state, plan) \in [Mutations -> Nat]
           /\ \A m \in Prepared : m \in Mutations /\ JournalOK(plan[m]) /\ Booked(state, plan)[m] = Needs(plan[m])
           /\ Total(Booked(state, plan), Mutations) \in Nat
<1>1. \A m \in Prepared : m \in Mutations /\ JournalOK(plan[m])
  BY DEF Prepared, WsTypeOK, RequestsOK, RequestOK
<1>2. \A m \in Prepared : Needs(plan[m]) \in Nat
  BY <1>1, DeltaIs
<1>3. Booked(state, plan) \in [Mutations -> Nat]
  BY <1>2 DEF Booked, Prepared
<1>4. \A m \in Prepared : Booked(state, plan)[m] = Needs(plan[m])
  BY DEF Booked, Prepared
<1>5. Total(Booked(state, plan), Mutations) \in Nat
  BY <1>3, RoomAssumption, UnitsFinite DEF RoomAssumption
<1> QED BY <1>1, <1>3, <1>4, <1>5

\* What open changes have reserved.
LEMMA ReservedIs ==
    ASSUME WsTypeOK
    PROVE  MapThenSumSet(LAMBDA k : Reserved(plan[k]), Prepared) = Total(Booked(state, plan), Mutations)
<1> DEFINE f == [k \in Prepared |-> Booked(state, plan)[k]]
           g == [k \in Prepared |-> 0]
           h == [x \in Prepared |-> f[x] - g[x]]
           sums == [s \in SUBSET Prepared |-> Total(f, s) - Total(g, s)]
           it == CHOOSE iter : AddsBy(LAMBDA k : Reserved(plan[k]), Prepared, iter)
<1>1. f \in [Prepared -> Nat] /\ g \in [Prepared -> Nat] /\ IsFiniteSet(Prepared)
  <2>1. Prepared \in SUBSET Mutations
    BY DEF Prepared
  <2>2. IsFiniteSet(Prepared)
    BY <2>1, RoomAssumption, FS_Subset DEF RoomAssumption
  <2> QED BY <2>1, <2>2, BookedIs
<1>2. \A x \in Prepared : h[x] = Reserved(plan[x])
  <2>1. \A x \in Prepared : f[x] = Reserved(plan[x]) /\ g[x] = 0 /\ f[x] \in Nat
    BY <1>1, BookedIs, DeltaIs
  <2> HIDE DEF f, g
  <2> QED BY <2>1
<1>3. \A s \in SUBSET Prepared : s # {} => (CHOOSE x \in s : TRUE) \in Prepared
  OBVIOUS
<1>4. AddsOver(Prepared, h, sums)
  <2> HIDE DEF f, g
  <2> QED BY <1>1, SumIsThere
<1>5. AddsBy(LAMBDA k : Reserved(plan[k]), Prepared, sums)
  <2> HIDE DEF h, sums
  <2> QED BY <1>2, <1>3, <1>4 DEF AddsOver, AddsBy
<1>6. AddsBy(LAMBDA k : Reserved(plan[k]), Prepared, it)
  <2> HIDE DEF sums
  <2> QED BY <1>5
<1>7. MapThenSumSet(LAMBDA k : Reserved(plan[k]), Prepared) = it[Prepared]
  BY DEF MapThenSumSet, MapThenFoldSet, AddsBy
<1>8. AddsOver(Prepared, h, it)
  <2> HIDE DEF h, it
  <2> QED BY <1>2, <1>3, <1>6 DEF AddsOver, AddsBy
<1>9. it[Prepared] = sums[Prepared]
  <2> HIDE DEF h, it, sums
  <2> QED BY <1>1, <1>4, <1>8, SumIsOne
<1>10. sums[Prepared] = Total(f, Prepared) - Total(g, Prepared)
  OBVIOUS
<1>11. Total(g, Prepared) = 0
  <2>1. Units(g, Prepared) = {}
    BY DEF Units
  <2> QED BY <2>1, FS_EmptySet DEF Total
<1>12. Total(f, Prepared) \in Nat
  <2>1. \A x \in Prepared : f[x] \in Nat
    BY <1>1
  <2> HIDE DEF f
  <2> QED BY <1>1, <2>1, UnitsFinite
<1>13. MapThenSumSet(LAMBDA k : Reserved(plan[k]), Prepared) = Total(f, Prepared)
  <2> HIDE DEF f, g, it, sums
  <2> QED BY <1>7, <1>9, <1>10, <1>11, <1>12
<1>14. Units(f, Prepared) = Units(Booked(state, plan), Mutations)
  <2>1. \A k \in Mutations \ Prepared : Booked(state, plan)[k] = 0
    BY DEF Booked, Prepared
  <2>2. Prepared \subseteq Mutations
    BY DEF Prepared
  <2> QED BY <2>1, <2>2 DEF Units
<1> QED BY <1>13, <1>14 DEF Total

-----------------------------------------------------------------------------
(* The quota.                                                              *)

\* The sum grows by what the journal that is committed adds.
LEMMA SizeMoves ==
    ASSUME WsTypeOK, NEW p, JournalOK(p), \A i \in Items(p) : tree[i] = p.before[i],
           NEW rows, rows = [e \in Entries |-> IF e \in Items(p) THEN p.after[e] ELSE tree[e]]
    PROVE  Size(rows) = Size(tree) + Growth(p)
<1> DEFINE S == Items(p)
           R == Entries \ S
<1>1. /\ S \subseteq Entries /\ DOMAIN p.before = S /\ DOMAIN p.after = S
      /\ \A i \in S : p.before[i] \in Row \cup {Gone} /\ p.after[i] \in Row \cup {Gone}
  BY DEF JournalOK, Items
<1>2. DOMAIN tree = Entries /\ \A e \in Entries : tree[e] \in Row \cup {Gone}
  BY DEF WsTypeOK, RowsOK
<1>3. DOMAIN rows = Entries /\ \A e \in Entries : rows[e] \in Row \cup {Gone}
  BY <1>1, <1>2
<1>4. IsFiniteSet(S) /\ IsFiniteSet(R) /\ S \cap R = {} /\ S \cup R = Entries
  BY <1>1, EntriesAreFinite
<1>5. Sizes(tree) \in [Entries -> Nat] /\ Sizes(rows) \in [Entries -> Nat]
  BY <1>2, <1>3, SizesAre
<1> HIDE DEF S, R
<1>6. Size(tree) = Total(Sizes(tree), S) + Total(Sizes(tree), R)
  BY <1>2, <1>4, <1>5, TotalSplits DEF Size
<1>7. Size(rows) = Total(Sizes(rows), S) + Total(Sizes(rows), R)
  BY <1>3, <1>4, <1>5, TotalSplits DEF Size
<1>8. Total(Sizes(rows), R) = Total(Sizes(tree), R)
  <2>1. \A e \in R : Sizes(rows)[e] = Sizes(tree)[e]
    BY <1>1, <1>2, <1>3 DEF R, S, Sizes
  <2> QED BY <2>1, TotalAgrees
<1>9. Total(Sizes(rows), S) = Size(p.after)
  <2>1. \A e \in S : Sizes(rows)[e] = Sizes(p.after)[e]
    BY <1>1, <1>3 DEF S, Sizes
  <2> QED BY <1>1, <2>1, TotalAgrees DEF Size
<1>10. Total(Sizes(tree), S) = Size(p.before)
  <2>1. \A e \in S : Sizes(tree)[e] = Sizes(p.before)[e]
    BY <1>1, <1>2 DEF S, Sizes
  <2> QED BY <1>1, <2>1, TotalAgrees DEF Size
<1>11. Size(p.after) \in Nat /\ Size(p.before) \in Nat
  BY <1>1, SizesAre
<1>12. Total(Sizes(tree), R) \in Nat
  <2>1. \A e \in R : Sizes(tree)[e] \in Nat
    BY <1>4, <1>5
  <2> QED BY <1>4, <2>1, UnitsFinite
<1> QED BY <1>6, <1>7, <1>8, <1>9, <1>10, <1>11, <1>12 DEF Growth

\* The counter is the size of the rows, and what is reserved still fits.
QuotaInv ==
    /\ used = Size(tree)
    /\ used + Total(Booked(state, plan), Mutations) <= Quota

\* What there is at first fits, and nothing is reserved.
LEMMA QuotaInitially == WsInit => QuotaInv
<1> SUFFICES ASSUME WsInit PROVE QuotaInv
  OBVIOUS
<1>1. PICK place \in [Files -> {q \in Paths : There(q)}] :
          tree = [e \in Entries |-> IF e \in Files THEN [path |-> place[e], text |-> {e}, rev |-> 1] ELSE Gone]
  BY DEF WsInit
<1>2. \A e \in Files : tree[e].text = {e} /\ tree[e] # Gone
  BY <1>1, NothingAssumption DEF Entries, Gone
<1>3. \A e \in Entries : Sizes(tree)[e] = IF e \in Files THEN 1 ELSE 0
  <2>1. \A e \in Entries : Sizes(tree)[e] = Bytes(tree[e])
    BY <1>1 DEF Sizes
  <2>2. \A e \in Files : Bytes(tree[e]) = 1
    BY <1>2, FS_Singleton DEF Bytes
  <2>3. \A e \in Entries \ Files : Bytes(tree[e]) = 0
    BY <1>1 DEF Bytes
  <2> QED BY <2>1, <2>2, <2>3
<1>4. Size(tree) = Cardinality(Files)
  <2>1. Units(Sizes(tree), Entries) = Files \X {1}
    <3>1. Files \subseteq Entries
      BY DEF Entries
    <3>2. ASSUME NEW u PROVE u \in Units(Sizes(tree), Entries) <=> u \in Files \X {1}
      BY <1>3, <3>1 DEF Units
    <3> QED BY <3>2
  <2>2. IsFiniteSet(Files) /\ Cardinality(Files) \in Nat
    BY RoomAssumption, FS_CardinalityType DEF RoomAssumption
  <2>3. IsFiniteSet({1}) /\ Cardinality({1}) = 1
    BY FS_Singleton
  <2>4. Cardinality(Files \X {1}) = Cardinality(Files) * Cardinality({1})
    BY <2>2, <2>3, FS_Product
  <2>5. Cardinality(Files) * 1 = Cardinality(Files)
    BY <2>2
  <2>6. Cardinality(Files \X {1}) = Cardinality(Files)
    BY <2>3, <2>4, <2>5
  <2>7. DOMAIN tree = Entries
    BY <1>1
  <2> QED BY <2>1, <2>6, <2>7 DEF Size, Total
<1>5. Total(Booked(state, plan), Mutations) = 0
  <2>1. \A m \in Mutations : Booked(state, plan)[m] = 0
    BY DEF WsInit, Booked
  <2>2. Units(Booked(state, plan), Mutations) = {}
    BY <2>1 DEF Units
  <2> QED BY <2>2, FS_EmptySet DEF Total
<1>6. used = Cardinality(Files) /\ Cardinality(Files) <= Quota /\ Cardinality(Files) \in Nat
  BY RoomAssumption, FS_CardinalityType DEF WsInit, RoomAssumption
<1> QED BY <1>4, <1>5, <1>6 DEF QuotaInv

\* A commit adds no more than what was reserved for it.
LEMMA QuotaCommits ==
    ASSUME WsTypeOK, QuotaInv, NEW n \in Mutations, Completes(n) PROVE QuotaInv'
<1> DEFINE p == plan[n]
           b == Booked(state, plan)
           c == Booked(state', plan')
<1>1. n \in Prepared
  BY DEF Completes, Prepared
<1>2. JournalOK(p) /\ b[n] = Needs(p) /\ b \in [Mutations -> Nat] /\ Total(b, Mutations) \in Nat
  BY <1>1, BookedIs
<1>3. Growth(p) \in Int /\ Needs(p) \in Nat /\ Growth(p) <= Needs(p) /\ Delta(p) = Growth(p)
  BY <1>2, DeltaIs
<1>4. /\ state' = [state EXCEPT ![n] = "completed"] /\ plan' = plan
      /\ tree' = [e \in Entries |-> IF e \in Items(p) THEN p.after[e] ELSE tree[e]]
      /\ \A i \in Items(p) : tree[i] = p.before[i]
      /\ used' = used + Delta(p)
  BY DEF Completes, Commit, Unchanged
<1>5. Size(tree') = Size(tree) + Growth(p)
  BY <1>2, <1>4, SizeMoves
<1>6. DOMAIN state = Mutations
  BY DEF WsTypeOK, RequestsOK
<1>7. c \in [Mutations -> Nat] /\ c[n] = 0 /\ \A m \in Mutations \ {n} : c[m] = b[m]
  <2>1. c[n] = 0 /\ \A m \in Mutations \ {n} : c[m] = b[m]
    BY <1>4, <1>6 DEF Booked
  <2>2. DOMAIN c = Mutations /\ c = [m \in Mutations |-> c[m]]
    BY DEF Booked
  <2> HIDE DEF b, c
  <2> QED BY <1>2, <2>1, <2>2
<1> HIDE DEF b, c
<1>8. Total(c, Mutations) = Total(b, Mutations) - b[n] + c[n]
  BY <1>2, <1>7, RoomAssumption, TotalExcept DEF RoomAssumption
<1>9. used = Size(tree) /\ used + Total(b, Mutations) <= Quota /\ Size(tree) \in Nat /\ Quota \in Nat
  BY TextsAre, WorkspaceAssumption DEF QuotaInv, WorkspaceAssumption, b
<1> HIDE DEF p
<1>10. used' = Size(tree') /\ used' + Total(c, Mutations) <= Quota
  BY <1>2, <1>3, <1>4, <1>5, <1>7, <1>8, <1>9
<1> QED BY <1>10 DEF QuotaInv, c

\* A change that needs room is let in only where there is some.
LEMMA QuotaBegins ==
    ASSUME WsTypeOK, WsTypeOK', QuotaInv, NEW m \in Mutations, Begin(m) PROVE QuotaInv'
<1> DEFINE p == plan[m]
           b == Booked(state, plan)
           c == Booked(state', plan')
<1>1. /\ state' = [state EXCEPT ![m] = "prepared"] /\ plan' = plan /\ tree' = tree /\ used' = used
      /\ HasRoom(p) /\ phase[m] = "read"
  BY DEF Begin, Admissible, tables
<1>2. JournalOK(p) /\ state[m] = "none" /\ DOMAIN state = Mutations
  BY <1>1 DEF WsTypeOK, RequestsOK, RequestOK
<1>3. Needs(p) \in Nat /\ Reserved(p) = Needs(p)
  BY <1>2, DeltaIs
<1>4. b \in [Mutations -> Nat] /\ Total(b, Mutations) \in Nat
  BY BookedIs
<1>5. b[m] = 0 /\ c[m] = Needs(p) /\ c \in [Mutations -> Nat] /\ \A k \in Mutations \ {m} : c[k] = b[k]
  <2>1. b[m] = 0 /\ c[m] = Needs(p) /\ \A k \in Mutations \ {m} : c[k] = b[k]
    BY <1>1, <1>2 DEF Booked
  <2>2. DOMAIN c = Mutations /\ c = [k \in Mutations |-> c[k]]
    BY DEF Booked
  <2> HIDE DEF b, c
  <2> QED BY <1>3, <1>4, <2>1, <2>2
<1>6. Needs(p) > 0 => used + Total(b, Mutations) + Needs(p) <= Quota
  BY <1>1, <1>3, ReservedIs DEF HasRoom
<1>7. used = Size(tree) /\ used + Total(b, Mutations) <= Quota /\ Size(tree) \in Nat /\ Quota \in Nat
  BY TextsAre, WorkspaceAssumption DEF QuotaInv, WorkspaceAssumption
<1> HIDE DEF b, c, p
<1>8. Total(c, Mutations) = Total(b, Mutations) - b[m] + c[m]
  BY <1>4, <1>5, RoomAssumption, TotalExcept DEF RoomAssumption
<1>9. used' = Size(tree') /\ used' + Total(c, Mutations) <= Quota
  BY <1>1, <1>3, <1>4, <1>5, <1>6, <1>7, <1>8
<1> QED BY <1>9 DEF QuotaInv, c

\* Any other step adds nothing and reserves nothing.
LEMMA QuotaStep == ASSUME WsTypeOK, WsTypeOK', QuotaInv, [WsNext]_wsVars PROVE QuotaInv'
<1>1. CASE \E n \in Mutations : Completes(n)
  BY <1>1, QuotaCommits
<1>2. CASE \E m \in Mutations : Begin(m)
  BY <1>2, QuotaBegins
<1>3. CASE UNCHANGED tables /\ \A m \in Mutations : ~Begin(m)
  <2> DEFINE b == Booked(state, plan)
             c == Booked(state', plan')
  <2>1. b \in [Mutations -> Nat] /\ Total(b, Mutations) \in Nat
    BY BookedIs
  <2>2. \A m \in Mutations : state'[m] = "prepared" => state[m] = "prepared" /\ plan'[m] = plan[m]
    BY <1>3, PreparedMove
  <2>3. \A m \in Mutations : c[m] = b[m] \/ c[m] = 0
    BY <2>2 DEF Booked
  <2>4. DOMAIN c = Mutations /\ c = [m \in Mutations |-> c[m]]
    BY DEF Booked
  <2>5. used' = used /\ tree' = tree
    BY <1>3 DEF tables
  <2>6. used = Size(tree) /\ used + Total(b, Mutations) <= Quota /\ Size(tree) \in Nat /\ Quota \in Nat
    BY TextsAre, WorkspaceAssumption DEF QuotaInv, WorkspaceAssumption
  <2> HIDE DEF b, c
  <2>7. c \in [Mutations -> Nat] /\ \A m \in Mutations : c[m] <= b[m]
    BY <2>1, <2>3, <2>4
  <2>8. Total(c, Mutations) <= Total(b, Mutations) /\ Total(c, Mutations) \in Nat
    BY <2>1, <2>7, RoomAssumption, TotalGrows, UnitsFinite DEF RoomAssumption
  <2>9. used' = Size(tree') /\ used' + Total(c, Mutations) <= Quota
    BY <2>1, <2>5, <2>6, <2>8
  <2> QED BY <2>9 DEF QuotaInv, c
<1> QED BY <1>1, <1>2, <1>3, RowsMove

\* What is open has room beside what is stored: from any number of changes
\* reserved, completed, failed and taken over in any order.
THEOREM QuotaInvariance == WsSpec => []QuotaInv
<1>1. WsTypeOK /\ WsTypeOK' /\ QuotaInv /\ [WsNext]_wsVars => QuotaInv'
  BY QuotaStep
<1> QED BY <1>1, QuotaInitially, WsTypeCorrect, PTL DEF WsSpec

\* The counter is the sum of the texts, and what is reserved still fits.
THEOREM QuotaIsKeptHolds == WsSpec => []QuotaIsKept
<1>1. WsTypeOK /\ QuotaInv => QuotaIsKept
  BY TextsAre, ReservedIs DEF QuotaInv, QuotaIsKept
<1> QED BY <1>1, WsTypeCorrect, QuotaInvariance, PTL
=============================================================================
