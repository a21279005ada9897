----------------------- MODULE SandboxBinding_proofs -----------------------
(***************************************************************************)
(* Proofs about SandboxBinding, for any processes, callers and containers:  *)
(* types, that all agree about every container, and that a candidate is let *)
(* out, or a working sandbox turned away, by a route of the panels only.    *)
(***************************************************************************)
EXTENDS SandboxBinding, TLAPS

Steps == {"idle", "waiting", "peeking", "using"} \cup Locked

-----------------------------------------------------------------------------
(* What the shared pieces of the actions do.                                *)

\* A plan is to give up, to check a cache that fits, to create, to ask about
\* the bound container, or to replace it where it does not fit.
Good(p, x) ==
    /\ x.id \in MaybeBox /\ x.ok \in BOOLEAN
    /\ x.to \in {"idle", "checking", "creating", "querying", "replacing"}
    /\ x.to = "checking" =>
          cached[p] # NoBox /\ cachedFits[p] /\ (x.id # NoBox => cached[p] = x.id)
    /\ x.to = "creating" => x.id = NoBox
    /\ x.to \in {"querying", "replacing"} => x.id = binding /\ binding # NoBox
    /\ x.to = "querying" => fits
    /\ x.to = "replacing" => ~fits

LEMMA ChosenFacts ==
    ASSUME SandboxTypeOK, NEW p \in Processes, NEW id \in MaybeBox, NEW ok \in BOOLEAN
    PROVE  Good(p, Chosen(p, id, ok)) /\ Good(p, Stop)
<1>0. binding \in MaybeBox /\ NoBox \in MaybeBox
  BY DEF SandboxTypeOK, MaybeBox
<1>1. Good(p, Stop)
  BY <1>0 DEF Good, Stop, Plan
<1>2. ASSUME NEW i \in {id, binding}, NEW o \in BOOLEAN, Hit(p, i) \/ i \in {NoBox, binding}
      PROVE  Good(p, PlanFor(p, i, o))
  <2>1. CASE Hit(p, i)
    BY <1>0, <2>1 DEF Good, PlanFor, Plan, Hit
  <2>2. CASE ~Hit(p, i) /\ i = NoBox
    BY <1>0, <1>1, <2>2 DEF Good, PlanFor, Plan
  <2>3. CASE ~Hit(p, i) /\ i # NoBox /\ fits
    BY <1>0, <1>2, <2>3 DEF Good, PlanFor, Plan
  <2>4. CASE ~Hit(p, i) /\ i # NoBox /\ ~fits
    BY <1>0, <1>1, <1>2, <2>4 DEF Good, PlanFor, Plan
  <2> QED BY <2>1, <2>2, <2>3, <2>4
<1>3. Good(p, Chosen(p, id, ok))
  BY <1>0, <1>1, <1>2 DEF Chosen
<1> QED BY <1>1, <1>3

\* The pieces keep the types of what they assign.
CallTypes ==
    /\ stage' \in [Callers -> Steps] /\ need' \in [Callers -> AllNeeds]
    /\ want' \in [Callers -> MaybeBox] /\ may' \in [Callers -> BOOLEAN]
    /\ config' \in [Callers -> BOOLEAN] /\ box' \in [Callers -> MaybeBox]
CacheTypes == cached' \in [Processes -> MaybeBox] /\ cachedFits' \in [Processes -> BOOLEAN]
KeeperType == keeper' \in [Processes -> Callers \cup {NoCaller}]
RowTypes == binding' \in MaybeBox /\ fits' \in BOOLEAN /\ shown' \subseteq Boxes

LEMMA SettledTypes ==
    ASSUME SandboxTypeOK, NEW c \in Callers, NEW step \in Steps, NEW b \in MaybeBox,
           Settled(c, step, b)
    PROVE  CallTypes
  BY DEF SandboxTypeOK, Steps, Settled, CallTypes, AllNeeds, MaybeBox

LEMMA GoesAwayTypes ==
    ASSUME SandboxTypeOK, NEW c \in Callers, GoesAway(c)
    PROVE  CallTypes /\ KeeperType
<1>1. CallTypes
  BY SettledTypes DEF GoesAway, Steps, MaybeBox
<1>2. KeeperType
  BY DEF SandboxTypeOK, GoesAway, KeeperType
<1> QED BY <1>1, <1>2

LEMMA HandTypes ==
    ASSUME SandboxTypeOK, NEW c \in Callers, NEW b \in Boxes, Hand(c, b)
    PROVE  CallTypes /\ KeeperType
<1>1. CASE need[c] = "run"
  <2>1. Settled(c, "renewing", b) /\ keeper' = keeper
    BY <1>1 DEF Hand
  <2>2. CallTypes
    BY <2>1, SettledTypes DEF Steps, MaybeBox, Locked
  <2> QED BY <2>1, <2>2 DEF SandboxTypeOK, KeeperType
<1>2. CASE need[c] # "run"
  BY <1>2, GoesAwayTypes DEF Hand
<1> QED BY <1>1, <1>2

LEMMA ForgetTypes ==
    ASSUME SandboxTypeOK, NEW p \in Processes, Forget(p)
    PROVE  CacheTypes
  BY DEF SandboxTypeOK, Forget, CacheTypes, MaybeBox

LEMMA RememberTypes ==
    ASSUME SandboxTypeOK, NEW p \in Processes, NEW b \in Boxes, NEW v \in BOOLEAN, Remember(p, b, v)
    PROVE  CacheTypes
  BY DEF SandboxTypeOK, Remember, CacheTypes, MaybeBox

LEMMA BindTypes ==
    ASSUME SandboxTypeOK, NEW b \in Boxes, NEW v \in BOOLEAN, Bind(b, v)
    PROVE  RowTypes
  BY DEF SandboxTypeOK, Bind, RowTypes, MaybeBox

LEMMA FollowTypes ==
    ASSUME SandboxTypeOK, NEW c \in Callers, NEW plan, Good(home[c], plan), Follow(c, plan)
    PROVE  CallTypes /\ CacheTypes /\ (plan.to = "idle" => KeeperType)
<1>0. /\ home[c] \in Processes
      /\ plan.id \in MaybeBox /\ plan.ok \in BOOLEAN /\ plan.to \in Steps
  BY DEF SandboxTypeOK, Good, Steps, Locked
<1>1. CASE plan.to = "idle"
  <2>1. GoesAway(c) /\ UNCHANGED service
    BY <1>1 DEF Follow
  <2>2. CacheTypes
    BY <2>1 DEF SandboxTypeOK, CacheTypes, service
  <2> QED BY <2>1, <2>2, GoesAwayTypes
<1>2. CASE plan.to # "idle"
  <2>1. stage' \in [Callers -> Steps] /\ need' \in [Callers -> AllNeeds]
    BY <1>0, <1>2 DEF Follow, SandboxTypeOK, Steps
  <2>2. /\ want' \in [Callers -> MaybeBox] /\ may' \in [Callers -> BOOLEAN]
        /\ config' \in [Callers -> BOOLEAN]
    BY <1>0, <1>2 DEF Follow, SandboxTypeOK
  <2>3. box' \in [Callers -> MaybeBox]
    <3>1. cached[home[c]] \in MaybeBox /\ NoBox \in MaybeBox
      BY <1>0 DEF SandboxTypeOK, MaybeBox
    <3> QED BY <3>1, <1>2 DEF Follow, SandboxTypeOK
  <2>4. CacheTypes
    BY <1>0, <1>2, ForgetTypes DEF Follow, SandboxTypeOK, CacheTypes, service
  <2> QED BY <2>1, <2>2, <2>3, <2>4, <1>2 DEF CallTypes
<1> QED BY <1>1, <1>2

LEMMA DiscardTypes ==
    ASSUME SandboxTypeOK, NEW c \in Callers, NEW b \in MaybeBox, NEW w \in MaybeBox, Discard(c, b, w)
    PROVE  CallTypes /\ KeeperType
  BY DEF SandboxTypeOK, Discard, CallTypes, KeeperType, Steps, Locked

LEMMA ServeTypes ==
    ASSUME SandboxTypeOK, NEW c \in Callers, NEW b \in Boxes, NEW v \in BOOLEAN, Serve(c, b, v)
    PROVE  CallTypes /\ KeeperType /\ RowTypes
<1>1. CallTypes /\ KeeperType
  BY HandTypes DEF Serve
<1>2. RowTypes
  BY BindTypes DEF Serve, SandboxTypeOK, RowTypes, row
<1> QED BY <1>1, <1>2

LEMMA BindOrYieldTypes ==
    ASSUME SandboxTypeOK, NEW c \in Callers, NEW b \in Boxes, NEW v \in BOOLEAN, BindOrYield(c, b, v)
    PROVE  CallTypes /\ KeeperType /\ RowTypes /\ CacheTypes
<1>0. home[c] \in Processes /\ b \in MaybeBox /\ binding \in MaybeBox
  BY DEF SandboxTypeOK, MaybeBox
<1>1. CASE need[c] = "panel"
  BY <1>0, <1>1, ServeTypes, RememberTypes DEF BindOrYield
<1>2. CASE need[c] # "panel" /\ binding \in {NoBox, b}
  BY <1>0, <1>2, HandTypes, BindTypes, RememberTypes DEF BindOrYield
<1>3. CASE need[c] # "panel" /\ binding \notin {NoBox, b}
  BY <1>0, <1>3, DiscardTypes, ForgetTypes DEF BindOrYield, SandboxTypeOK, RowTypes, row
<1> QED BY <1>1, <1>2, <1>3

LEMMA SwapTypes ==
    ASSUME SandboxTypeOK, NEW c \in Callers, NEW b \in Boxes, Swap(c, b)
    PROVE  CallTypes /\ KeeperType /\ RowTypes /\ CacheTypes
<1>0. home[c] \in Processes /\ b \in MaybeBox /\ binding \in MaybeBox /\ config[c] \in BOOLEAN
  BY DEF SandboxTypeOK, MaybeBox
<1>1. CASE binding = want[c]
  BY <1>0, <1>1, HandTypes, BindTypes, RememberTypes DEF Swap
<1>2. CASE binding # want[c]
  BY <1>0, <1>2, DiscardTypes DEF Swap, SandboxTypeOK, RowTypes, CacheTypes, row, service
<1> QED BY <1>1, <1>2

LEMMA TypeParts ==
    ASSUME CallTypes, CacheTypes, KeeperType, RowTypes,
           life' \in [Boxes -> {"none", "running", "paused", "gone"}],
           home' \in [Callers -> Processes], switching' \in BOOLEAN
    PROVE  SandboxTypeOK'
  BY DEF SandboxTypeOK, CallTypes, CacheTypes, KeeperType, RowTypes, Steps, Locked, MaybeBox

-----------------------------------------------------------------------------
(* Types.                                                                   *)

TypeInv == SandboxTypeOK /\ HandsAreFull

LEMMA EnsuresTypes ==
    ASSUME TypeInv, NEW c \in Callers, Ensures(c)
    PROVE  SandboxTypeOK'
<1> USE DEF TypeInv
<1>0. /\ home[c] \in Processes /\ box[c] \in MaybeBox /\ want[c] \in MaybeBox
      /\ binding \in MaybeBox /\ cached[home[c]] \in MaybeBox /\ config[c] \in BOOLEAN
      /\ may[c] \in BOOLEAN /\ cachedFits[home[c]] \in BOOLEAN /\ NoBox \in MaybeBox
  BY DEF SandboxTypeOK, MaybeBox
<1>1. ASSUME NEW why \in Needs, Ask(c, why) PROVE SandboxTypeOK'
  <2>1. why \in AllNeeds
    BY SandboxAssumption
  <2> QED BY <1>0, <1>1, <2>1 DEF Ask, SandboxTypeOK, row, service
<1>2. CASE Peek(c)
  BY <1>0, <1>2 DEF Peek, SandboxTypeOK, row, service
<1>3. CASE Distrust(c)
  <2>1. CacheTypes
    BY <1>0, <1>3, ForgetTypes DEF Distrust
  <2> QED BY <2>1, <1>3 DEF Distrust, CacheTypes, SandboxTypeOK, row, call
<1>4. CASE Peeked(c)
  <2>1. PICK healthy \in BOOLEAN :
           IF healthy /\ cached[home[c]] = box[c]
           THEN GoesAway(c) /\ UNCHANGED service
           ELSE /\ stage' = [stage EXCEPT ![c] = "waiting"]
                /\ box' = [box EXCEPT ![c] = NoBox]
                /\ IF cached[home[c]] = box[c] THEN Forget(home[c]) ELSE UNCHANGED service
                /\ UNCHANGED <<keeper, need, want, may, config>>
    BY <1>4 DEF Peeked
  <2>2. CacheTypes
    BY <1>0, <2>1, ForgetTypes DEF SandboxTypeOK, CacheTypes, service
  <2>3. CallTypes /\ KeeperType
    <3>1. CASE healthy /\ cached[home[c]] = box[c]
      BY <2>1, <3>1, GoesAwayTypes
    <3>2. CASE ~(healthy /\ cached[home[c]] = box[c])
      BY <1>0, <2>1, <3>2 DEF SandboxTypeOK, CallTypes, KeeperType, Steps
    <3> QED BY <3>1, <3>2
  <2>4. RowTypes /\ UNCHANGED <<life, home, switching>>
    BY <1>4 DEF Peeked, SandboxTypeOK, RowTypes, row
  <2> QED BY <2>2, <2>3, <2>4, TypeParts DEF SandboxTypeOK
<1>5. CASE Enter(c)
  <2> DEFINE id == IF need[c] = "run" THEN binding ELSE want[c]
             plan == Chosen(home[c], id, may[c])
  <2>1. Good(home[c], plan)
    BY <1>0, ChosenFacts
  <2>2. /\ RowTypes /\ UNCHANGED <<life, home, switching>>
        /\ IF plan.to = "idle" THEN GoesAway(c) /\ UNCHANGED service
           ELSE Follow(c, plan) /\ keeper' = [keeper EXCEPT ![home[c]] = c]
    BY <1>5 DEF Enter, SandboxTypeOK, RowTypes, row
  <2> HIDE DEF plan
  <2>3. CASE plan.to = "idle"
    <3>1. CacheTypes
      BY <2>2, <2>3 DEF SandboxTypeOK, CacheTypes, service
    <3> QED BY <2>2, <2>3, <3>1, GoesAwayTypes, TypeParts DEF SandboxTypeOK
  <2>4. CASE plan.to # "idle"
    <3>1. CallTypes /\ CacheTypes
      BY <2>1, <2>2, <2>4, FollowTypes
    <3>2. KeeperType
      BY <1>0, <2>2, <2>4 DEF SandboxTypeOK, KeeperType
    <3> QED BY <2>2, <3>1, <3>2, TypeParts DEF SandboxTypeOK
  <2> QED BY <2>3, <2>4
<1>6. CASE Checked(c)
  <2>0. box[c] \in Boxes
    BY <1>0, <1>6 DEF Checked, HandsAreFull, MaybeBox
  <2>1. UNCHANGED <<life, home, switching>>
    BY <1>6 DEF Checked
  <2>2. CallTypes /\ CacheTypes /\ KeeperType /\ RowTypes
    <3>1. PICK healthy \in BOOLEAN :
             IF healthy /\ cached[home[c]] = box[c]
             THEN IF want[c] = NoBox THEN BindOrYield(c, box[c], cachedFits[home[c]])
                  ELSE Serve(c, box[c], cachedFits[home[c]]) /\ UNCHANGED service
             ELSE /\ IF Onwards(c).to = "idle" THEN GoesAway(c)
                     ELSE /\ stage' = [stage EXCEPT ![c] = Onwards(c).to]
                          /\ box' = [box EXCEPT ![c] = NoBox]
                          /\ UNCHANGED <<need, want, may, config, keeper>>
                  /\ IF cached[home[c]] = box[c] THEN Forget(home[c]) ELSE UNCHANGED service
                  /\ UNCHANGED row
      BY <1>6 DEF Checked
    <3>2. CASE healthy /\ cached[home[c]] = box[c] /\ want[c] = NoBox
      BY <1>0, <2>0, <3>1, <3>2, BindOrYieldTypes
    <3>3. CASE healthy /\ cached[home[c]] = box[c] /\ want[c] # NoBox
      BY <1>0, <2>0, <3>1, <3>3, ServeTypes DEF SandboxTypeOK, CacheTypes, service
    <3>4. CASE ~(healthy /\ cached[home[c]] = box[c])
      <4>1. CacheTypes /\ RowTypes
        BY <1>0, <3>1, <3>4, ForgetTypes DEF SandboxTypeOK, CacheTypes, RowTypes, service, row
      <4>2. CASE Onwards(c).to = "idle"
        BY <3>1, <3>4, <4>1, <4>2, GoesAwayTypes
      <4>3. CASE Onwards(c).to # "idle"
        <5>1. Onwards(c).to \in Steps
          BY DEF Onwards, Plan, Stop, Steps, Locked
        <5> QED BY <1>0, <3>1, <3>4, <4>1, <4>3, <5>1 DEF SandboxTypeOK, CallTypes, KeeperType, Steps
      <4> QED BY <4>2, <4>3
    <3> QED BY <3>2, <3>3, <3>4
  <2> QED BY <2>1, <2>2, TypeParts DEF SandboxTypeOK
<1>7. CASE Queried(c)
  <2>1. RowTypes /\ CacheTypes /\ UNCHANGED <<life, home, switching>>
    BY <1>7 DEF Queried, SandboxTypeOK, RowTypes, CacheTypes, row, service
  <2>2. CallTypes /\ KeeperType
    <3> DEFINE to == CASE life[want[c]] = "running" -> "connecting"
                       [] life[want[c]] = "paused" -> "resuming"
                       [] OTHER -> IF may[c] THEN "replacing" ELSE "idle"
    <3>1. to \in Steps
      BY DEF Steps, Locked
    <3>2. IF to = "idle" THEN GoesAway(c)
          ELSE stage' = [stage EXCEPT ![c] = to] /\ UNCHANGED <<need, want, may, config, box, keeper>>
      BY <1>7 DEF Queried
    <3> HIDE DEF to
    <3>3. CASE to = "idle"
      BY <3>2, <3>3, GoesAwayTypes
    <3>4. CASE to # "idle"
      BY <1>0, <3>1, <3>2, <3>4 DEF SandboxTypeOK, CallTypes, KeeperType, Steps
    <3> QED BY <3>3, <3>4
  <2> QED BY <2>1, <2>2, TypeParts DEF SandboxTypeOK
<1>8. CASE Connected(c)
  <2>0. want[c] \in Boxes
    BY <1>0, <1>8 DEF Connected, HandsAreFull, MaybeBox
  <2>1. CacheTypes /\ CallTypes /\ KeeperType /\ RowTypes
    BY <1>0, <1>8, <2>0, RememberTypes, ServeTypes DEF Connected
  <2>2. /\ life' \in [Boxes -> {"none", "running", "paused", "gone"}]
        /\ UNCHANGED <<home, switching>>
    BY <1>8, <2>0 DEF Connected, SandboxTypeOK
  <2> QED BY <2>1, <2>2, TypeParts DEF SandboxTypeOK
<1>9. CASE Created(c)
  <2>1. PICK b \in Boxes : life' = [life EXCEPT ![b] = "running"] /\ BindOrYield(c, b, config[c])
    BY <1>9 DEF Created
  <2>2. UNCHANGED <<home, switching>>
    BY <1>9 DEF Created
  <2>3. life' \in [Boxes -> {"none", "running", "paused", "gone"}]
    BY <2>1 DEF SandboxTypeOK
  <2> QED BY <1>0, <2>1, <2>2, <2>3, BindOrYieldTypes, TypeParts DEF SandboxTypeOK
<1>10. CASE Replaced(c)
  <2>1. PICK b \in Boxes : life' = [life EXCEPT ![b] = "running"] /\ Swap(c, b)
    BY <1>10 DEF Replaced
  <2>2. UNCHANGED <<home, switching>>
    BY <1>10 DEF Replaced
  <2>3. life' \in [Boxes -> {"none", "running", "paused", "gone"}]
    BY <2>1 DEF SandboxTypeOK
  <2> QED BY <2>1, <2>2, <2>3, SwapTypes, TypeParts DEF SandboxTypeOK
<1>11. CASE BindFails(c)
  <2>1. PICK b \in Boxes : life' = [life EXCEPT ![b] = "running"] /\ Discard(c, b, NoBox)
    BY <1>11 DEF BindFails
  <2>2. CallTypes /\ KeeperType
    BY <1>0, <2>1, DiscardTypes DEF MaybeBox
  <2>3. CacheTypes /\ RowTypes /\ UNCHANGED <<home, switching>>
    BY <1>0, <1>11, ForgetTypes DEF BindFails, SandboxTypeOK, CacheTypes, RowTypes, row, service
  <2>4. life' \in [Boxes -> {"none", "running", "paused", "gone"}]
    BY <2>1 DEF SandboxTypeOK
  <2> QED BY <2>2, <2>3, <2>4, TypeParts DEF SandboxTypeOK
<1>12. CASE Discarded(c)
  <2> DEFINE plan == IF want[c] = NoBox THEN Stop ELSE Chosen(home[c], want[c], FALSE)
  <2>1. Good(home[c], plan)
    BY <1>0, ChosenFacts
  <2>2. Follow(c, plan) /\ (stage'[c] # "idle" => UNCHANGED keeper)
    BY <1>12 DEF Discarded
  <2>3. RowTypes /\ UNCHANGED <<home, switching>>
    BY <1>12 DEF Discarded, SandboxTypeOK, RowTypes, row
  <2>4. life' \in [Boxes -> {"none", "running", "paused", "gone"}]
    BY <1>12 DEF Discarded, SandboxTypeOK
  <2> HIDE DEF plan
  <2>5. CallTypes /\ CacheTypes /\ (plan.to = "idle" => KeeperType)
    BY <2>1, <2>2, FollowTypes
  <2>6. KeeperType
    <3>1. CASE plan.to # "idle"
      BY <2>2, <3>1 DEF Follow, SandboxTypeOK, KeeperType
    <3> QED BY <2>5, <3>1
  <2> QED BY <2>3, <2>4, <2>5, <2>6, TypeParts DEF SandboxTypeOK
<1>13. CASE Renewed(c)
  <2>1. RowTypes /\ CacheTypes /\ UNCHANGED <<life, home, switching>>
    BY <1>13 DEF Renewed, SandboxTypeOK, RowTypes, CacheTypes, row, service
  <2>2. CallTypes /\ KeeperType
    <3>1. CASE Settled(c, "using", box[c]) /\ Unlock(c)
      <4>1. CallTypes
        BY <1>0, <3>1, SettledTypes DEF Steps
      <4> QED BY <1>0, <3>1, <4>1 DEF Unlock, SandboxTypeOK, KeeperType
    <3>2. CASE GoesAway(c)
      BY <3>2, GoesAwayTypes
    <3> QED BY <1>13, <3>1, <3>2 DEF Renewed
  <2> QED BY <2>1, <2>2, TypeParts DEF SandboxTypeOK
<1>14. CASE Leaves(c)
  <2>1. RowTypes /\ CacheTypes /\ UNCHANGED <<life, home, switching>>
    BY <1>14 DEF Leaves, SandboxTypeOK, RowTypes, CacheTypes, row, service
  <2> QED BY <1>14, <2>1, GoesAwayTypes, TypeParts DEF Leaves, SandboxTypeOK
<1> QED
  BY <1>1, <1>2, <1>3, <1>4, <1>5, <1>6, <1>7, <1>8, <1>9, <1>10, <1>11, <1>12, <1>13, <1>14
     DEF Ensures

LEMMA AroundTypes ==
    ASSUME SandboxTypeOK,
           \/ \E p \in Processes : Restart(p) \/ Pause(p) \/ SwitchBegins(p)
           \/ \E b \in Boxes : PauseLands(b) \/ Expires(b)
           \/ ProfileChanges \/ SwitchEnds
    PROVE  SandboxTypeOK'
<1>1. ASSUME NEW p \in Processes, Restart(p) \/ Pause(p) PROVE SandboxTypeOK'
  <2>1. CacheTypes
    BY <1>1, ForgetTypes DEF Restart, Pause
  <2> QED BY <1>1, <2>1 DEF Restart, Pause, CacheTypes, SandboxTypeOK, row, call
<1>2. ASSUME NEW p \in Processes, SwitchBegins(p) PROVE SandboxTypeOK'
  <2>1. CacheTypes
    BY <1>2, ForgetTypes DEF SwitchBegins
  <2>2. life' \in [Boxes -> {"none", "running", "paused", "gone"}]
    BY <1>2 DEF SwitchBegins, SandboxTypeOK
  <2> QED BY <1>2, <2>1, <2>2 DEF SwitchBegins, CacheTypes, SandboxTypeOK, row, call
<1>3. ASSUME NEW b \in Boxes, PauseLands(b) \/ Expires(b) PROVE SandboxTypeOK'
  BY <1>3 DEF PauseLands, Expires, SandboxTypeOK, row, service, call
<1>4. CASE ProfileChanges
  BY <1>4 DEF ProfileChanges, NewProfile, SandboxTypeOK
<1>5. CASE SwitchEnds
  BY <1>5 DEF SwitchEnds, NewProfile, SandboxTypeOK, MaybeBox
<1> QED BY <1>1, <1>2, <1>3, <1>4, <1>5

-----------------------------------------------------------------------------
(* The invariant.  A step is quiet when whatever is held of a container     *)
(* after it was held of it before, by somebody: the row, a cache, a caller. *)

Backs(b, v) == IF v THEN HeldFit(b) ELSE HeldUnfit(b)

\* The caller after a step asks for nothing nobody held.
Told(c) ==
    /\ want'[c] \in Made \cup {NoBox}
    /\ box'[c] \in Made \cup Made' \cup {NoBox}
    /\ stage'[c] \in {"checking", "peeking"} => box'[c] # NoBox
    /\ stage'[c] \in {"querying", "connecting", "resuming", "replacing"} => want'[c] # NoBox
    /\ stage'[c] \in Reaching /\ want'[c] # NoBox => Backs(want'[c], config'[c])
    /\ stage'[c] = "replacing" => life[want'[c]] = "gone" \/ ~HeldFit(want'[c])

CacheBacked == \A p \in Processes : cached'[p] = NoBox \/ Backs(cached'[p], cachedFits'[p])
RowBacked ==
    /\ binding' = NoBox \/ Backs(binding', fits')
    /\ shown' = shown \cup ({binding'} \ {NoBox})
LifeGoesOn ==
    \A b \in Boxes :
        (life[b] = "gone" => life'[b] = "gone") /\ (life[b] # "none" => life'[b] # "none")

\* The caller is as it was.
Same(d) ==
    /\ need'[d] = need[d] /\ stage'[d] = stage[d] /\ want'[d] = want[d]
    /\ config'[d] = config[d] /\ box'[d] = box[d]

LEMMA BackedMade ==
    ASSUME SandboxInv, NEW b \in Boxes, NEW v, Backs(b, v)
    PROVE  b \in Made
<1>1. b # NoBox
  BY SandboxAssumption
<1> QED BY <1>1 DEF SandboxInv, Backs, HeldFit, HeldUnfit, Asks, BoundIsShown, NamedIsMade

LEMMA MadeLasts ==
    ASSUME LifeGoesOn PROVE Made \subseteq Made'
  BY DEF LifeGoesOn, Made

LEMMA QuietStep ==
    ASSUME SandboxInv, SandboxTypeOK', \A d \in Callers : Told(d),
           CacheBacked, RowBacked, LifeGoesOn
    PROVE  SandboxInv'
<1>1. HandsAreFull'
  BY DEF Told, HandsAreFull
<1>2. BoundIsShown'
  BY DEF RowBacked, BoundIsShown
<1>3. NamedIsMade'
  <2>0. Made \subseteq Made'
    BY MadeLasts
  <2>1. \A p \in Processes : cached'[p] \in Made \cup {NoBox}
    BY BackedMade DEF CacheBacked, SandboxTypeOK, MaybeBox
  <2>2. binding' \in Made \cup {NoBox}
    BY BackedMade DEF RowBacked, SandboxTypeOK, MaybeBox
  <2>3. shown' \subseteq Made
    BY <2>2 DEF RowBacked, SandboxInv, NamedIsMade
  <2> QED BY <2>0, <2>1, <2>3 DEF Told, NamedIsMade
<1>4. ASSUME NEW b \in Boxes PROVE (HeldFit(b)' => HeldFit(b)) /\ (HeldUnfit(b)' => HeldUnfit(b))
  <2>1. b # NoBox
    BY SandboxAssumption
  <2>2. ASSUME NEW p \in Processes, cached'[p] = b PROVE Backs(b, cachedFits'[p])
    BY <2>1, <2>2 DEF CacheBacked
  <2>3. ASSUME NEW d \in Callers, Asks(d, b)' PROVE Backs(b, config'[d])
    BY <2>1, <2>3 DEF Told, Asks
  <2>4. binding' = b => Backs(b, fits')
    BY <2>1 DEF RowBacked
  <2> QED BY <2>2, <2>3, <2>4 DEF HeldFit, HeldUnfit, Backs
<1>5. Agreement'
  BY <1>4 DEF SandboxInv, Agreement
<1>6. CauseLasts'
  <2> SUFFICES ASSUME NEW d \in Callers, stage'[d] = "replacing"
               PROVE  life'[want'[d]] = "gone" \/ ~HeldFit(want[d])'
    BY DEF CauseLasts
  <2>1. want'[d] \in Boxes /\ (life[want'[d]] = "gone" \/ ~HeldFit(want'[d]))
    BY DEF Told, SandboxTypeOK, MaybeBox
  <2>2. CASE life[want'[d]] = "gone"
    BY <2>1, <2>2 DEF LifeGoesOn
  <2>3. CASE ~HeldFit(want'[d])
    <3>1. PICK b \in Boxes : b = want'[d]
      BY <2>1
    <3>2. HeldFit(b)' => HeldFit(b)
      BY <1>4
    <3>3. ~HeldFit(b)'
      BY <2>3, <3>1, <3>2
    <3> QED BY <3>1, <3>3 DEF HeldFit, Asks
  <2> QED BY <2>1, <2>2, <2>3
<1> QED BY <1>1, <1>2, <1>3, <1>5, <1>6 DEF SandboxInv

\* Whoever is left alone asks for what he asked for.
LEMMA SameTold ==
    ASSUME SandboxInv, NEW d \in Callers, Same(d)
    PROVE  Told(d)
<1>1. SandboxTypeOK /\ HandsAreFull /\ NamedIsMade /\ CauseLasts
  BY DEF SandboxInv
<1>2. want[d] \in Made \cup {NoBox} /\ box[d] \in Made \cup {NoBox}
  BY <1>1 DEF NamedIsMade
<1>3. stage[d] \in Reaching /\ want[d] # NoBox => Backs(want[d], config[d])
  BY DEF Backs, HeldFit, HeldUnfit, Asks
<1> QED BY <1>1, <1>2, <1>3 DEF Same, Told, HandsAreFull, CauseLasts

LEMMA SettledTold ==
    ASSUME SandboxInv, NEW c \in Callers, NEW step \in {"idle", "renewing", "using"},
           NEW b \in Made \cup Made' \cup {NoBox}, Settled(c, step, b)
    PROVE  Told(c)
<1>1. stage'[c] = step /\ box'[c] = b /\ want'[c] = NoBox
  BY DEF SandboxInv, SandboxTypeOK, Settled
<1> QED BY <1>1 DEF Told, Reaching

LEMMA GoesAwayTold ==
    ASSUME SandboxInv, NEW c \in Callers, GoesAway(c)
    PROVE  Told(c)
  BY SettledTold DEF GoesAway

LEMMA HandTold ==
    ASSUME SandboxInv, NEW c \in Callers, NEW b \in Made \cup Made', Hand(c, b)
    PROVE  Told(c)
  BY SettledTold, GoesAwayTold DEF Hand

LEMMA FollowTold ==
    ASSUME SandboxInv, NEW c \in Callers, NEW plan, Good(home[c], plan), Follow(c, plan)
    PROVE  Told(c)
<1>0. SandboxTypeOK /\ NamedIsMade /\ BoundIsShown /\ Agreement
  BY DEF SandboxInv
<1>1. CASE plan.to = "idle"
  BY <1>1, GoesAwayTold DEF Follow
<1>2. CASE plan.to # "idle"
  <2>1. /\ stage'[c] = plan.to /\ want'[c] = plan.id /\ config'[c] = TRUE
        /\ box'[c] = IF plan.to = "checking" THEN cached[home[c]] ELSE NoBox
    BY <1>0, <1>2 DEF Follow, SandboxTypeOK
  <2>2. home[c] \in Processes /\ binding \in Made \cup {NoBox} /\ cached[home[c]] \in Made \cup {NoBox}
    BY <1>0 DEF SandboxTypeOK, BoundIsShown, NamedIsMade
  <2>3. plan.id \in {NoBox, binding, cached[home[c]]}
    BY <1>2 DEF Good
  <2>4. plan.to \in {"checking", "querying"} /\ plan.id # NoBox => Backs(plan.id, TRUE)
    BY <2>2 DEF Good, Backs, HeldFit
  <2>5. plan.to = "replacing" => ~HeldFit(plan.id)
    <3>1. plan.to = "replacing" => plan.id \in Boxes /\ HeldUnfit(plan.id)
      BY <1>0, <2>2 DEF Good, HeldUnfit, SandboxTypeOK, MaybeBox
    <3> QED BY <1>0, <3>1 DEF Agreement
  <2> QED BY <1>2, <2>1, <2>2, <2>3, <2>4, <2>5 DEF Told, Good, Reaching
<1> QED BY <1>1, <1>2

LEMMA DiscardTold ==
    ASSUME SandboxInv, NEW c \in Callers, NEW b \in Made \cup Made', NEW w \in Made \cup {NoBox}, Discard(c, b, w)
    PROVE  Told(c)
<1>1. stage'[c] = "losing" /\ want'[c] = w /\ box'[c] = b
  BY DEF SandboxInv, SandboxTypeOK, Discard
<1> QED BY <1>1 DEF Told, Reaching

\* What the row and the caches hold is backed by what they held.
LEMMA CacheStays ==
    ASSUME UNCHANGED service
    PROVE  CacheBacked
  BY DEF service, CacheBacked, Backs, HeldFit, HeldUnfit

LEMMA CacheForgets ==
    ASSUME SandboxInv, NEW p \in Processes, Forget(p)
    PROVE  CacheBacked
  BY DEF SandboxInv, SandboxTypeOK, Forget, CacheBacked, Backs, HeldFit, HeldUnfit

LEMMA CacheRemembers ==
    ASSUME SandboxInv, NEW p \in Processes, NEW b, NEW v, Backs(b, v), Remember(p, b, v)
    PROVE  CacheBacked
<1> SUFFICES ASSUME NEW q \in Processes PROVE cached'[q] = NoBox \/ Backs(cached'[q], cachedFits'[q])
  BY DEF CacheBacked
<1>1. CASE q = p
  BY <1>1 DEF SandboxInv, SandboxTypeOK, Remember
<1>2. CASE q # p
  BY <1>2 DEF SandboxInv, SandboxTypeOK, Remember, Backs, HeldFit, HeldUnfit
<1> QED BY <1>1, <1>2

LEMMA RowStays ==
    ASSUME SandboxInv, UNCHANGED row
    PROVE  RowBacked
  BY DEF row, RowBacked, Backs, HeldFit, HeldUnfit, SandboxInv, BoundIsShown

LEMMA RowBinds ==
    ASSUME SandboxInv, NEW b \in Boxes, NEW v, Backs(b, v), Bind(b, v)
    PROVE  RowBacked
  BY SandboxAssumption DEF Bind, RowBacked

\* What is served is not new: a panel may write what was held of it.
LEMMA ServeBacked ==
    ASSUME SandboxInv, NEW c \in Callers, NEW b \in Boxes, NEW v, Backs(b, v), Serve(c, b, v)
    PROVE  Told(c) /\ RowBacked
<1>1. b \in Made
  BY BackedMade
<1> QED BY <1>1, HandTold, RowStays, RowBinds DEF Serve

LEMMA LifeStays ==
    ASSUME life' = life
    PROVE  LifeGoesOn
  BY DEF LifeGoesOn

LEMMA LifeMoves ==
    ASSUME SandboxInv, NEW b, NEW s \in {"running", "paused", "gone"},
           life[b] # "gone" \/ s = "gone", life' = [life EXCEPT ![b] = s]
    PROVE  LifeGoesOn
  BY DEF SandboxInv, SandboxTypeOK, LifeGoesOn

\* The callers but one are left alone.
OthersSame(c) == \A d \in Callers : d # c => Same(d)

LEMMA EnsuresOthers ==
    ASSUME SandboxTypeOK, NEW c \in Callers, Ensures(c)
    PROVE  OthersSame(c)
<1> SUFFICES ASSUME NEW d \in Callers, d # c PROVE Same(d)
  BY DEF OthersSame
<1>0. /\ need \in [Callers -> AllNeeds] /\ stage \in [Callers -> Steps]
      /\ want \in [Callers -> MaybeBox] /\ config \in [Callers -> BOOLEAN] /\ box \in [Callers -> MaybeBox]
  BY DEF SandboxTypeOK, Steps
<1>1. ASSUME NEW step, NEW b, Settled(c, step, b) PROVE Same(d)
  BY <1>0, <1>1 DEF Settled, Same
<1>2. GoesAway(c) => Same(d)
  BY <1>1 DEF GoesAway
<1>3. ASSUME NEW b, Hand(c, b) PROVE Same(d)
  BY <1>1, <1>2, <1>3 DEF Hand
<1>4. ASSUME NEW plan, Follow(c, plan) PROVE Same(d)
  BY <1>0, <1>2, <1>4 DEF Follow, Same
<1>5. ASSUME NEW b, NEW w, Discard(c, b, w) PROVE Same(d)
  BY <1>0, <1>5 DEF Discard, Same
<1>6. ASSUME NEW why \in Needs, Ask(c, why) PROVE Same(d)
  BY <1>0, <1>6 DEF Ask, Same
<1>7. CASE Peek(c) \/ Distrust(c)
  BY <1>0, <1>7 DEF Peek, Distrust, Same, call
<1>8. CASE Peeked(c)
  BY <1>0, <1>2, <1>8 DEF Peeked, Same
<1>9. CASE Enter(c)
  BY <1>2, <1>4, <1>9 DEF Enter
<1>10. ASSUME NEW b, NEW v, BindOrYield(c, b, v) PROVE Same(d)
  BY <1>3, <1>5, <1>10 DEF BindOrYield, Serve
<1>11. CASE Checked(c)
  BY <1>0, <1>2, <1>3, <1>10, <1>11 DEF Checked, Serve, Same
<1>12. CASE Queried(c)
  BY <1>0, <1>2, <1>12 DEF Queried, Same
<1>13. CASE Connected(c)
  BY <1>3, <1>13 DEF Connected, Serve
<1>14. CASE Created(c)
  BY <1>10, <1>14 DEF Created
<1>15. CASE Replaced(c)
  BY <1>3, <1>5, <1>15 DEF Replaced, Swap
<1>16. CASE BindFails(c)
  BY <1>5, <1>16 DEF BindFails
<1>17. CASE Discarded(c)
  BY <1>4, <1>17 DEF Discarded
<1>18. CASE Renewed(c) \/ Leaves(c)
  BY <1>1, <1>2, <1>18 DEF Renewed, Leaves
<1> QED
  BY <1>6, <1>7, <1>8, <1>9, <1>11, <1>12, <1>13, <1>14, <1>15, <1>16, <1>17, <1>18 DEF Ensures

\* A caller's step that binds nothing new is quiet.
LEMMA QuietCall ==
    ASSUME SandboxInv, SandboxTypeOK', NEW c \in Callers, OthersSame(c), Told(c),
           CacheBacked, RowBacked, LifeGoesOn
    PROVE  SandboxInv'
<1>1. \A d \in Callers : Told(d)
  BY SameTold DEF OthersSame
<1> QED BY <1>1, QuietStep

\* A new container is handed out, and bound unless a panel cannot: nobody held
\* anything of it.
LEMMA FreshStep ==
    ASSUME SandboxInv, SandboxTypeOK', NEW c \in Callers, NEW b \in Boxes, NEW v \in BOOLEAN,
           life[b] = "none", life' = [life EXCEPT ![b] = "running"],
           Bind(b, v) \/ UNCHANGED row, Remember(home[c], b, v), Hand(c, b), OthersSame(c)
    PROVE  SandboxInv'
<1>0. SandboxTypeOK /\ BoundIsShown /\ NamedIsMade /\ Agreement /\ CauseLasts
  BY DEF SandboxInv
<1>1. b \notin Made /\ b # NoBox /\ home[c] \in Processes /\ Made \subseteq Made' /\ b \in Made'
  BY <1>0, SandboxAssumption DEF Made, SandboxTypeOK
<1>2. stage'[c] \in {"idle", "renewing"} /\ want'[c] = NoBox /\ box'[c] \in {b, NoBox}
  BY <1>0 DEF Hand, GoesAway, Settled, SandboxTypeOK
<1>3. \A d \in Callers : d # c => Same(d) /\ Told(d)
  BY SameTold DEF OthersSame
<1>4. HandsAreFull'
  BY <1>0, <1>2, <1>3 DEF HandsAreFull, Told
<1>5. BoundIsShown'
  BY <1>0 DEF Bind, BoundIsShown, row
<1>6. NamedIsMade'
  <2>1. shown' \subseteq Made'
    BY <1>0, <1>1 DEF Bind, row, NamedIsMade
  <2>2. \A p \in Processes : cached'[p] \in {b, cached[p]}
    BY <1>0 DEF Remember, SandboxTypeOK
  <2> QED BY <1>0, <1>1, <1>2, <1>3, <2>1, <2>2 DEF NamedIsMade, Told
<1>7. ASSUME NEW a \in Boxes PROVE ~(HeldFit(a)' /\ HeldUnfit(a)') /\ (a # b /\ HeldFit(a)' => HeldFit(a))
  <2>1. \A p \in Processes : p # home[c] => cached'[p] = cached[p] /\ cachedFits'[p] = cachedFits[p]
    BY <1>0 DEF Remember, SandboxTypeOK
  <2>2. cached'[home[c]] = b /\ cachedFits'[home[c]] = v
    BY <1>0, <1>1 DEF Remember, SandboxTypeOK
  <2>3. \A d \in Callers : Asks(d, a)' => d # c /\ Asks(d, a) /\ config'[d] = config[d]
    BY <1>2, <1>3 DEF Asks, Same, Reaching
  <2>r. (binding' = b /\ fits' = v) \/ (binding' = binding /\ fits' = fits)
    BY DEF Bind, row
  <2>s. binding # b
    BY <1>0, <1>1 DEF BoundIsShown, NamedIsMade
  <2>4. CASE a = b
    <3>1. ~\E p \in Processes : cached[p] = b
      BY <1>0, <1>1 DEF NamedIsMade
    <3>2. ~\E d \in Callers : Asks(d, b)
      BY <1>0, <1>1 DEF NamedIsMade, Asks
    <3>3. (HeldFit(a)' => v) /\ (HeldUnfit(a)' => ~v)
      BY <2>1, <2>2, <2>3, <2>4, <2>r, <2>s, <3>1, <3>2 DEF HeldFit, HeldUnfit
    <3> QED BY <2>4, <3>3
  <2>5. CASE a # b
    <3>1. (HeldFit(a)' => HeldFit(a)) /\ (HeldUnfit(a)' => HeldUnfit(a))
      BY <2>1, <2>2, <2>3, <2>5, <2>r DEF HeldFit, HeldUnfit
    <3> QED BY <1>0, <3>1 DEF Agreement
  <2> QED BY <2>4, <2>5
<1>8. Agreement'
  BY <1>7 DEF Agreement
<1>9. CauseLasts'
  <2> SUFFICES ASSUME NEW d \in Callers, stage'[d] = "replacing"
               PROVE  life'[want'[d]] = "gone" \/ ~HeldFit(want[d])'
    BY DEF CauseLasts
  <2>1. /\ d # c /\ want'[d] = want[d]
        /\ want[d] \in Made /\ (life[want[d]] = "gone" \/ ~HeldFit(want[d]))
    BY <1>2, <1>3 DEF Same, Told
  <2>2. PICK a \in Boxes : a = want[d]
    BY <2>1 DEF Made
  <2>3. a # b
    BY <2>1, <2>2, <1>1
  <2>4. CASE life[a] = "gone"
    BY <1>0, <2>1, <2>2, <2>3, <2>4 DEF SandboxTypeOK
  <2>5. CASE ~HeldFit(a)
    <3>1. ~HeldFit(a)'
      BY <1>7, <2>3, <2>5
    <3> QED BY <2>1, <2>2, <3>1 DEF HeldFit, Asks
  <2> QED BY <2>1, <2>2, <2>4, <2>5
<1> QED BY <1>4, <1>5, <1>6, <1>8, <1>9 DEF SandboxInv

LEMMA BindOrYieldInv ==
    ASSUME SandboxInv, SandboxTypeOK', NEW c \in Callers, OthersSame(c), LifeGoesOn,
           NEW b \in Boxes, NEW v \in BOOLEAN, BindOrYield(c, b, v),
           \/ Backs(b, v)
           \/ life[b] = "none" /\ life' = [life EXCEPT ![b] = "running"]
    PROVE  SandboxInv'
<1>0. binding \in Made \cup {NoBox} /\ home[c] \in Processes /\ b \in Made \cup Made'
  <2>1. Backs(b, v) => b \in Made
    BY BackedMade
  <2>2. life[b] = "none" /\ life' = [life EXCEPT ![b] = "running"] => b \in Made'
    BY DEF SandboxInv, SandboxTypeOK, Made
  <2> QED BY <2>1, <2>2 DEF SandboxInv, BoundIsShown, NamedIsMade, SandboxTypeOK
<1>1. CASE Discard(c, b, binding) /\ Forget(home[c]) /\ UNCHANGED row
  BY <1>0, <1>1, DiscardTold, CacheForgets, RowStays, QuietCall
<1>2. CASE (Bind(b, v) \/ UNCHANGED row) /\ Hand(c, b) /\ Remember(home[c], b, v)
  <2>1. CASE Backs(b, v)
    <3>1. b \in Made
      BY <2>1, BackedMade
    <3>2. RowBacked
      BY <1>2, <2>1, RowBinds, RowStays
    <3> QED BY <1>0, <1>2, <2>1, <3>1, <3>2, HandTold, CacheRemembers, QuietCall
  <2>2. CASE life[b] = "none" /\ life' = [life EXCEPT ![b] = "running"]
    BY <1>2, <2>2, FreshStep
  <2> QED BY <2>1, <2>2
<1> QED BY <1>1, <1>2 DEF BindOrYield, Serve

LEMMA CheckedInv ==
    ASSUME SandboxInv, SandboxTypeOK', NEW c \in Callers, OthersSame(c), Checked(c)
    PROVE  SandboxInv'
<1>0. /\ SandboxTypeOK /\ NamedIsMade /\ HandsAreFull /\ home[c] \in Processes
      /\ stage[c] = "checking" /\ life' = life
  BY DEF SandboxInv, SandboxTypeOK, Checked
<1>1. box[c] \in Made /\ box[c] \in Boxes
  BY <1>0 DEF HandsAreFull, NamedIsMade, Made
<1>2. LifeGoesOn
  BY <1>0, LifeStays
<1>3. PICK healthy \in BOOLEAN :
         IF healthy /\ cached[home[c]] = box[c]
         THEN IF want[c] = NoBox THEN BindOrYield(c, box[c], cachedFits[home[c]])
              ELSE Serve(c, box[c], cachedFits[home[c]]) /\ UNCHANGED service
         ELSE /\ IF Onwards(c).to = "idle" THEN GoesAway(c)
                 ELSE /\ stage' = [stage EXCEPT ![c] = Onwards(c).to]
                      /\ box' = [box EXCEPT ![c] = NoBox]
                      /\ UNCHANGED <<need, want, may, config, keeper>>
              /\ IF cached[home[c]] = box[c] THEN Forget(home[c]) ELSE UNCHANGED service
              /\ UNCHANGED row
  BY DEF Checked
<1>4. CASE healthy /\ cached[home[c]] = box[c] /\ want[c] = NoBox
  <2>1. Backs(box[c], cachedFits[home[c]]) /\ cachedFits[home[c]] \in BOOLEAN
    BY <1>0, <1>4 DEF Backs, HeldFit, HeldUnfit, SandboxTypeOK
  <2> QED BY <1>1, <1>2, <1>3, <1>4, <2>1, BindOrYieldInv
<1>5. CASE healthy /\ cached[home[c]] = box[c] /\ want[c] # NoBox
  <2>1. Serve(c, box[c], cachedFits[home[c]]) /\ UNCHANGED service
    BY <1>3, <1>5
  <2>2. Backs(box[c], cachedFits[home[c]])
    BY <1>0, <1>5 DEF Backs, HeldFit, HeldUnfit, SandboxTypeOK
  <2> QED BY <1>1, <1>2, <2>1, <2>2, ServeBacked, CacheStays, QuietCall
<1>6. CASE ~(healthy /\ cached[home[c]] = box[c])
  <2>1. CacheBacked /\ RowBacked
    BY <1>0, <1>3, <1>6, CacheForgets, CacheStays, RowStays
  <2>2. Told(c)
    <3>1. CASE Onwards(c).to = "idle"
      BY <1>3, <1>6, <3>1, GoesAwayTold
    <3>2. CASE Onwards(c).to # "idle"
      <4>1. /\ stage'[c] = Onwards(c).to /\ box'[c] = NoBox
            /\ want'[c] = want[c] /\ config'[c] = config[c]
        BY <1>0, <1>3, <1>6, <3>2 DEF SandboxTypeOK
      <4>2. /\ Onwards(c).to \in {"querying", "creating"}
            /\ Onwards(c).to = "querying" => want[c] # NoBox
        BY <3>2 DEF Onwards, Plan, Stop
      <4>3. want[c] \in Made \cup {NoBox}
        BY <1>0 DEF NamedIsMade
      <4>4. want[c] # NoBox => Backs(want[c], config[c])
        BY <1>0 DEF Backs, HeldFit, HeldUnfit, Asks, Reaching
      <4> QED BY <1>0, <4>1, <4>2, <4>3, <4>4 DEF Told
    <3> QED BY <3>1, <3>2
  <2> QED BY <1>2, <2>1, <2>2, QuietCall
<1> QED BY <1>3, <1>4, <1>5, <1>6

LEMMA ReplacedInv ==
    ASSUME SandboxInv, SandboxTypeOK', NEW c \in Callers, OthersSame(c), Replaced(c)
    PROVE  SandboxInv'
<1>0. binding \in Made \cup {NoBox} /\ config[c] \in BOOLEAN
  BY DEF SandboxInv, BoundIsShown, NamedIsMade, SandboxTypeOK
<1>1. PICK b \in Boxes : life[b] = "none" /\ life' = [life EXCEPT ![b] = "running"] /\ Swap(c, b)
  BY DEF Replaced
<1>2. CASE binding = want[c]
  BY <1>0, <1>1, <1>2, FreshStep DEF Swap
<1>3. CASE binding # want[c]
  <2>1. LifeGoesOn /\ b \in Made'
    BY <1>1, LifeMoves DEF SandboxInv, SandboxTypeOK, Made
  <2>2. Discard(c, b, binding) /\ UNCHANGED row /\ UNCHANGED service
    BY <1>1, <1>3 DEF Swap
  <2> QED BY <1>0, <2>1, <2>2, DiscardTold, CacheStays, RowStays, QuietCall
<1> QED BY <1>2, <1>3

LEMMA EnsuresInv ==
    ASSUME SandboxInv, NEW c \in Callers, Ensures(c)
    PROVE  SandboxInv'
<1>0. /\ SandboxTypeOK /\ HandsAreFull /\ BoundIsShown /\ NamedIsMade
      /\ Agreement /\ CauseLasts
      /\ home[c] \in Processes
      /\ want[c] \in Made \cup {NoBox} /\ box[c] \in Made \cup {NoBox}
      /\ cached[home[c]] \in Made \cup {NoBox} /\ binding \in Made \cup {NoBox}
  BY DEF SandboxInv, SandboxTypeOK, NamedIsMade, BoundIsShown
<1>01. SandboxTypeOK' /\ OthersSame(c)
  BY <1>0, EnsuresTypes, EnsuresOthers DEF TypeInv
<1>02. stage[c] \in Reaching /\ want[c] # NoBox => Backs(want[c], config[c])
  BY <1>0 DEF Backs, HeldFit, HeldUnfit, Asks
<1>1. ASSUME NEW why \in Needs, Ask(c, why) PROVE SandboxInv'
  <2>1. Told(c)
    <3>1. stage'[c] = "waiting" /\ box'[c] = box[c] /\ want'[c] \in {NoBox, binding}
      BY <1>0, <1>1 DEF Ask, SandboxTypeOK
    <3> QED BY <1>0, <3>1 DEF Told, Reaching
  <2> QED BY <1>01, <1>1, <2>1, CacheStays, RowStays, LifeStays, QuietCall DEF Ask
<1>2. CASE Peek(c)
  <2>1. Told(c)
    <3>1. /\ stage'[c] = "peeking" /\ box'[c] = cached[home[c]]
          /\ want'[c] = want[c] /\ cached[home[c]] # NoBox
      BY <1>0, <1>2 DEF Peek, Hit, SandboxTypeOK
    <3> QED BY <1>0, <3>1 DEF Told, Reaching
  <2> QED BY <1>01, <1>2, <2>1, CacheStays, RowStays, LifeStays, QuietCall DEF Peek
<1>3. CASE Distrust(c)
  <2>1. Told(c)
    <3>1. Same(c)
      BY <1>3 DEF Distrust, Same, call
    <3> QED BY <3>1, SameTold
  <2> QED BY <1>0, <1>01, <1>3, <2>1, CacheForgets, RowStays, LifeStays, QuietCall DEF Distrust
<1>4. CASE Peeked(c)
  <2>1. PICK healthy \in BOOLEAN :
           IF healthy /\ cached[home[c]] = box[c]
           THEN GoesAway(c) /\ UNCHANGED service
           ELSE /\ stage' = [stage EXCEPT ![c] = "waiting"]
                /\ box' = [box EXCEPT ![c] = NoBox]
                /\ IF cached[home[c]] = box[c] THEN Forget(home[c]) ELSE UNCHANGED service
                /\ UNCHANGED <<keeper, need, want, may, config>>
    BY <1>4 DEF Peeked
  <2>2. CacheBacked
    BY <1>0, <2>1, CacheForgets, CacheStays
  <2>3. Told(c)
    <3>1. CASE GoesAway(c)
      BY <3>1, GoesAwayTold
    <3>2. CASE ~GoesAway(c)
      <4>1. stage'[c] = "waiting" /\ box'[c] = NoBox /\ want'[c] = want[c]
        BY <1>0, <2>1, <3>2 DEF SandboxTypeOK
      <4> QED BY <1>0, <4>1 DEF Told, Reaching
    <3> QED BY <3>1, <3>2
  <2> QED BY <1>01, <1>4, <2>2, <2>3, RowStays, LifeStays, QuietCall DEF Peeked
<1>5. CASE Enter(c)
  <2> DEFINE id == IF need[c] = "run" THEN binding ELSE want[c]
             plan == Chosen(home[c], id, may[c])
  <2>1. Good(home[c], plan)
    BY <1>0, ChosenFacts DEF SandboxTypeOK
  <2>2. /\ UNCHANGED row /\ life' = life
        /\ IF plan.to = "idle" THEN GoesAway(c) /\ UNCHANGED service ELSE Follow(c, plan)
    BY <1>5 DEF Enter
  <2> HIDE DEF plan
  <2>3. Follow(c, plan)
    BY <2>2 DEF Follow
  <2>4. CacheBacked
    BY <1>0, <2>3, CacheForgets, CacheStays DEF Follow
  <2> QED BY <1>01, <2>1, <2>2, <2>3, <2>4, FollowTold, RowStays, LifeStays, QuietCall
<1>6. CASE Checked(c)
  BY <1>01, <1>6, CheckedInv
<1>7. CASE Queried(c)
  <2>1. Told(c)
    <3> DEFINE to == CASE life[want[c]] = "running" -> "connecting"
                       [] life[want[c]] = "paused" -> "resuming"
                       [] OTHER -> IF may[c] THEN "replacing" ELSE "idle"
    <3>1. want[c] \in Boxes /\ want[c] \in Made /\ stage[c] = "querying"
      BY <1>0, <1>7 DEF Queried, HandsAreFull, SandboxTypeOK, MaybeBox
    <3>2. /\ to \in {"connecting", "resuming", "replacing", "idle"}
          /\ to = "replacing" => life[want[c]] = "gone"
      BY <1>0, <3>1 DEF SandboxTypeOK, Made
    <3>3. IF to = "idle" THEN GoesAway(c)
          ELSE stage' = [stage EXCEPT ![c] = to] /\ UNCHANGED <<need, want, may, config, box, keeper>>
      BY <1>7 DEF Queried
    <3> HIDE DEF to
    <3>4. CASE to = "idle"
      BY <3>3, <3>4, GoesAwayTold
    <3>5. CASE to # "idle"
      <4>1. stage'[c] = to /\ want'[c] = want[c] /\ config'[c] = config[c] /\ box'[c] = box[c]
        BY <1>0, <3>1, <3>3, <3>5 DEF SandboxTypeOK
      <4>2. want[c] # NoBox /\ Backs(want[c], config[c])
        BY <1>02, <3>1, SandboxAssumption DEF Reaching
      <4> QED BY <1>0, <3>2, <3>5, <4>1, <4>2 DEF Told
    <3> QED BY <3>4, <3>5
  <2> QED BY <1>01, <1>7, <2>1, CacheStays, RowStays, LifeStays, QuietCall DEF Queried
<1>8. CASE Connected(c)
  <2>1. want[c] \in Boxes /\ Backs(want[c], config[c])
    BY <1>0, <1>02, <1>8 DEF Connected, HandsAreFull, Reaching, SandboxTypeOK, MaybeBox
  <2>2. Serve(c, want[c], config[c]) /\ Remember(home[c], want[c], config[c])
    BY <1>8 DEF Connected
  <2>3. LifeGoesOn
    BY <1>8, LifeStays, LifeMoves DEF Connected
  <2>4. Told(c) /\ RowBacked
    BY <2>1, <2>2, ServeBacked
  <2>5. CacheBacked
    BY <1>0, <2>1, <2>2, CacheRemembers
  <2> QED BY <1>01, <2>3, <2>4, <2>5, QuietCall
<1>9. CASE Created(c)
  <2>1. PICK b \in Boxes :
           life[b] = "none" /\ life' = [life EXCEPT ![b] = "running"] /\ BindOrYield(c, b, config[c])
    BY <1>9 DEF Created
  <2>2. LifeGoesOn /\ config[c] \in BOOLEAN
    BY <1>0, <2>1, LifeMoves DEF SandboxTypeOK
  <2> QED BY <1>01, <2>1, <2>2, BindOrYieldInv
<1>10. CASE Replaced(c)
  BY <1>01, <1>10, ReplacedInv
<1>11. CASE BindFails(c)
  <2>1. PICK b \in Boxes :
           life[b] = "none" /\ life' = [life EXCEPT ![b] = "running"] /\ Discard(c, b, NoBox)
    BY <1>11 DEF BindFails
  <2>2. LifeGoesOn /\ Told(c)
    <3>1. b \in Made'
      BY <1>0, <2>1 DEF SandboxTypeOK, Made
    <3> QED BY <2>1, <3>1, LifeMoves, DiscardTold
  <2>3. CacheBacked
    BY <1>0, <1>11, CacheForgets, CacheStays DEF BindFails
  <2>4. RowBacked
    BY <1>11, RowStays DEF BindFails
  <2> QED BY <1>01, <2>2, <2>3, <2>4, QuietCall
<1>12. CASE Discarded(c)
  <2> DEFINE plan == IF want[c] = NoBox THEN Stop ELSE Chosen(home[c], want[c], FALSE)
  <2>1. Good(home[c], plan)
    BY <1>0, ChosenFacts DEF SandboxTypeOK
  <2>2. Follow(c, plan) /\ UNCHANGED row
    BY <1>12 DEF Discarded
  <2>3. LifeGoesOn
    <3>1. life' = life \/ life' = [life EXCEPT ![box[c]] = "gone"]
      BY <1>12 DEF Discarded
    <3> QED BY <3>1, LifeStays, LifeMoves
  <2> HIDE DEF plan
  <2>4. CacheBacked
    BY <1>0, <2>2, CacheForgets, CacheStays DEF Follow
  <2> QED BY <1>01, <2>1, <2>2, <2>3, <2>4, FollowTold, RowStays, QuietCall
<1>13. CASE Renewed(c)
  <2>1. Told(c)
    BY <1>0, <1>13, SettledTold, GoesAwayTold DEF Renewed
  <2> QED BY <1>01, <1>13, <2>1, CacheStays, RowStays, LifeStays, QuietCall DEF Renewed
<1>14. CASE Leaves(c)
  <2>1. Told(c)
    BY <1>14, GoesAwayTold DEF Leaves
  <2> QED BY <1>01, <1>14, <2>1, CacheStays, RowStays, LifeStays, QuietCall DEF Leaves
<1> QED
  BY <1>1, <1>2, <1>3, <1>4, <1>5, <1>6, <1>7, <1>8, <1>9, <1>10, <1>11, <1>12, <1>13, <1>14
     DEF Ensures

LEMMA AroundInv ==
    ASSUME SandboxInv,
           \/ \E p \in Processes : Restart(p) \/ Pause(p) \/ SwitchBegins(p)
           \/ \E b \in Boxes : PauseLands(b) \/ Expires(b)
           \/ ProfileChanges \/ SwitchEnds
    PROVE  SandboxInv'
<1>0. SandboxTypeOK /\ HandsAreFull /\ BoundIsShown /\ NamedIsMade
  BY DEF SandboxInv
<1>1. SandboxTypeOK'
  BY <1>0, AroundTypes
<1>2. (\A d \in Callers : Same(d)) => \A d \in Callers : Told(d)
  BY SameTold
<1>3. ASSUME NEW p \in Processes, Restart(p) \/ Pause(p) PROVE SandboxInv'
  <2>1. CacheBacked
    BY <1>3, CacheForgets DEF Restart, Pause
  <2>2. \A d \in Callers : Told(d)
    BY <1>2, <1>3 DEF Restart, Pause, call, Same
  <2> QED BY <1>1, <1>3, <2>1, <2>2, RowStays, LifeStays, QuietStep DEF Restart, Pause
<1>4. ASSUME NEW p \in Processes, SwitchBegins(p) PROVE SandboxInv'
  <2>1. CacheBacked
    BY <1>4, CacheForgets DEF SwitchBegins
  <2>2. \A d \in Callers : Told(d)
    BY <1>2, <1>4 DEF SwitchBegins, call, Same
  <2>3. PICK b : life' \in {life, [life EXCEPT ![b] = "gone"]}
    BY <1>4 DEF SwitchBegins
  <2>4. LifeGoesOn
    BY <2>3, LifeStays, LifeMoves
  <2> QED BY <1>1, <1>4, <2>1, <2>2, <2>4, RowStays, QuietStep DEF SwitchBegins
<1>5. ASSUME NEW b \in Boxes, PauseLands(b) \/ Expires(b) PROVE SandboxInv'
  <2>1. LifeGoesOn
    BY <1>5, LifeMoves DEF PauseLands, Expires
  <2>2. \A d \in Callers : Told(d)
    BY <1>2, <1>5 DEF PauseLands, Expires, call, Same
  <2> QED BY <1>1, <1>5, <2>1, <2>2, CacheStays, RowStays, QuietStep DEF PauseLands, Expires
<1>6. ASSUME NewProfile, fits' = FALSE, binding' \in {binding, NoBox},
             UNCHANGED <<shown, life, cached, keeper, home, need, stage, want, may, box>>
      PROVE  SandboxInv'
  <2>1. HandsAreFull' /\ NamedIsMade' /\ BoundIsShown'
    BY <1>0, <1>6 DEF HandsAreFull, NamedIsMade, Made, BoundIsShown
  <2>2. ASSUME NEW b PROVE ~HeldFit(b)'
    BY <1>6 DEF HeldFit, NewProfile
  <2>3. Agreement'
    BY <2>2 DEF Agreement
  <2>4. CauseLasts'
    <3> SUFFICES ASSUME NEW d \in Callers PROVE ~HeldFit(want[d])'
      BY DEF CauseLasts
    <3> QED BY <1>6 DEF HeldFit, NewProfile
  <2> QED BY <1>1, <2>1, <2>3, <2>4 DEF SandboxInv
<1>7. CASE ProfileChanges
  BY <1>6, <1>7 DEF ProfileChanges
<1>8. CASE SwitchEnds
  <2>1. CASE NewProfile
    BY <1>6, <1>8, <2>1 DEF SwitchEnds
  <2>2. CASE UNCHANGED <<cachedFits, config>>
    <3>1. \A d \in Callers : Told(d)
      BY <1>2, <1>8, <2>2 DEF SwitchEnds, Same
    <3>2. CacheBacked /\ RowBacked /\ LifeGoesOn
      BY <1>8, <2>2, CacheStays, LifeStays DEF SwitchEnds, RowBacked, service
    <3> QED BY <1>1, <3>1, <3>2, QuietStep
  <2> QED BY <1>8, <2>1, <2>2 DEF SwitchEnds
<1> QED BY <1>3, <1>4, <1>5, <1>7, <1>8

LEMMA StutterInv ==
    ASSUME SandboxInv, UNCHANGED sandboxVars
    PROVE  SandboxInv'
<1>1. SandboxTypeOK'
  BY DEF SandboxInv, SandboxTypeOK, sandboxVars, row, service, call
<1>2. \A d \in Callers : Told(d)
  BY SameTold DEF sandboxVars, call, Same
<1> QED BY <1>1, <1>2, CacheStays, RowStays, LifeStays, QuietStep DEF sandboxVars

LEMMA InitInv ==
    ASSUME SandboxInit
    PROVE  SandboxInv
<1>1. SandboxTypeOK
  BY DEF SandboxInit, Unbound, SandboxTypeOK, MaybeBox, AllNeeds
<1>2. HandsAreFull /\ BoundIsShown /\ NamedIsMade
  BY DEF SandboxInit, Unbound, HandsAreFull, BoundIsShown, NamedIsMade
<1>3. Agreement /\ CauseLasts
  BY SandboxAssumption DEF SandboxInit, Unbound, Agreement, CauseLasts, HeldFit, HeldUnfit, Asks, Reaching
<1> QED BY <1>1, <1>2, <1>3 DEF SandboxInv

-----------------------------------------------------------------------------
(* What a step may expose: what was exposed, or is bound after it.          *)

Seen(b) == b \in Exposed \cup shown' \cup {NoBox}
CachesSeen == \A p \in Processes : Seen(cached'[p])
CallSeen(c) == Seen(want'[c]) /\ (stage'[c] = "losing" \/ Seen(box'[c]))
NothingNew == CachesSeen /\ \A c \in Callers : CallSeen(c)

LEMMA SeenBefore ==
    /\ \A p \in Processes : Seen(cached[p])
    /\ \A c \in Callers : Seen(want[c]) /\ (stage[c] # "losing" => Seen(box[c]))
  BY DEF Seen, Exposed

LEMMA NothingNewExposes ==
    ASSUME NothingNew
    PROVE  Exposed' \ shown' \subseteq Exposed
<1> SUFFICES ASSUME NEW b \in Exposed', b \notin shown' PROVE b \in Exposed
  OBVIOUS
<1>1. \/ b \in {cached'[p] : p \in Processes}
      \/ b \in {want'[c] : c \in Callers}
      \/ b \in {box'[c] : c \in {d \in Callers : stage'[d] # "losing"}}
  BY DEF Exposed
<1>2. b # NoBox
  BY DEF Exposed
<1>3. Seen(b)
  BY <1>1 DEF NothingNew, CachesSeen, CallSeen
<1> QED BY <1>2, <1>3 DEF Seen

LEMMA SameSeen ==
    ASSUME NEW d \in Callers, Same(d) PROVE CallSeen(d)
  BY SeenBefore DEF Same, CallSeen

LEMMA SettledSeen ==
    ASSUME SandboxTypeOK, NEW c \in Callers, NEW step, NEW b, Seen(b), Settled(c, step, b)
    PROVE  CallSeen(c)
<1>1. box'[c] = b /\ want'[c] = NoBox
  BY DEF SandboxTypeOK, Settled
<1> QED BY <1>1 DEF CallSeen, Seen

LEMMA GoesAwaySeen ==
    ASSUME SandboxTypeOK, NEW c \in Callers, GoesAway(c) PROVE CallSeen(c)
  BY SettledSeen DEF GoesAway, Seen

LEMMA HandSeen ==
    ASSUME SandboxTypeOK, NEW c \in Callers, NEW b, Seen(b), Hand(c, b) PROVE CallSeen(c)
  BY SettledSeen, GoesAwaySeen DEF Hand

LEMMA DiscardSeen ==
    ASSUME SandboxTypeOK, NEW c \in Callers, NEW b, NEW w, Seen(w), Discard(c, b, w)
    PROVE  CallSeen(c)
  BY DEF SandboxTypeOK, Discard, CallSeen

LEMMA FollowSeen ==
    ASSUME SandboxTypeOK, NEW c \in Callers, NEW plan, Good(home[c], plan), Seen(binding),
           Follow(c, plan)
    PROVE  CallSeen(c)
<1>1. CASE plan.to = "idle"
  BY <1>1, GoesAwaySeen DEF Follow
<1>2. CASE plan.to # "idle"
  <2>1. /\ want'[c] = plan.id
        /\ box'[c] = IF plan.to = "checking" THEN cached[home[c]] ELSE NoBox
    BY <1>2 DEF Follow, SandboxTypeOK
  <2>2. plan.id \in {NoBox, binding, cached[home[c]]}
    BY <1>2 DEF Good
  <2>3. Seen(cached[home[c]]) /\ Seen(NoBox)
    BY SeenBefore DEF SandboxTypeOK, Seen
  <2> QED BY <2>1, <2>2, <2>3 DEF CallSeen
<1> QED BY <1>1, <1>2

LEMMA ForgetSeen ==
    ASSUME SandboxTypeOK, NEW p \in Processes, Forget(p) PROVE CachesSeen
<1>1. Seen(NoBox)
  BY DEF Seen
<1> QED BY <1>1, SeenBefore DEF SandboxTypeOK, Forget, CachesSeen

LEMMA RememberSeen ==
    ASSUME SandboxTypeOK, NEW p \in Processes, NEW b, NEW v, Seen(b), Remember(p, b, v)
    PROVE  CachesSeen
<1> SUFFICES ASSUME NEW q \in Processes PROVE Seen(cached'[q])
  BY DEF CachesSeen
<1>1. cached'[q] \in {b, cached[q]}
  BY DEF SandboxTypeOK, Remember
<1> QED BY <1>1, SeenBefore

LEMMA StaySeen ==
    ASSUME UNCHANGED service PROVE CachesSeen
  BY SeenBefore DEF service, CachesSeen

-----------------------------------------------------------------------------
(* The theorems.                                                            *)

\* Whoever the callers are, panels included, the row, the caches and the callers
\* of all processes agree about every container, and a caller that replaces one
\* has a cause that lasts (sandbox_service.py).
THEOREM SandboxInvariance == SandboxSpec => []SandboxInv
<1>1. SandboxInv /\ [SandboxNext]_sandboxVars => SandboxInv'
  BY EnsuresInv, AroundInv, StutterInv DEF SandboxNext
<1> QED BY <1>1, InitInv, PTL DEF SandboxSpec

\* Every state of the sandbox binding has its types.
THEOREM SandboxTypeCorrect == SandboxSpec => []SandboxTypeOK
<1>1. SandboxInv => SandboxTypeOK
  BY DEF SandboxInv
<1> QED BY <1>1, SandboxInvariance, PTL

\* Whoever the callers are, a binding that is neither lost nor of another backend
\* is turned away only by a panel that has just been handed a running container:
\* no first creation, replacement or late answer of another process does it
\* (_compare_and_swap_sandbox_binding, _upsert_user_sandbox_id).
THEOREM TurnedAwayByPanelsOnlyHolds == SandboxSpec => TurnedAwayByPanelsOnly
<1> DEFINE Cause == binding # NoBox /\ binding' \notin {NoBox, binding} =>
                       \/ life[binding] = "gone" \/ ~fits
                       \/ life'[binding'] = "running" /\ \E c \in Callers : PanelIsServed(c)
<1>1. ASSUME SandboxInv, NEW c \in Callers, Ensures(c) PROVE Cause
  <2>0. SandboxTypeOK /\ CauseLasts /\ HandsAreFull
    BY <1>1 DEF SandboxInv
  <2>1. CASE UNCHANGED row
    BY <2>1 DEF row
  <2>2. ASSUME NEW b, NEW v, Serve(c, b, v), life'[b] = "running",
               stage[c] \in {"checking", "connecting", "resuming", "creating"}
        PROVE  Cause
    <3>1. need[c] # "run" /\ GoesAway(c) => stage'[c] = "idle"
      BY <2>0 DEF GoesAway, Settled, SandboxTypeOK
    <3>2. CASE need[c] = "panel" /\ Bind(b, v)
      <4>1. PanelIsServed(c)
        BY <2>2, <3>1, <3>2 DEF PanelIsServed, Serve, Hand
      <4> QED BY <2>2, <3>2, <4>1 DEF Bind
    <3> QED BY <2>1, <2>2, <3>2 DEF Serve
  <2>3. ASSUME NEW b, NEW v, BindOrYield(c, b, v), life'[b] = "running",
               stage[c] \in {"checking", "creating"}
        PROVE  Cause
    <3>1. CASE need[c] = "panel"
      BY <2>2, <2>3, <3>1 DEF BindOrYield
    <3>2. CASE need[c] # "panel"
      BY <2>3, <3>2 DEF BindOrYield, Bind, row
    <3> QED BY <3>1, <3>2
  <2>4. CASE Checked(c)
    <3>1. PICK healthy \in BOOLEAN :
             /\ healthy => life[box[c]] = "running"
             /\ IF healthy /\ cached[home[c]] = box[c]
                THEN \/ BindOrYield(c, box[c], cachedFits[home[c]])
                     \/ Serve(c, box[c], cachedFits[home[c]])
                ELSE UNCHANGED row
      BY <2>4 DEF Checked
    <3>2. stage[c] = "checking" /\ life' = life
      BY <2>4 DEF Checked
    <3> QED BY <2>1, <2>2, <2>3, <3>1, <3>2
  <2>5. CASE Connected(c)
    <3>1. stage[c] \in {"connecting", "resuming"} /\ Serve(c, want[c], config[c])
      BY <2>5 DEF Connected
    <3>2. want[c] \in Boxes
      BY <2>0, <3>1 DEF HandsAreFull, SandboxTypeOK, MaybeBox
    <3>3. life'[want[c]] = "running"
      BY <2>0, <2>5, <3>2 DEF Connected, SandboxTypeOK
    <3> QED BY <2>2, <3>1, <3>3
  <2>6. CASE Created(c)
    <3>1. PICK b \in Boxes : life' = [life EXCEPT ![b] = "running"] /\ BindOrYield(c, b, config[c])
      BY <2>6 DEF Created
    <3>2. stage[c] = "creating" /\ life'[b] = "running"
      BY <2>0, <2>6, <3>1 DEF Created, SandboxTypeOK
    <3> QED BY <2>3, <3>1, <3>2
  <2>7. CASE Replaced(c)
    <3>1. (binding = want[c] /\ stage[c] = "replacing") \/ UNCHANGED row
      BY <2>7 DEF Replaced, Swap
    <3>2. CASE binding = want[c] /\ stage[c] = "replacing"
      BY <2>0, <3>2 DEF CauseLasts, HeldFit
    <3> QED BY <2>1, <3>1, <3>2
  <2>8. UNCHANGED row \/ Checked(c) \/ Connected(c) \/ Created(c) \/ Replaced(c)
    BY <1>1 DEF Ensures, Ask, Peek, Distrust, Peeked, Enter, Queried, BindFails, Discarded,
                Renewed, Leaves
  <2> QED BY <2>1, <2>4, <2>5, <2>6, <2>7, <2>8
<1>2. ASSUME SandboxNext, ~\E c \in Callers : Ensures(c) PROVE Cause
  BY <1>2 DEF SandboxNext, Restart, Pause, SwitchBegins, PauseLands, Expires, ProfileChanges,
              SwitchEnds, row
<1>3. SandboxInv /\ [SandboxNext]_sandboxVars => [Cause]_sandboxVars
  BY <1>1, <1>2
<1> QED BY <1>3, SandboxInvariance, PTL DEF SandboxSpec, TurnedAwayByPanelsOnly

\* Whoever the callers are, a container that was never the user's sandbox comes
\* into a cache or into a caller's hands only where a panel has just made it and
\* could not write the row; what lost the race for the row stays hidden.
THEOREM ExposedByPanelsOnlyHolds == SandboxSpec => ExposedByPanelsOnly
<1> DEFINE Kept == \A b \in (Exposed' \ shown') \ Exposed :
                      life[b] = "none" /\ \E c \in Callers : PanelIsServed(c) /\ stage[c] = "creating"
<1>0. NothingNew => Kept
  BY NothingNewExposes
<1>1. ASSUME SandboxInv, NEW c \in Callers, Ensures(c) PROVE Kept
  <2>0. SandboxTypeOK /\ BoundIsShown /\ home[c] \in Processes
    BY <1>1 DEF SandboxInv, SandboxTypeOK
  <2>1. \A d \in Callers : d # c => CallSeen(d)
    BY <1>1, <2>0, EnsuresOthers, SameSeen DEF OthersSame
  <2>2. CachesSeen /\ CallSeen(c) => Kept
    BY <1>0, <2>1 DEF NothingNew
  <2>3. shown \subseteq shown' => Seen(binding) /\ Seen(NoBox)
    BY <2>0 DEF BoundIsShown, Seen
  <2>4. /\ Seen(cached[home[c]]) /\ Seen(want[c]) /\ (stage[c] # "losing" => Seen(box[c]))
        /\ Seen(NoBox)
    BY <2>0, SeenBefore DEF Seen
  <2>5. UNCHANGED row => Seen(binding)
    BY <2>3 DEF row
  <2>6. ASSUME NEW b \in Boxes, NEW v, BindOrYield(c, b, v), stage[c] # "losing",
               Seen(b) \/ (life[b] = "none" /\ stage[c] = "creating" /\ need[c] = "panel")
                       \/ need[c] # "panel"
        PROVE  Kept
    <3>1. CASE need[c] = "panel" /\ Seen(b)
      BY <2>0, <2>2, <2>6, <3>1, HandSeen, RememberSeen DEF BindOrYield, Serve
    <3>2. CASE need[c] = "panel" /\ ~Seen(b)
      <4>1. GoesAway(c) /\ Remember(home[c], b, v)
        BY <2>6, <3>2 DEF BindOrYield, Serve, Hand
      <4>2. CallSeen(c) /\ stage'[c] = "idle"
        BY <2>0, <4>1, GoesAwaySeen DEF GoesAway, Settled, SandboxTypeOK
      <4>3. \A a \in (Exposed' \ shown') \ Exposed : a = b
        <5> SUFFICES ASSUME NEW a \in Exposed', a \notin shown', a \notin Exposed, a # b PROVE FALSE
          OBVIOUS
        <5>1. \/ a \in {cached'[p] : p \in Processes}
              \/ a \in {want'[d] : d \in Callers}
              \/ a \in {box'[d] : d \in {e \in Callers : stage'[e] # "losing"}}
          BY DEF Exposed
        <5>2. a # NoBox
          BY DEF Exposed
        <5>3. \A p \in Processes : cached'[p] \in {b, cached[p]}
          BY <2>0, <4>1 DEF Remember, SandboxTypeOK
        <5>4. Seen(a)
          BY <2>1, <4>2, <5>1, <5>3, SeenBefore DEF CallSeen
        <5> QED BY <5>2, <5>4 DEF Seen
      <4>4. PanelIsServed(c)
        BY <2>6, <3>2, <4>2 DEF PanelIsServed
      <4> QED BY <2>6, <3>2, <4>3, <4>4
    <3>3. CASE need[c] # "panel" /\ binding \in {NoBox, b}
      <4>1. Bind(b, v) /\ Hand(c, b) /\ Remember(home[c], b, v)
        BY <2>6, <3>3 DEF BindOrYield
      <4>2. Seen(b)
        BY <4>1 DEF Bind, Seen
      <4> QED BY <2>0, <2>2, <4>1, <4>2, HandSeen, RememberSeen
    <3>4. CASE need[c] # "panel" /\ binding \notin {NoBox, b}
      BY <2>0, <2>2, <2>5, <2>6, <3>4, DiscardSeen, ForgetSeen DEF BindOrYield
    <3> QED BY <3>1, <3>2, <3>3, <3>4
  <2>7. ASSUME NEW why \in Needs, Ask(c, why) PROVE Kept
    <3>1. want'[c] \in {NoBox, binding} /\ box'[c] = box[c] /\ (stage[c] # "losing")
      BY <2>0, <2>7 DEF Ask, SandboxTypeOK
    <3> QED BY <2>2, <2>4, <2>5, <2>7, <3>1, StaySeen DEF Ask, CallSeen
  <2>8. CASE Peek(c)
    <3>1. want'[c] = want[c] /\ box'[c] = cached[home[c]]
      BY <2>0, <2>8 DEF Peek, SandboxTypeOK
    <3> QED BY <2>2, <2>4, <2>8, <3>1, StaySeen DEF Peek, CallSeen
  <2>9. CASE Distrust(c)
    <3>1. Same(c)
      BY <2>9 DEF Distrust, Same, call
    <3> QED BY <2>0, <2>2, <2>9, <3>1, SameSeen, ForgetSeen DEF Distrust
  <2>10. CASE Peeked(c)
    <3>1. GoesAway(c) \/ (box' = [box EXCEPT ![c] = NoBox] /\ UNCHANGED want)
      BY <2>10 DEF Peeked
    <3>2. CallSeen(c)
      BY <2>0, <2>4, <3>1, GoesAwaySeen DEF CallSeen, SandboxTypeOK
    <3>3. UNCHANGED service \/ Forget(home[c])
      BY <2>10 DEF Peeked
    <3> QED BY <2>0, <2>2, <3>2, <3>3, StaySeen, ForgetSeen
  <2>11. CASE Enter(c)
    <3> DEFINE id == IF need[c] = "run" THEN binding ELSE want[c]
               plan == Chosen(home[c], id, may[c])
    <3>1. Good(home[c], plan)
      BY <2>0, ChosenFacts DEF SandboxTypeOK
    <3>2. /\ UNCHANGED row
          /\ IF plan.to = "idle" THEN GoesAway(c) /\ UNCHANGED service ELSE Follow(c, plan)
      BY <2>11 DEF Enter
    <3> HIDE DEF plan
    <3>3. Follow(c, plan) /\ (UNCHANGED service \/ Forget(home[c]))
      BY <3>2 DEF Follow
    <3> QED BY <2>0, <2>2, <2>5, <3>1, <3>2, <3>3, FollowSeen, StaySeen, ForgetSeen
  <2>12. CASE Checked(c)
    <3>0. stage[c] = "checking" /\ box[c] \in Boxes
      BY <1>1, <2>12 DEF Checked, SandboxInv, HandsAreFull, SandboxTypeOK, MaybeBox
    <3>1. PICK healthy \in BOOLEAN :
             IF healthy /\ cached[home[c]] = box[c]
             THEN IF want[c] = NoBox THEN BindOrYield(c, box[c], cachedFits[home[c]])
                  ELSE Serve(c, box[c], cachedFits[home[c]]) /\ UNCHANGED service
             ELSE /\ IF Onwards(c).to = "idle" THEN GoesAway(c)
                     ELSE /\ stage' = [stage EXCEPT ![c] = Onwards(c).to]
                          /\ box' = [box EXCEPT ![c] = NoBox]
                          /\ UNCHANGED <<need, want, may, config, keeper>>
                  /\ IF cached[home[c]] = box[c] THEN Forget(home[c]) ELSE UNCHANGED service
                  /\ UNCHANGED row
      BY <2>12 DEF Checked
    <3>2. CASE healthy /\ cached[home[c]] = box[c] /\ want[c] = NoBox
      BY <2>4, <2>6, <3>0, <3>1, <3>2
    <3>3. CASE healthy /\ cached[home[c]] = box[c] /\ want[c] # NoBox
      BY <2>0, <2>2, <2>4, <3>0, <3>1, <3>3, HandSeen, StaySeen DEF Serve
    <3>4. CASE ~(healthy /\ cached[home[c]] = box[c])
      <4>1. GoesAway(c) \/ (box' = [box EXCEPT ![c] = NoBox] /\ UNCHANGED want)
        BY <3>1, <3>4
      <4>2. CallSeen(c)
        BY <2>0, <2>4, <4>1, GoesAwaySeen DEF CallSeen, SandboxTypeOK
      <4> QED BY <2>0, <2>2, <3>1, <3>4, <4>2, StaySeen, ForgetSeen
    <3> QED BY <3>2, <3>3, <3>4
  <2>13. CASE Queried(c)
    <3>1. GoesAway(c) \/ UNCHANGED <<want, box>>
      BY <2>13 DEF Queried
    <3>2. stage[c] = "querying" /\ UNCHANGED service
      BY <2>13 DEF Queried
    <3> QED BY <2>0, <2>2, <2>4, <3>1, <3>2, GoesAwaySeen, StaySeen DEF CallSeen
  <2>14. CASE Connected(c)
    BY <2>0, <2>2, <2>4, <2>14, HandSeen, RememberSeen DEF Connected, Serve
  <2>15. CASE Created(c)
    <3>1. PICK b \in Boxes : life[b] = "none" /\ BindOrYield(c, b, config[c])
      BY <2>15 DEF Created
    <3>2. stage[c] = "creating"
      BY <2>15 DEF Created
    <3> QED BY <2>6, <3>1, <3>2
  <2>16. CASE Replaced(c)
    <3>1. PICK b \in Boxes : Swap(c, b)
      BY <2>16 DEF Replaced
    <3>2. CASE binding = want[c]
      <4>1. Seen(b) /\ Hand(c, b) /\ Remember(home[c], b, config[c])
        BY <3>1, <3>2 DEF Swap, Bind, Seen
      <4> QED BY <2>0, <2>2, <4>1, HandSeen, RememberSeen
    <3>3. CASE binding # want[c]
      BY <2>0, <2>2, <2>5, <3>1, <3>3, DiscardSeen, StaySeen DEF Swap
    <3> QED BY <3>2, <3>3
  <2>17. CASE BindFails(c)
    <3>1. PICK b \in Boxes : Discard(c, b, NoBox)
      BY <2>17 DEF BindFails
    <3>2. UNCHANGED service \/ Forget(home[c])
      BY <2>17 DEF BindFails
    <3> QED BY <2>0, <2>2, <2>4, <3>1, <3>2, DiscardSeen, StaySeen, ForgetSeen
  <2>18. CASE Discarded(c)
    <3> DEFINE plan == IF want[c] = NoBox THEN Stop ELSE Chosen(home[c], want[c], FALSE)
    <3>1. Good(home[c], plan)
      BY <2>0, ChosenFacts DEF SandboxTypeOK
    <3>2. Follow(c, plan) /\ UNCHANGED row
      BY <2>18 DEF Discarded
    <3> HIDE DEF plan
    <3>3. UNCHANGED service \/ Forget(home[c])
      BY <3>2 DEF Follow
    <3> QED BY <2>0, <2>2, <2>5, <3>1, <3>2, <3>3, FollowSeen, StaySeen, ForgetSeen
  <2>19. CASE Renewed(c)
    <3>1. stage[c] = "renewing" /\ UNCHANGED service
      BY <2>19 DEF Renewed
    <3> QED BY <2>0, <2>2, <2>4, <2>19, <3>1, SettledSeen, GoesAwaySeen, StaySeen DEF Renewed
  <2>20. CASE Leaves(c)
    BY <2>0, <2>2, <2>20, GoesAwaySeen, StaySeen DEF Leaves
  <2> QED
    BY <1>1, <2>7, <2>8, <2>9, <2>10, <2>11, <2>12, <2>13, <2>14, <2>15, <2>16, <2>17, <2>18,
       <2>19, <2>20 DEF Ensures
<1>2. ASSUME SandboxInv, SandboxNext, ~\E c \in Callers : Ensures(c) PROVE Kept
  <2>0. SandboxTypeOK
    BY <1>2 DEF SandboxInv
  <2>1. \A d \in Callers : CallSeen(d)
    <3>1. UNCHANGED <<stage, want, box>>
      BY <1>2 DEF SandboxNext, Restart, Pause, SwitchBegins, PauseLands, Expires, ProfileChanges,
                  SwitchEnds, call
    <3> QED BY <3>1, SeenBefore DEF CallSeen
  <2>2. CachesSeen
    <3>1. UNCHANGED cached \/ \E p \in Processes : Forget(p)
      BY <1>2 DEF SandboxNext, Restart, Pause, SwitchBegins, PauseLands, Expires, ProfileChanges,
                  SwitchEnds, service
    <3> QED BY <2>0, <3>1, ForgetSeen, SeenBefore DEF CachesSeen
  <2> QED BY <1>0, <2>1, <2>2 DEF NothingNew
<1>3. SandboxInv /\ [SandboxNext]_sandboxVars => [Kept]_sandboxVars
  BY <1>1, <1>2
<1> QED BY <1>3, SandboxInvariance, PTL DEF SandboxSpec, ExposedByPanelsOnly
=============================================================================
