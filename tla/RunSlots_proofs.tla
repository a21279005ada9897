-------------------------- MODULE RunSlots_proofs --------------------------
(***************************************************************************)
(* Proofs about RunSlots, for any number of requests, sessions and slots.  *)
(*                                                                         *)
(* The inductive invariant ties the three places where a lock can be, in   *)
(* the table, in the memory of the mutex holder, nowhere, to the mutex     *)
(* (AdmissionInv, SlotsAreExclusive), and a driver to the session of its   *)
(* Round (RunInv).  With it, each action property is one case per action.  *)
(***************************************************************************)
EXTENDS RunSlots, TLAPS

\* Only the mutex holder acquires, and only a holder that is still at its
\* reclaiming has rows in memory.
AdmissionInv ==
    /\ \A w \in Attempts : pc[w] \in Acquiring <=> mutex = w
    /\ \A s \in Sessions : taken[s] # NoOne =>
          mutex \in Attempts /\ pc[mutex] = "begun"

\* A Round exists only once its attempt drives; whoever drives, resumes or
\* aborts a Round does so in the Round's session.
RunInv ==
    /\ \A r \in Attempts : round[r] # "none" => pc[r] \in Driving \cup {"gone"}
    /\ \A w \in Attempts : run[w] # NoOne => round[run[w]] # "none" /\ at[run[w]] = at[w]
    /\ abort.step # "none" => abort.session \in Sessions
    /\ abort.target # NoOne => round[abort.target] # "none"

IInv == TypeOK /\ AdmissionInv /\ SlotsAreExclusive /\ RunInv

USE DEF Acquiring, Admitted, Driving, Maybe

-----------------------------------------------------------------------------
(* Initial states.                                                         *)

LEMMA InitIInv == ASSUME Init PROVE IInv
<1> USE RunSlotsAssumption DEF Init
<1>1. TypeOK
  BY DEF TypeOK, NoAbort
<1>2. AdmissionInv
  BY DEF AdmissionInv
<1>3. SlotsAreExclusive
  BY DEF SlotsAreExclusive, Row
<1>4. RunInv
  BY DEF RunInv, NoAbort
<1> QED BY <1>1, <1>2, <1>3, <1>4 DEF IInv

-----------------------------------------------------------------------------
(* Type correctness.                                                       *)

\* The rows keep their types when they are erased.
LEMMA EraseType ==
    ASSUME TypeOK, NEW S, Erase(S)
    PROVE  /\ lock' \in [Sessions -> Maybe(Attempts)]
           /\ slot' \in [Sessions -> Nat]
           /\ fresh' \in [Sessions -> BOOLEAN]
BY DEF TypeOK, Erase

LEMMA FreeType ==
    ASSUME TypeOK, NEW L, NEW s, Free(L, s) \/ UNCHANGED locks
    PROVE  /\ lock' \in [Sessions -> Maybe(Attempts)]
           /\ slot' \in [Sessions -> Nat]
           /\ fresh' \in [Sessions -> BOOLEAN]
BY EraseType DEF TypeOK, Free, locks

\* So do the Rounds and the claims when a cleanup or a settlement ends them.
LEMMA DropClaimsType ==
    ASSUME TypeOK, NEW Rs, DropClaims(Rs)
    PROVE  /\ claim' \in [Attempts -> Maybe(Attempts)]
           /\ live' \in [Attempts -> BOOLEAN]
<1>1. claim' \in [Attempts -> Maybe(Attempts)]
  BY DEF TypeOK, DropClaims
<1>2. \A r \in Attempts : (live[r] /\ r \notin Rs) \in BOOLEAN
  OBVIOUS
<1>3. live' \in [Attempts -> BOOLEAN]
  BY <1>2 DEF DropClaims
<1> QED BY <1>1, <1>3

LEMMA SettleType ==
    ASSUME TypeOK, NEW r \in Attempts, NEW status \in {"waiting", "closed"}, Settle(r, status)
    PROVE  /\ round' \in [Attempts -> {"none", "running", "waiting", "closed"}]
           /\ claim' \in [Attempts -> Maybe(Attempts)]
           /\ live' \in [Attempts -> BOOLEAN]
BY DEF TypeOK, Settle, DropClaims

LEMMA CleanupType ==
    ASSUME TypeOK, NEW S, NEW Rs, CloseOrphans(S, Rs)
    PROVE  /\ round' \in [Attempts -> {"none", "running", "waiting", "closed"}]
           /\ claim' \in [Attempts -> Maybe(Attempts)]
           /\ live' \in [Attempts -> BOOLEAN]
BY DEF TypeOK, CloseOrphans, DropClaims

\* What an attempt leaves behind when it ends.
LEMMA VanishType ==
    ASSUME TypeOK, NEW w \in Attempts, pc[w] # "new", Vanish(w)
    PROVE  /\ pc' \in [Attempts -> {"new", "gone"} \cup Acquiring \cup Admitted]
           /\ run' \in [Attempts -> Maybe(Attempts)]
           /\ cancelled' \subseteq Attempts /\ token' \subseteq Attempts /\ lost' \subseteq Attempts
           /\ UNCHANGED <<mutex, taken, busy, at, abort>>
           /\ \A v \in Attempts : pc'[v] # "new" => at'[v] \in Sessions
           /\ \A v \in Attempts : pc'[v] \in Driving => run'[v] \in Attempts
BY DEF TypeOK, Vanish, admission

\* Every action keeps the types.
LEMMA TypeStep == ASSUME TypeOK, [Next]_vars PROVE TypeOK'
<1> USE RunSlotsAssumption
<1> USE DEF locks, admission, claims, signals
<1>1. ASSUME NEW w \in Attempts, NEW s \in Sessions, Begin(w, s) PROVE TypeOK'
  BY <1>1 DEF Begin, TypeOK, Stale
<1>2. ASSUME NEW w \in Attempts, NEW s \in Sessions, Reclaim(w, s) PROVE TypeOK'
  <2>1. CASE ActiveWork(s)
    BY <1>2, <2>1 DEF Reclaim, Restore, TypeOK
  <2>2. CASE ~ActiveWork(s)
    BY <1>2, <2>2, CleanupType, EraseType DEF Reclaim, TypeOK
  <2> QED BY <2>1, <2>2
<1>3. ASSUME NEW w \in Attempts, NEW s \in Sessions, ReclaimFails(w, s) PROVE TypeOK'
  BY <1>3, CleanupType DEF ReclaimFails, Restore, TypeOK
<1>4. ASSUME NEW w \in Attempts, Sweep(w) PROVE TypeOK'
  BY <1>4, CleanupType DEF Sweep, TypeOK
<1>5. ASSUME NEW w \in Attempts, Place(w) PROVE TypeOK'
  BY <1>5 DEF Place, TypeOK
<1>6. ASSUME NEW w \in Attempts, Withdraw(w) PROVE TypeOK'
  BY <1>6, EraseType DEF Withdraw, TypeOK
<1>7. ASSUME NEW w \in Attempts, TakeGuard(w) \/ InitDone(w) \/ Handover(w) PROVE TypeOK'
  BY <1>7 DEF TakeGuard, InitDone, Handover, TypeOK
<1>8. ASSUME NEW w \in Attempts, GiveUp(w) PROVE TypeOK'
  BY <1>8, VanishType, FreeType DEF GiveUp, Leave, TypeOK
<1>9. ASSUME NEW w \in Attempts, LeaveDuringInit(w) \/ StopLost(w) \/ Crash(w) PROVE TypeOK'
  BY <1>9, VanishType DEF LeaveDuringInit, StopLost, Crash, TypeOK
<1>10. ASSUME NEW w \in Attempts, RenewLock(w) PROVE TypeOK'
  BY <1>10 DEF RenewLock, TypeOK
<1>11. ASSUME NEW w \in Attempts, CreateRound(w) PROVE TypeOK'
  BY <1>11 DEF CreateRound, TypeOK
<1>12. ASSUME NEW w \in Attempts, DisconnectHandover(w) PROVE TypeOK'
  BY <1>12, FreeType DEF DisconnectHandover, TypeOK
<1>13. ASSUME NEW w \in Attempts, ClaimContinuation(w) PROVE TypeOK'
  BY <1>13 DEF ClaimContinuation, TypeOK
<1>14. ASSUME NEW w \in Attempts, StartContinuation(w) PROVE TypeOK'
  BY <1>14 DEF StartContinuation, TypeOK
<1>15. ASSUME NEW w \in Attempts, Consume(w) PROVE TypeOK'
  BY <1>15, DropClaimsType DEF Consume, TypeOK
<1>16. ASSUME NEW w \in Attempts, RenewClaim(w) PROVE TypeOK'
  BY <1>16 DEF RenewClaim, TypeOK
<1>17. ASSUME NEW w \in Attempts, NEW status \in {"waiting", "closed"}, End(w, status) PROVE TypeOK'
  <2>1. run[w] \in Attempts
    BY <1>17 DEF End, MayWrite, TypeOK
  <2> QED BY <1>17, <2>1, VanishType, FreeType, SettleType DEF End, MayWrite, Leave, TypeOK
<1>18. ASSUME NEW w \in Attempts, StopCancelled(w) PROVE TypeOK'
  <2>1. run[w] \in Attempts
    BY <1>18 DEF StopCancelled, TypeOK
  <2> QED BY <1>18, <2>1, VanishType, FreeType, SettleType DEF StopCancelled, Leave, TypeOK
<1>19. ASSUME NEW w \in Attempts, StopSuperseded(w) PROVE TypeOK'
  BY <1>19, VanishType, FreeType DEF StopSuperseded, Leave, TypeOK
<1>20. ASSUME NEW w \in Attempts, HeartbeatMissing(w) \/ HeartbeatFails(w) PROVE TypeOK'
  BY <1>20 DEF HeartbeatMissing, HeartbeatFails, TypeOK
<1>21. ASSUME NEW s \in Sessions, AbortBegin(s) PROVE TypeOK'
  BY <1>21 DEF AbortBegin, MainRound, TypeOK
<1>22. ASSUME AbortClose PROVE TypeOK'
  <2>1. CASE abort.target = NoOne
    BY <1>22, <2>1 DEF AbortClose, TypeOK
  <2>2. CASE abort.target \in Attempts
    BY <1>22, <2>2, SettleType DEF AbortClose, TypeOK
  <2> QED BY <2>1, <2>2 DEF TypeOK
<1>23. ASSUME AbortRelease PROVE TypeOK'
  BY <1>23, FreeType DEF AbortRelease, TypeOK, NoAbort
<1>24. ASSUME AbortFails PROVE TypeOK'
  BY <1>24 DEF AbortFails, TypeOK, NoAbort
<1>25. ASSUME StartupLocks PROVE TypeOK'
  BY <1>25, EraseType DEF StartupLocks, TypeOK
<1>26. ASSUME NEW r \in Attempts, StartupCloses(r) PROVE TypeOK'
  <2>1. CASE round[r] = "running"
    BY <1>26, <2>1, SettleType DEF StartupCloses, TypeOK
  <2>2. CASE round[r] # "running"
    BY <1>26, <2>2, DropClaimsType DEF StartupCloses, TypeOK
  <2> QED BY <2>1, <2>2
<1>27. ASSUME NEW s \in Sessions, LockAges(s) PROVE TypeOK'
  BY <1>27 DEF LockAges, TypeOK
<1>28. ASSUME NEW r \in Attempts, LeaseLapses(r) PROVE TypeOK'
  BY <1>28 DEF LeaseLapses, TypeOK
<1>29. CASE UNCHANGED vars
  BY <1>29 DEF vars, TypeOK
<1> QED
  BY <1>1, <1>2, <1>3, <1>4, <1>5, <1>6, <1>7, <1>8, <1>9, <1>10, <1>11, <1>12, <1>13,
     <1>14, <1>15, <1>16, <1>17, <1>18, <1>19, <1>20, <1>21, <1>22, <1>23, <1>24, <1>25,
     <1>26, <1>27, <1>28, <1>29
  DEF Next, Acquire, Request, Drive, Environment, Refuse, AcquireFails

\* The rows, the requests and the Rounds keep their types.
THEOREM TypeCorrect == Spec => []TypeOK
<1>1. Init => TypeOK
  BY InitIInv DEF IInv
<1>2. TypeOK /\ [Next]_vars => TypeOK'
  BY TypeStep
<1> QED BY <1>1, <1>2, PTL DEF Spec

-----------------------------------------------------------------------------
(* The rows of the user.                                                   *)

\* Deleting rows, in the table or in memory, keeps the remaining slots apart.
LEMMA EraseKeepsSlots ==
    ASSUME TypeOK, SlotsAreExclusive, NEW S, Erase(S),
           \A s \in Sessions : taken'[s] # NoOne => taken'[s] = taken[s] /\ s \notin S
    PROVE  SlotsAreExclusive'
<1> SUFFICES ASSUME NEW s \in Sessions, Row(s)'
             PROVE  /\ slot'[s] < Limit
                    /\ \A x \in Sessions \ {s} : Row(x)' => slot'[x] # slot'[s]
                    /\ lock'[s] = NoOne \/ taken'[s] = NoOne
  BY DEF SlotsAreExclusive
<1>1. \A x \in Sessions : Row(x)' =>
          /\ x \notin S /\ Row(x) /\ slot'[x] = slot[x]
          /\ lock'[x] = lock[x] /\ taken'[x] \in {taken[x], NoOne}
  BY DEF TypeOK, Row, Erase
<1> QED BY <1>1 DEF SlotsAreExclusive

\* So does putting a row back that was held in memory.
LEMMA RestoreKeepsSlots ==
    ASSUME TypeOK, SlotsAreExclusive, NEW x \in Sessions, taken[x] # NoOne, Restore(x),
           taken' = [taken EXCEPT ![x] = NoOne]
    PROVE  SlotsAreExclusive'
<1>1. \A s \in Sessions : slot'[s] = slot[s] /\ (Row(s)' => Row(s))
  BY DEF TypeOK, Row, Restore
<1>2. \A s \in Sessions : lock'[s] = NoOne \/ taken'[s] = NoOne
  BY DEF TypeOK, Restore, SlotsAreExclusive, Row
<1> QED BY <1>1, <1>2 DEF SlotsAreExclusive

\* A lock is inserted in a slot that no row has, and no row is in memory then.
LEMMA PlaceKeepsSlots ==
    ASSUME TypeOK, AdmissionInv, SlotsAreExclusive, NEW w \in Attempts, Place(w)
    PROVE  SlotsAreExclusive'
<1> USE RunSlotsAssumption
<1>1. at[w] \in Sessions /\ pc[w] = "swept" /\ mutex = w
  BY DEF Place, TypeOK, AdmissionInv
<1>2. \A s \in Sessions : taken[s] = NoOne /\ taken'[s] = NoOne
  BY <1>1 DEF Place, AdmissionInv
<1>3. PICK n \in 0 .. Limit - 1 :
         /\ \A s \in Held : slot[s] # n
         /\ slot' = [slot EXCEPT ![at[w]] = n]
  BY DEF Place
<1>4. \A s \in Sessions \ {at[w]} :
         /\ slot'[s] = slot[s] /\ (Row(s)' => Row(s) /\ s \in Held)
  BY <1>1, <1>2, <1>3 DEF Place, TypeOK, Row, Held
<1>5. slot'[at[w]] = n /\ n < Limit
  BY <1>1, <1>3 DEF TypeOK
<1>6. \A s \in Sessions : Row(s)' => slot'[s] < Limit
  BY <1>4, <1>5 DEF SlotsAreExclusive
<1>7. \A s \in Sessions : Row(s)' => \A x \in Sessions \ {s} : Row(x)' => slot'[x] # slot'[s]
  BY <1>1, <1>3, <1>4, <1>5 DEF SlotsAreExclusive
<1> QED BY <1>2, <1>6, <1>7 DEF SlotsAreExclusive

\* Every action keeps the slots of the rows distinct and below the limit.
LEMMA SlotsStep ==
    ASSUME IInv, [Next]_vars
    PROVE  SlotsAreExclusive'
<1> USE RunSlotsAssumption DEF IInv
<1> USE DEF locks, admission
<1> DEFINE Still == UNCHANGED <<locks, taken>>
<1> DEFINE Freed == (\E s \in Sessions, L \in Maybe(Attempts) : Free(L, s)) /\ UNCHANGED taken
<1>1. ASSUME Still PROVE SlotsAreExclusive'
  BY <1>1 DEF SlotsAreExclusive, Row
<1>2. ASSUME Freed PROVE SlotsAreExclusive'
  <2> PICK s \in Sessions, L \in Maybe(Attempts) : Free(L, s)
    BY <1>2
  <2>1. CASE lock[s] = L /\ L # NoOne
    <3>1. Erase({s}) /\ taken[s] = NoOne /\ taken' = taken
      BY <1>2, <2>1 DEF Free, SlotsAreExclusive, Row
    <3> QED BY <3>1, EraseKeepsSlots
  <2>2. CASE ~(lock[s] = L /\ L # NoOne)
    BY <1>1, <1>2, <2>2 DEF Free
  <2> QED BY <2>1, <2>2
<1>3. ASSUME NEW w \in Attempts, pc[w] # "new", Leave(w) PROVE Still \/ Freed
  BY <1>3 DEF Leave, Vanish, TypeOK
<1>4. ASSUME NEW w \in Attempts, NEW s \in Sessions, Begin(w, s) PROVE SlotsAreExclusive'
  <2>1. \A x \in Sessions : taken[x] = NoOne
    BY <1>4 DEF Begin, AdmissionInv
  <2>2. \A x \in Sessions : slot'[x] = slot[x] /\ (Row(x)' => Row(x))
                           /\ (lock'[x] = NoOne \/ taken'[x] = NoOne)
    BY <1>4, <2>1 DEF Begin, Row, Stale
  <2> QED BY <2>2 DEF SlotsAreExclusive
<1>5. ASSUME NEW w \in Attempts, NEW s \in Sessions, Reclaim(w, s) PROVE SlotsAreExclusive'
  <2>1. CASE ActiveWork(s)
    BY <1>5, <2>1, RestoreKeepsSlots DEF Reclaim
  <2>2. CASE ~ActiveWork(s)
    <3>1. Erase({s}) /\ taken' = [taken EXCEPT ![s] = NoOne]
      BY <1>5, <2>2 DEF Reclaim
    <3>2. \A x \in Sessions : taken'[x] # NoOne => taken'[x] = taken[x] /\ x \notin {s}
      BY <3>1 DEF TypeOK
    <3> QED BY <3>1, <3>2, EraseKeepsSlots
  <2> QED BY <2>1, <2>2
<1>6. ASSUME NEW w \in Attempts, NEW s \in Sessions, ReclaimFails(w, s) PROVE SlotsAreExclusive'
  BY <1>6, RestoreKeepsSlots DEF ReclaimFails
<1>7. ASSUME NEW w \in Attempts, Withdraw(w) PROVE SlotsAreExclusive'
  BY <1>7, EraseKeepsSlots DEF Withdraw
<1>8. ASSUME NEW s \in Sessions, LockAges(s) PROVE SlotsAreExclusive'
  BY <1>8 DEF LockAges, SlotsAreExclusive, Row
<1>9. ASSUME NEW w \in Attempts, RenewLock(w) PROVE SlotsAreExclusive'
  BY <1>9 DEF RenewLock, SlotsAreExclusive, Row
<1>10. ASSUME StartupLocks PROVE SlotsAreExclusive'
  <2> DEFINE S == {s \in Sessions : Stale(s) /\ ~ActiveWork(s)}
  <2>1. Erase(S) /\ taken' = taken
    BY <1>10 DEF StartupLocks
  <2>2. \A s \in Sessions : taken[s] # NoOne => s \notin S
    BY DEF SlotsAreExclusive, Row, Stale
  <2> QED BY <2>1, <2>2, EraseKeepsSlots
<1>11. ASSUME NEW w \in Attempts, DisconnectHandover(w) PROVE Freed
  BY <1>11 DEF DisconnectHandover, TypeOK
<1>12. ASSUME AbortRelease PROVE Still \/ Freed
  BY <1>12 DEF AbortRelease, TypeOK, RunInv, NoAbort
<1>13. ASSUME NEW w \in Attempts,
              \/ GiveUp(w) \/ StopCancelled(w) \/ StopSuperseded(w)
              \/ End(w, "waiting") \/ End(w, "closed")
       PROVE  Still \/ Freed
  BY <1>3, <1>13 DEF GiveUp, StopCancelled, StopSuperseded, End, MayWrite
<1>14. ASSUME NEW w \in Attempts,
              \/ Sweep(w) \/ TakeGuard(w) \/ InitDone(w) \/ LeaveDuringInit(w)
              \/ CreateRound(w) \/ ClaimContinuation(w) \/ Handover(w)
       PROVE  Still
  BY <1>14 DEF Sweep, TakeGuard, InitDone, LeaveDuringInit, CreateRound, ClaimContinuation,
               Handover, Vanish
<1>15. ASSUME NEW w \in Attempts,
              \/ StartContinuation(w) \/ Consume(w) \/ RenewClaim(w) \/ StopLost(w)
              \/ HeartbeatMissing(w) \/ HeartbeatFails(w) \/ Crash(w)
       PROVE  Still
  BY <1>15 DEF StartContinuation, Consume, RenewClaim, StopLost, HeartbeatMissing,
               HeartbeatFails, Crash, Vanish
<1>16. ASSUME \/ \E s \in Sessions : AbortBegin(s)
              \/ AbortClose \/ AbortFails
              \/ \E r \in Attempts : StartupCloses(r) \/ LeaseLapses(r)
              \/ UNCHANGED vars
       PROVE  Still
  BY <1>16 DEF AbortBegin, AbortClose, AbortFails, StartupCloses, LeaseLapses, vars
<1> HIDE DEF Still, Freed
<1> QED
  BY <1>1, <1>2, <1>4, <1>5, <1>6, <1>7, <1>8, <1>9, <1>10, <1>11, <1>12, <1>13, <1>14,
     <1>15, <1>16, PlaceKeepsSlots
  DEF Next, Acquire, Request, Drive, Environment, Refuse, AcquireFails

-----------------------------------------------------------------------------
(* The mutex and the memory of its holder.                                 *)

\* Every action keeps the mutex with the one request that is acquiring.
LEMMA AdmissionStep == ASSUME IInv, [Next]_vars PROVE AdmissionInv'
<1> USE RunSlotsAssumption DEF IInv
<1> USE DEF admission
<1>1. ASSUME NEW w \in Attempts, NEW s \in Sessions, Begin(w, s) PROVE AdmissionInv'
  BY <1>1 DEF Begin, AdmissionInv, TypeOK
<1>2. ASSUME NEW w \in Attempts, NEW s \in Sessions, Reclaim(w, s) \/ ReclaimFails(w, s)
      PROVE  AdmissionInv'
  BY <1>2 DEF Reclaim, ReclaimFails, AdmissionInv, TypeOK
<1>3. ASSUME NEW w \in Attempts, Sweep(w) PROVE AdmissionInv'
  BY <1>3 DEF Sweep, AdmissionInv, TypeOK
<1>4. ASSUME NEW w \in Attempts, Place(w) PROVE AdmissionInv'
  BY <1>4 DEF Place, AdmissionInv, TypeOK
<1>5. ASSUME NEW w \in Attempts, pc[w] \in Acquiring, Withdraw(w) PROVE AdmissionInv'
  BY <1>5 DEF Withdraw, AdmissionInv, TypeOK
<1>6. ASSUME NEW w \in Attempts, pc[w] \in Admitted, Vanish(w) PROVE AdmissionInv'
  BY <1>6 DEF Vanish, AdmissionInv, TypeOK
<1>7. ASSUME NEW w \in Attempts,
             \/ GiveUp(w) \/ LeaveDuringInit(w) \/ StopLost(w) \/ Crash(w) \/ StopCancelled(w)
             \/ StopSuperseded(w) \/ End(w, "waiting") \/ End(w, "closed")
      PROVE  AdmissionInv'
  BY <1>6, <1>7 DEF GiveUp, LeaveDuringInit, StopLost, Crash, StopCancelled, StopSuperseded,
                    End, MayWrite, Leave
<1>8. ASSUME NEW w \in Attempts,
             \/ TakeGuard(w) \/ InitDone(w) \/ CreateRound(w) \/ ClaimContinuation(w)
             \/ Handover(w) \/ DisconnectHandover(w)
      PROVE  AdmissionInv'
  BY <1>8 DEF TakeGuard, InitDone, CreateRound, ClaimContinuation, Handover,
              DisconnectHandover, AdmissionInv, TypeOK
<1>9. ASSUME UNCHANGED <<admission, pc>> PROVE AdmissionInv'
  BY <1>9 DEF AdmissionInv
<1>10. ASSUME NEW w \in Attempts,
              \/ RenewLock(w) \/ StartContinuation(w) \/ Consume(w) \/ RenewClaim(w)
              \/ HeartbeatMissing(w) \/ HeartbeatFails(w)
       PROVE  UNCHANGED <<admission, pc>>
  BY <1>10 DEF RenewLock, StartContinuation, Consume, RenewClaim, HeartbeatMissing,
               HeartbeatFails
<1>11. ASSUME Environment \/ UNCHANGED vars PROVE UNCHANGED <<admission, pc>>
  BY <1>11 DEF Environment, AbortBegin, AbortClose, AbortRelease, AbortFails, StartupLocks,
               StartupCloses, LockAges, LeaseLapses, vars
<1> QED
  BY <1>1, <1>2, <1>3, <1>4, <1>5, <1>7, <1>8, <1>9, <1>10, <1>11
  DEF Next, Acquire, Request, Drive, Refuse, AcquireFails

-----------------------------------------------------------------------------
(* Rounds, their drivers and their sessions.                               *)

\* No step takes a Round back to "none" or creates one that is not its own.
Kept == \A r \in Attempts : (round'[r] = "none") = (round[r] = "none")

LEMMA CleanupKeeps ==
    ASSUME TypeOK, NEW S, NEW Rs, \A r \in Rs : round[r] = "running", CloseOrphans(S, Rs)
    PROVE  Kept
BY DEF Kept, CloseOrphans, TypeOK

LEMMA SettleKeeps ==
    ASSUME TypeOK, NEW r \in Attempts, round[r] # "none",
           NEW status \in {"waiting", "closed"}, Settle(r, status)
    PROVE  Kept
BY DEF Kept, Settle, TypeOK

\* An attempt that ends leaves every other Round and session as they are.
LEMMA VanishKeeps ==
    ASSUME TypeOK, RunInv, Kept, NEW w \in Attempts, Vanish(w)
    PROVE  RunInv'
<1>1. \A r \in Attempts : round'[r] # "none" => pc'[r] \in Driving \cup {"gone"}
  BY DEF Vanish, Kept, RunInv, TypeOK
<1>2. \A v \in Attempts : run'[v] # NoOne => round'[run'[v]] # "none" /\ at'[run'[v]] = at'[v]
  BY RunSlotsAssumption DEF Vanish, Kept, RunInv, TypeOK
<1>3. /\ abort'.step # "none" => abort'.session \in Sessions
      /\ abort'.target # NoOne => round'[abort'.target] # "none"
  BY DEF Vanish, Kept, RunInv, TypeOK
<1> QED BY <1>1, <1>2, <1>3 DEF RunInv

\* Every action keeps drivers, Rounds and sessions together.
LEMMA RunStep == ASSUME IInv, [Next]_vars PROVE RunInv'
<1> USE RunSlotsAssumption DEF IInv
<1>1. ASSUME Kept, UNCHANGED <<pc, at, run, abort>> PROVE RunInv'
  BY <1>1 DEF Kept, RunInv, TypeOK
<1>2. ASSUME UNCHANGED round PROVE Kept
  BY <1>2 DEF Kept
<1>3. ASSUME NEW w \in Attempts, NEW s \in Sessions, Begin(w, s) PROVE RunInv'
  <2>1. pc[w] = "new" /\ round[w] = "none" /\ round' = round
    BY <1>3 DEF Begin, RunInv, TypeOK
  <2>2. PICK r \in {NoOne} \cup {q \in Attempts : at[q] = s /\ round[q] = "waiting"} :
           run' = [run EXCEPT ![w] = r]
    BY <1>3 DEF Begin
  <2>3. \A q \in Attempts : round[q] # "none" => at'[q] = at[q] /\ pc'[q] = pc[q]
    BY <1>3, <2>1 DEF Begin, TypeOK
  <2>4. \A v \in Attempts : run'[v] # NoOne => round'[run'[v]] # "none" /\ at'[run'[v]] = at'[v]
    BY <1>3, <2>1, <2>2, <2>3 DEF Begin, RunInv, TypeOK
  <2> QED BY <1>3, <2>1, <2>3, <2>4 DEF Begin, RunInv
<1>4. ASSUME NEW w \in Attempts, NEW s \in Sessions, Reclaim(w, s) PROVE RunInv'
  <2>1. CASE ActiveWork(s)
    BY <1>1, <1>2, <1>4, <2>1 DEF Reclaim
  <2>2. CASE ~ActiveWork(s)
    BY <1>1, <1>4, <2>2, CleanupKeeps DEF Reclaim, Orphans
  <2> QED BY <2>1, <2>2
<1>5. ASSUME NEW w \in Attempts, NEW s \in Sessions, ReclaimFails(w, s) PROVE RunInv'
  <2>1. PICK Rs \in SUBSET Orphans({s}) : CloseOrphans({s}, Rs)
    BY <1>5 DEF ReclaimFails
  <2>2. Kept
    BY <2>1, CleanupKeeps DEF Orphans
  <2> QED BY <1>1, <1>5, <2>2 DEF ReclaimFails
<1>6. ASSUME NEW w \in Attempts, Sweep(w) PROVE RunInv'
  <2> DEFINE idle == {x \in Sessions \ Held : ~ActiveWork(x)}
  <2>1. CloseOrphans(idle, Orphans(idle)) /\ UNCHANGED <<at, run, abort>>
        /\ pc[w] = "begun" /\ pc' = [pc EXCEPT ![w] = "swept"]
    BY <1>6 DEF Sweep
  <2>2. Kept
    BY <2>1, CleanupKeeps DEF Orphans
  <2>3. \A r \in Attempts : round[r] # "none" => pc'[r] = pc[r]
    BY <2>1 DEF RunInv, TypeOK
  <2> QED BY <2>1, <2>2, <2>3 DEF Kept, RunInv, TypeOK
<1>7. ASSUME NEW w \in Attempts, Place(w) PROVE RunInv'
  BY <1>7 DEF Place, RunInv, TypeOK
<1>8. ASSUME NEW w \in Attempts, pc[w] \in Acquiring, Withdraw(w) PROVE RunInv'
  BY <1>8 DEF Withdraw, RunInv, TypeOK
<1>9. ASSUME NEW w \in Attempts, TakeGuard(w) \/ InitDone(w) \/ Handover(w) \/ DisconnectHandover(w)
      PROVE  RunInv'
  BY <1>9 DEF TakeGuard, InitDone, Handover, DisconnectHandover, RunInv, TypeOK
<1>10. ASSUME NEW w \in Attempts, GiveUp(w) \/ LeaveDuringInit(w) \/ StopLost(w) \/ Crash(w)
                                  \/ StopSuperseded(w)
       PROVE  RunInv'
  BY <1>2, <1>10, VanishKeeps DEF GiveUp, LeaveDuringInit, StopLost, Crash, StopSuperseded, Leave
<1>11. ASSUME NEW w \in Attempts, CreateRound(w) PROVE RunInv'
  <2>1. round[w] = "none"
    BY <1>11 DEF CreateRound, RunInv, TypeOK
  <2>2. \A r \in Attempts \ {w} : round'[r] = round[r] /\ run'[r] = run[r] /\ pc'[r] = pc[r]
    BY <1>11 DEF CreateRound, TypeOK
  <2>3. round'[w] = "running" /\ run'[w] = w /\ pc'[w] = "handover"
    BY <1>11 DEF CreateRound, TypeOK
  <2>4. \A v \in Attempts : run'[v] # NoOne => round'[run'[v]] # "none" /\ at[run'[v]] = at[v]
    BY <2>1, <2>2, <2>3 DEF RunInv, TypeOK
  <2> QED BY <1>11, <2>1, <2>2, <2>3, <2>4 DEF CreateRound, RunInv, TypeOK
<1>12. ASSUME NEW w \in Attempts, ClaimContinuation(w) PROVE RunInv'
  BY <1>12 DEF ClaimContinuation, RunInv, TypeOK
<1>13. ASSUME NEW w \in Attempts, StartContinuation(w) PROVE RunInv'
  <2>1. run[w] \in Attempts
    BY <1>13 DEF StartContinuation, TypeOK
  <2>2. Kept
    BY <1>13, <2>1 DEF StartContinuation, Kept, TypeOK
  <2> QED BY <1>1, <1>13, <2>2 DEF StartContinuation
<1>14. ASSUME NEW w \in Attempts, NEW status \in {"waiting", "closed"},
              End(w, status) \/ (StopCancelled(w) /\ status = "closed")
       PROVE  RunInv'
  <2>1. pc[w] \in Driving /\ Settle(run[w], status) /\ Vanish(w)
    BY <1>14 DEF End, MayWrite, StopCancelled, Leave
  <2>2. run[w] \in Attempts /\ round[run[w]] # "none"
    BY <2>1 DEF RunInv, TypeOK
  <2> QED BY <2>1, <2>2, SettleKeeps, VanishKeeps
<1>15. ASSUME NEW w \in Attempts,
              \/ RenewLock(w) \/ Consume(w) \/ RenewClaim(w)
              \/ HeartbeatMissing(w) \/ HeartbeatFails(w)
       PROVE  RunInv'
  BY <1>1, <1>2, <1>15 DEF RenewLock, Consume, RenewClaim, HeartbeatMissing, HeartbeatFails
<1>16. ASSUME NEW s \in Sessions, AbortBegin(s) PROVE RunInv'
  BY <1>16 DEF AbortBegin, MainRound, Open, RunInv, TypeOK
<1>17. ASSUME AbortClose PROVE RunInv'
  <2>1. Kept
    BY <1>2, <1>17, SettleKeeps DEF AbortClose, RunInv, TypeOK
  <2>2. abort'.target = abort.target /\ abort'.session = abort.session
    BY <1>17 DEF AbortClose, TypeOK
  <2> QED BY <1>17, <2>1, <2>2 DEF AbortClose, Kept, RunInv, TypeOK
<1>18. ASSUME AbortRelease \/ AbortFails PROVE RunInv'
  BY <1>18 DEF AbortRelease, AbortFails, NoAbort, RunInv, TypeOK
<1>19. ASSUME NEW r \in Attempts, StartupCloses(r) PROVE RunInv'
  <2>1. Kept
    BY <1>2, <1>19, SettleKeeps DEF StartupCloses, Open
  <2> QED BY <1>1, <1>19, <2>1 DEF StartupCloses
<1>20. ASSUME \/ StartupLocks \/ \E s \in Sessions : LockAges(s)
              \/ \E r \in Attempts : LeaseLapses(r)
       PROVE  RunInv'
  BY <1>1, <1>2, <1>20 DEF StartupLocks, LockAges, LeaseLapses, vars
<1>21. CASE UNCHANGED vars
  BY <1>1, <1>2, <1>21 DEF vars
<1> QED
  BY <1>3, <1>4, <1>5, <1>6, <1>7, <1>8, <1>9, <1>10, <1>11, <1>12, <1>13, <1>14, <1>15,
     <1>16, <1>17, <1>18, <1>19, <1>20, <1>21
  DEF Next, Acquire, Request, Drive, Environment, Refuse, AcquireFails

-----------------------------------------------------------------------------
(* What the runs check, for every instance.                                *)

LEMMA StepIInv == ASSUME IInv, [Next]_vars PROVE IInv'
BY TypeStep, AdmissionStep, SlotsStep, RunStep DEF IInv

\* The inductive invariant: where the rows are and who drives what.
THEOREM Invariance == Spec => []IInv
<1>1. Init => IInv
  BY InitIInv
<1>2. IInv /\ [Next]_vars => IInv'
  BY StepIInv
<1> QED BY <1>1, <1>2, PTL DEF Spec

\* No row, deleted and held in memory or not, shares its slot or exceeds the
\* limit.
THEOREM SlotsAreExclusiveHolds == Spec => []SlotsAreExclusive
<1>1. IInv => SlotsAreExclusive
  BY DEF IInv
<1> QED BY <1>1, Invariance, PTL

\* A recovery step leaves the Rounds and claims it may not touch alone.
LEMMA RecoveryStep ==
    ASSUME IInv, Recovery, NEW r \in Attempts, Owned(r)
    PROVE  round'[r] = round[r] /\ claim'[r] = claim[r]
<1> USE RunSlotsAssumption DEF IInv
<1> DEFINE Same == round'[r] = round[r] /\ claim'[r] = claim[r]
<1>1. ActiveWork(at[r]) \/ (at[r] \in Held /\ at[r] \in Sessions)
  <2>1. ASSUME NEW w \in Attempts, pc[w] \in Driving, run[w] = r, lock[at[w]] = w
        PROVE  at[r] \in Held /\ at[r] \in Sessions
    BY <2>1 DEF RunInv, TypeOK, Held
  <2> QED BY <2>1 DEF Owned
<1>2. ASSUME NEW S \in SUBSET Sessions, NEW Rs, CloseOrphans(S, Rs), at[r] \notin S,
             \A q \in Rs : at[q] \in S
      PROVE  Same
  BY <1>2 DEF CloseOrphans, DropClaims, TypeOK
<1>3. ASSUME NEW s \in Sessions, taken[s] # NoOne, ~ActiveWork(s) PROVE at[r] # s
  BY <1>1, <1>3 DEF SlotsAreExclusive, Row, Held
<1>4. ASSUME NEW w \in Attempts, NEW s \in Sessions, Reclaim(w, s) PROVE Same
  <2>1. CASE ActiveWork(s)
    BY <1>4, <2>1 DEF Reclaim, claims
  <2>2. CASE ~ActiveWork(s)
    BY <1>2, <1>3, <1>4, <2>2 DEF Reclaim, Orphans
  <2> QED BY <2>1, <2>2
<1>5. ASSUME NEW w \in Attempts, NEW s \in Sessions, ReclaimFails(w, s) PROVE Same
  BY <1>2, <1>3, <1>5 DEF ReclaimFails, Orphans
<1>6. ASSUME NEW w \in Attempts, Sweep(w) PROVE Same
  <2> DEFINE idle == {x \in Sessions \ Held : ~ActiveWork(x)}
  <2>1. CloseOrphans(idle, Orphans(idle))
    BY <1>6 DEF Sweep
  <2>2. at[r] \notin idle
    BY <1>1
  <2> QED BY <1>2, <2>1, <2>2 DEF Orphans
<1>7. ASSUME StartupLocks PROVE Same
  BY <1>7 DEF StartupLocks, claims
<1>8. ASSUME NEW q \in Attempts, StartupCloses(q) PROVE Same
  <2>1. q # r
    BY <1>1, <1>8 DEF StartupCloses
  <2> QED BY <1>8, <2>1 DEF StartupCloses, Settle, DropClaims, TypeOK
<1> QED BY <1>4, <1>5, <1>6, <1>7, <1>8 DEF Recovery

\* Recovery never closes a Round, or takes a claim, that somebody answers for.
THEOREM RecoverySparesTheLivingHolds == Spec => RecoverySparesTheLiving
<1>1. IInv /\ [Next]_vars =>
        [Recovery => \A r \in Attempts :
            Owned(r) => round'[r] = round[r] /\ claim'[r] = claim[r]]_vars
  BY RecoveryStep
<1> QED BY <1>1, Invariance, PTL DEF Spec, RecoverySparesTheLiving

\* A step takes a fresh row away only for its owner or for the abort that
\* read it.
LEMMA FreshLockStep ==
    ASSUME IInv, [Next]_vars, NEW s \in Sessions, lock[s] # NoOne, fresh[s], lock'[s] # lock[s]
    PROVE  \/ pc'[lock[s]] # pc[lock[s]]
           \/ abort.step = "closed" /\ abort.lock = lock[s]
<1> USE RunSlotsAssumption DEF IInv
<1> USE DEF locks
<1> DEFINE Excused == \/ pc'[lock[s]] # pc[lock[s]]
                      \/ abort.step = "closed" /\ abort.lock = lock[s]
<1> DEFINE Untouched == lock'[s] = lock[s]
<1>1. taken[s] = NoOne /\ lock[s] \in Attempts
  BY DEF SlotsAreExclusive, Row, TypeOK
<1>2. ASSUME NEW L, NEW x, Free(L, x) PROVE Untouched \/ lock[s] = L
  BY <1>2 DEF Free, Erase
<1>3. ASSUME NEW w \in Attempts, pc[w] # "gone", Leave(w) PROVE Untouched \/ Excused
  <2>1. lock'[s] # lock[s] => lock[s] = w
    BY <1>2, <1>3 DEF Leave
  <2>2. pc'[w] # pc[w]
    BY <1>3 DEF Leave, Vanish, TypeOK
  <2> QED BY <2>1, <2>2
<1>4. ASSUME NEW w \in Attempts, NEW x \in Sessions, Begin(w, x) PROVE Untouched
  BY <1>4 DEF Begin, Stale
<1>5. ASSUME NEW w \in Attempts, NEW x \in Sessions, Reclaim(w, x) \/ ReclaimFails(w, x)
      PROVE  Untouched
  <2>1. x # s
    BY <1>1, <1>5 DEF Reclaim, ReclaimFails
  <2>2. Restore(x) \/ Erase({x})
    BY <1>5 DEF Reclaim, ReclaimFails
  <2> QED BY <2>1, <2>2 DEF Restore, Erase, TypeOK
<1>6. ASSUME NEW w \in Attempts, Place(w) PROVE Untouched
  BY <1>6 DEF Place, MayPlace, Held, TypeOK
<1>7. ASSUME NEW w \in Attempts, Withdraw(w) PROVE Untouched
  BY <1>1, <1>7 DEF Withdraw, Erase
<1>8. ASSUME NEW w \in Attempts,
             \/ GiveUp(w) \/ StopCancelled(w) \/ StopSuperseded(w)
             \/ End(w, "waiting") \/ End(w, "closed")
      PROVE  Untouched \/ Excused
  BY <1>3, <1>8 DEF GiveUp, StopCancelled, StopSuperseded, End, MayWrite
<1>9. ASSUME NEW w \in Attempts, DisconnectHandover(w) PROVE Untouched \/ Excused
  <2>1. lock'[s] # lock[s] => lock[s] = w
    BY <1>2, <1>9 DEF DisconnectHandover
  <2>2. pc'[w] # pc[w]
    BY <1>9 DEF DisconnectHandover, TypeOK
  <2> QED BY <2>1, <2>2
<1>10. ASSUME AbortRelease PROVE Untouched \/ Excused
  BY <1>2, <1>10 DEF AbortRelease
<1>11. ASSUME StartupLocks PROVE Untouched
  BY <1>11 DEF StartupLocks, Erase, Stale
<1>12. ASSUME NEW w \in Attempts,
              \/ Sweep(w) \/ TakeGuard(w) \/ InitDone(w) \/ LeaveDuringInit(w) \/ RenewLock(w)
              \/ CreateRound(w) \/ ClaimContinuation(w) \/ Handover(w)
       PROVE  Untouched
  BY <1>12 DEF Sweep, TakeGuard, InitDone, LeaveDuringInit, RenewLock, CreateRound,
               ClaimContinuation, Handover
<1>13. ASSUME NEW w \in Attempts,
              \/ StartContinuation(w) \/ Consume(w) \/ RenewClaim(w) \/ StopLost(w)
              \/ HeartbeatMissing(w) \/ HeartbeatFails(w) \/ Crash(w)
       PROVE  Untouched
  BY <1>13 DEF StartContinuation, Consume, RenewClaim, StopLost, HeartbeatMissing,
               HeartbeatFails, Crash
<1>14. ASSUME \/ \E x \in Sessions : AbortBegin(x) \/ LockAges(x)
              \/ AbortClose \/ AbortFails
              \/ \E r \in Attempts : StartupCloses(r) \/ LeaseLapses(r)
              \/ UNCHANGED vars
       PROVE  Untouched
  BY <1>14 DEF AbortBegin, LockAges, AbortClose, AbortFails, StartupCloses, LeaseLapses, vars
<1> HIDE DEF Excused, Untouched
<1>15. Untouched \/ Excused
  BY <1>4, <1>5, <1>6, <1>7, <1>8, <1>9, <1>10, <1>11, <1>12, <1>13, <1>14
  DEF Next, Acquire, Request, Drive, Environment, Refuse, AcquireFails
<1> QED BY <1>15 DEF Untouched, Excused

\* No late release and no slow abort deletes the lock of a newer run.
THEOREM FreshLockIsKeptHolds == Spec => FreshLockIsKept
<1>1. IInv /\ [Next]_vars =>
        [\A s \in Sessions : lock[s] # NoOne /\ fresh[s] /\ lock'[s] # lock[s] =>
            \/ pc'[lock[s]] # pc[lock[s]]
            \/ abort.step = "closed" /\ abort.lock = lock[s]]_vars
  BY FreshLockStep
<1> QED BY <1>1, Invariance, PTL DEF Spec, FreshLockIsKept

\* Only preparing a turn brings its Round into being.
LEMMA OnlyCreateRound ==
    ASSUME IInv, [Next]_vars, NEW r \in Attempts, round[r] = "none", round'[r] # "none"
    PROVE  CreateRound(r)
<1> USE RunSlotsAssumption DEF IInv
<1>1. ASSUME UNCHANGED round PROVE FALSE
  BY <1>1
<1>2. ASSUME NEW S, NEW Rs, CloseOrphans(S, Rs), \A q \in Rs : round[q] = "running" PROVE FALSE
  BY <1>2 DEF CloseOrphans
<1>3. ASSUME NEW q \in Attempts, round[q] # "none", NEW status, Settle(q, status) PROVE FALSE
  BY <1>3 DEF Settle, TypeOK
<1>4. \A w \in Attempts : pc[w] \in Driving => run[w] \in Attempts /\ round[run[w]] # "none"
  BY DEF RunInv, TypeOK
<1>5. ASSUME NEW w \in Attempts, NEW s \in Sessions,
             Begin(w, s) \/ Reclaim(w, s) \/ ReclaimFails(w, s)
      PROVE  FALSE
  <2>1. CASE Reclaim(w, s)
    BY <1>1, <1>2, <2>1 DEF Reclaim, Orphans
  <2>2. CASE ReclaimFails(w, s)
    BY <1>2, <2>2 DEF ReclaimFails, Orphans
  <2>3. CASE Begin(w, s)
    BY <1>1, <2>3 DEF Begin
  <2> QED BY <1>5, <2>1, <2>2, <2>3
<1>6. ASSUME NEW w \in Attempts, Sweep(w) PROVE FALSE
  BY <1>2, <1>6 DEF Sweep, Orphans
<1>7. ASSUME NEW w \in Attempts, Place(w) \/ Withdraw(w) PROVE FALSE
  BY <1>1, <1>7 DEF Place, Withdraw
<1>8. ASSUME NEW w \in Attempts,
             \/ TakeGuard(w) \/ InitDone(w) \/ GiveUp(w) \/ LeaveDuringInit(w) \/ RenewLock(w)
             \/ ClaimContinuation(w) \/ Handover(w) \/ DisconnectHandover(w)
      PROVE  FALSE
  BY <1>1, <1>8 DEF TakeGuard, InitDone, GiveUp, LeaveDuringInit, RenewLock, ClaimContinuation,
                    Handover, DisconnectHandover
<1>9. ASSUME NEW w \in Attempts, CreateRound(w) PROVE w = r
  BY <1>9 DEF CreateRound, TypeOK
<1>10. ASSUME NEW w \in Attempts, StartContinuation(w) PROVE FALSE
  BY <1>4, <1>10 DEF StartContinuation, TypeOK
<1>11. ASSUME NEW w \in Attempts,
              StopCancelled(w) \/ End(w, "waiting") \/ End(w, "closed")
       PROVE  FALSE
  BY <1>3, <1>4, <1>11 DEF StopCancelled, End, MayWrite
<1>12. ASSUME NEW w \in Attempts,
              \/ Consume(w) \/ RenewClaim(w) \/ StopSuperseded(w) \/ StopLost(w)
              \/ HeartbeatMissing(w) \/ HeartbeatFails(w) \/ Crash(w)
       PROVE  FALSE
  BY <1>1, <1>12 DEF Consume, RenewClaim, StopSuperseded, StopLost, HeartbeatMissing,
                     HeartbeatFails, Crash
<1>13. ASSUME AbortClose PROVE FALSE
  BY <1>1, <1>3, <1>13 DEF AbortClose, RunInv, TypeOK
<1>14. ASSUME NEW q \in Attempts, StartupCloses(q) PROVE FALSE
  BY <1>1, <1>3, <1>14 DEF StartupCloses, Open
<1>15. ASSUME \/ \E s \in Sessions : AbortBegin(s) \/ LockAges(s)
              \/ AbortRelease \/ AbortFails \/ StartupLocks
              \/ \E q \in Attempts : LeaseLapses(q)
              \/ UNCHANGED vars
       PROVE  FALSE
  BY <1>1, <1>15 DEF AbortBegin, LockAges, AbortRelease, AbortFails, StartupLocks,
                     LeaseLapses, vars
<1> QED
  BY <1>5, <1>6, <1>7, <1>8, <1>9, <1>10, <1>11, <1>12, <1>13, <1>14, <1>15
  DEF Next, Acquire, Request, Drive, Environment, Refuse, AcquireFails

\* With the vision fallback, an abort during the preparation prevents the
\* Round; without it the run RunSlotsEpoch shows the contrary.
THEOREM AbortedInitNeverRunsHolds ==
    ASSUME VisionFallback
    PROVE  Spec => AbortedInitNeverRuns
<1>1. IInv /\ [Next]_vars =>
        [\A w \in cancelled : round[w] = "none" => round'[w] = "none"]_vars
  <2> SUFFICES ASSUME IInv, [Next]_vars,
                      NEW w \in cancelled, round[w] = "none", round'[w] # "none"
               PROVE  FALSE
    OBVIOUS
  <2>1. w \in Attempts
    BY DEF IInv, TypeOK
  <2>2. CreateRound(w)
    BY <2>1, OnlyCreateRound
  <2> QED BY <2>2 DEF CreateRound
<1> QED BY <1>1, Invariance, PTL DEF Spec, AbortedInitNeverRuns
=============================================================================
