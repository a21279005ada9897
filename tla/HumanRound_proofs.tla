------------------------- MODULE HumanRound_proofs -------------------------
(***************************************************************************)
(* Proofs about HumanRound, for any sets of workers and interactions.       *)
(*                                                                         *)
(* IInv is TypeOK and three parts that build on each other: DispatchInv     *)
(* (who may call an approved tool), DriverInv (an open question and a       *)
(* running Agent loop exclude each other) and RiskInv (what the rows tell   *)
(* about calls in flight).  Each part has a lemma with one step per action. *)
(***************************************************************************)
EXTENDS HumanRound, TLAPS

\* Every transaction and every worker step keeps the types of the rows and of
\* the workers' program counters.
LEMMA TypeStep ==
    ASSUME TypeOK, [Next]_vars
    PROVE  TypeOK'
<1> USE DEF TypeOK, rows, Terminal, Cancellable, Crossed, Fenced, Unfenced
<1>1. ASSUME NEW w \in Workers, CallDirectTool(w) PROVE TypeOK'
  BY <1>1, HumanRoundAssumption DEF CallDirectTool, Goto
<1>2. ASSUME NEW w \in Workers, ReturnDirectTool(w) PROVE TypeOK'
  BY <1>2, HumanRoundAssumption DEF ReturnDirectTool, Goto
<1>3. ASSUME NEW w \in Workers, NEW i \in Interactions, RequestApproval(w, i) PROVE TypeOK'
  BY <1>3, HumanRoundAssumption DEF RequestApproval
<1>4. ASSUME NEW w \in Workers, NEW i \in Interactions, AskUser(w, i) PROVE TypeOK'
  BY <1>4, HumanRoundAssumption DEF AskUser, CreatePending, Goto
<1>5. ASSUME NEW w \in Workers, AskApproval(w) PROVE TypeOK'
  BY <1>5, HumanRoundAssumption DEF AskApproval, CreatePending, Goto
<1>6. ASSUME NEW w \in Workers, Park(w) PROVE TypeOK'
  BY <1>6, HumanRoundAssumption DEF Park, Leave
<1>7. ASSUME NEW w \in Workers, NEW s \in Terminal, FinishUnfenced(w, s) PROVE TypeOK'
  BY <1>7, HumanRoundAssumption DEF FinishUnfenced, CompleteRound, ConvergeHumanWork, Leave
<1>8. ASSUME NEW w \in Workers, NEW s \in Terminal, FinishFenced(w, s) PROVE TypeOK'
  BY <1>8, HumanRoundAssumption DEF FinishFenced, CompleteRound, ConvergeHumanWork, Leave
<1>9. ASSUME NEW w \in Workers, Start(w) PROVE TypeOK'
  BY <1>9, HumanRoundAssumption DEF Start, Goto
<1>10. ASSUME NEW w \in Workers, Queue(w) PROVE TypeOK'
  BY <1>10, HumanRoundAssumption DEF Queue, Goto
<1>11. ASSUME NEW w \in Workers, SkipDispatch(w) PROVE TypeOK'
  BY <1>11, HumanRoundAssumption DEF SkipDispatch, Goto
<1>12. ASSUME NEW w \in Workers, Dispatch(w) PROVE TypeOK'
  BY <1>12, HumanRoundAssumption DEF Dispatch, Goto
<1>13. ASSUME NEW w \in Workers, Gate(w) PROVE TypeOK'
  BY <1>13, HumanRoundAssumption DEF Gate, Goto
<1>14. ASSUME NEW w \in Workers, Block(w) PROVE TypeOK'
  BY <1>14, HumanRoundAssumption DEF Block, FinishApproval, Goto
<1>15. ASSUME NEW w \in Workers, CallApprovedTool(w) PROVE TypeOK'
  BY <1>15, HumanRoundAssumption DEF CallApprovedTool, Goto
<1>16. ASSUME NEW w \in Workers, NEW s \in {"executed", "failed", "unknown"},
   ReturnApprovedTool(w, s) PROVE TypeOK'
  <2>1. CASE UNCHANGED <<approval, exec, execLive>>
    BY <1>16, <2>1, HumanRoundAssumption DEF ReturnApprovedTool, Goto
  <2>2. CASE /\ HoldsExecution(w)
             /\ approval' = [approval EXCEPT ![job[w]] = s]
             /\ exec' = [exec EXCEPT ![job[w]] = NoWorker]
             /\ execLive' = [execLive EXCEPT ![job[w]] = FALSE]
    BY <1>16, <2>2, HumanRoundAssumption DEF ReturnApprovedTool, Goto
  <2>3. QED
    BY <1>16, <2>1, <2>2 DEF ReturnApprovedTool, FinishApproval
<1>17. ASSUME NEW w \in Workers, Consume(w) PROVE TypeOK'
  BY <1>17, HumanRoundAssumption DEF Consume
<1>18. ASSUME NEW w \in Workers, StopOnTerminal(w) PROVE TypeOK'
  BY <1>18, HumanRoundAssumption DEF StopOnTerminal, ConvergeHumanWork, Leave
<1>19. ASSUME NEW w \in Workers, LoseOwnership(w) PROVE TypeOK'
  BY <1>19, HumanRoundAssumption DEF LoseOwnership, Leave
<1>20. ASSUME NEW w \in Workers, ReleaseStart(w) PROVE TypeOK'
  BY <1>20, HumanRoundAssumption DEF ReleaseStart, ReleaseClaim, Leave
<1>21. ASSUME NEW w \in Workers, CancelStart(w) PROVE TypeOK'
  BY <1>21, HumanRoundAssumption DEF CancelStart, ReleaseClaim, Goto
<1>22. ASSUME NEW w \in Workers, OrchestratorCancel(w) PROVE TypeOK'
  BY <1>22, HumanRoundAssumption DEF OrchestratorCancel, CompleteRound, ConvergeHumanWork, Leave
<1>23. ASSUME NEW w \in Workers, CancelParked(w) PROVE TypeOK'
  BY <1>23, HumanRoundAssumption DEF CancelParked, Goto
<1>24. ASSUME NEW w \in Workers, Crash(w) PROVE TypeOK'
  BY <1>24, HumanRoundAssumption DEF Crash, Leave
<1>25. ASSUME NEW w \in Workers, RenewClaim(w) PROVE TypeOK'
  BY <1>25, HumanRoundAssumption DEF RenewClaim
<1>26. ASSUME NEW w \in Workers, RenewExecution(w) PROVE TypeOK'
  BY <1>26, HumanRoundAssumption DEF RenewExecution
<1>27. ASSUME NEW i \in Interactions, NEW a \in {"reply", "allow", "deny"}, Answer(i, a)
   PROVE TypeOK'
  BY <1>27, HumanRoundAssumption DEF Answer
<1>28. ASSUME NEW w \in Workers, NEW i \in Interactions, Claim(w, i) PROVE TypeOK'
  BY <1>28, HumanRoundAssumption DEF Claim
<1>29. ASSUME NEW i \in Interactions, LeaseExpires(i) PROVE TypeOK'
  BY <1>29, HumanRoundAssumption DEF LeaseExpires
<1>30. ASSUME NEW i \in Interactions, ExecutionLeaseExpires(i) PROVE TypeOK'
  BY <1>30, HumanRoundAssumption DEF ExecutionLeaseExpires
<1>31. ASSUME NEW i \in Interactions, ReconcileExecution(i) PROVE TypeOK'
  BY <1>31, HumanRoundAssumption DEF ReconcileExecution
<1>32. ASSUME NEW i \in Interactions, FailIrrecoverable(i) PROVE TypeOK'
  BY <1>32, HumanRoundAssumption DEF FailIrrecoverable, CompleteRound, ConvergeHumanWork
<1>33. ASSUME NEW i \in Interactions, Repark(i) PROVE TypeOK'
  BY <1>33, HumanRoundAssumption DEF Repark
<1>34. ASSUME FailOrphan PROVE TypeOK'
  BY <1>34, HumanRoundAssumption DEF FailOrphan, CompleteRound, ConvergeHumanWork
<1>35. ASSUME NEW hit \in {{}} \cup {{w} : w \in Workers}, Abort(hit) PROVE TypeOK'
  BY <1>35, HumanRoundAssumption DEF Abort, Signal, CompleteRound, ConvergeHumanWork
<1>36. ASSUME NEW hit \in {{}} \cup {{w} : w \in Workers}, AbortFails(hit) PROVE TypeOK'
  BY <1>36, HumanRoundAssumption DEF AbortFails, Signal
<1>37. ASSUME RepairTerminal PROVE TypeOK'
  BY <1>37, HumanRoundAssumption DEF RepairTerminal, ConvergeHumanWork
<1>38. CASE UNCHANGED vars
  BY <1>38, HumanRoundAssumption DEF vars
<1>39. QED
  BY <1>1, <1>2, <1>3, <1>4, <1>5, <1>6, <1>7, <1>8, <1>9, <1>10, <1>11, <1>12, <1>13,
     <1>14, <1>15, <1>16, <1>17, <1>18, <1>19, <1>20, <1>21, <1>22, <1>23, <1>24, <1>25,
     <1>26, <1>27, <1>28, <1>29, <1>30, <1>31, <1>32, <1>33, <1>34, <1>35, <1>36, <1>37,
     <1>38 DEF Next, Drive, Interrupt, Recover

\* Every step keeps the dispatch invariant: dispatch_approval_request is the
\* only way to "executing", it needs the user's "approved", and the worker that
\* it made the owner of the call is the only one that may make it.
LEMMA DispatchStep ==
    ASSUME IInv, [Next]_vars, TypeOK'
    PROVE  DispatchInv'
<1> USE DEF IInv, DispatchInv, TypeOK, EffectOnce, Dispatcher, rows, Terminal,
            Cancellable, Crossed, Fenced, Unfenced
<1>1. ASSUME NEW w \in Workers, CallDirectTool(w) PROVE DispatchInv'
  BY <1>1 DEF CallDirectTool, Goto
<1>2. ASSUME NEW w \in Workers, ReturnDirectTool(w) PROVE DispatchInv'
  BY <1>2 DEF ReturnDirectTool, Goto
<1>3. ASSUME NEW w \in Workers, NEW i \in Interactions, RequestApproval(w, i) PROVE DispatchInv'
  BY <1>3 DEF RequestApproval
<1>4. ASSUME NEW w \in Workers, NEW i \in Interactions, AskUser(w, i) PROVE DispatchInv'
  BY <1>4 DEF AskUser, CreatePending, Goto
<1>5. ASSUME NEW w \in Workers, AskApproval(w) PROVE DispatchInv'
  BY <1>5 DEF AskApproval, CreatePending, Goto
<1>6. ASSUME NEW w \in Workers, Park(w) PROVE DispatchInv'
  BY <1>6 DEF Park, Leave
<1>7. ASSUME NEW w \in Workers, NEW s \in Terminal, FinishUnfenced(w, s) PROVE DispatchInv'
  BY <1>7 DEF FinishUnfenced, CompleteRound, ConvergeHumanWork, Leave
<1>8. ASSUME NEW w \in Workers, NEW s \in Terminal, FinishFenced(w, s) PROVE DispatchInv'
  BY <1>8 DEF FinishFenced, CompleteRound, ConvergeHumanWork, Leave
<1>9. ASSUME NEW w \in Workers, Start(w) PROVE DispatchInv'
  BY <1>9 DEF Start, Goto
<1>10. ASSUME NEW w \in Workers, Queue(w) PROVE DispatchInv'
  BY <1>10 DEF Queue, Goto
<1>11. ASSUME NEW w \in Workers, SkipDispatch(w) PROVE DispatchInv'
  BY <1>11 DEF SkipDispatch, Goto
<1>12. ASSUME NEW w \in Workers, Dispatch(w) PROVE DispatchInv'
  BY <1>12 DEF Dispatch, Goto
<1>13. ASSUME NEW w \in Workers, Gate(w) PROVE DispatchInv'
  BY <1>13 DEF Gate, Goto
<1>14. ASSUME NEW w \in Workers, Block(w) PROVE DispatchInv'
  BY <1>14 DEF Block, FinishApproval, Goto
<1>15. ASSUME NEW w \in Workers, CallApprovedTool(w) PROVE DispatchInv'
  BY <1>15 DEF CallApprovedTool, Goto
<1>16. ASSUME NEW w \in Workers, NEW s \in {"executed", "failed", "unknown"},
   ReturnApprovedTool(w, s) PROVE DispatchInv'
  <2>1. CASE UNCHANGED <<approval, exec, execLive>>
    BY <1>16, <2>1 DEF ReturnApprovedTool, Goto
  <2>2. CASE /\ HoldsExecution(w)
             /\ approval' = [approval EXCEPT ![job[w]] = s]
             /\ exec' = [exec EXCEPT ![job[w]] = NoWorker]
             /\ execLive' = [execLive EXCEPT ![job[w]] = FALSE]
    BY <1>16, <2>2 DEF ReturnApprovedTool, Goto
  <2>3. QED
    BY <1>16, <2>1, <2>2 DEF ReturnApprovedTool, FinishApproval
<1>17. ASSUME NEW w \in Workers, Consume(w) PROVE DispatchInv'
  BY <1>17 DEF Consume
<1>18. ASSUME NEW w \in Workers, StopOnTerminal(w) PROVE DispatchInv'
  BY <1>18 DEF StopOnTerminal, ConvergeHumanWork, Leave
<1>19. ASSUME NEW w \in Workers, LoseOwnership(w) PROVE DispatchInv'
  BY <1>19 DEF LoseOwnership, Leave
<1>20. ASSUME NEW w \in Workers, ReleaseStart(w) PROVE DispatchInv'
  BY <1>20 DEF ReleaseStart, ReleaseClaim, Leave
<1>21. ASSUME NEW w \in Workers, CancelStart(w) PROVE DispatchInv'
  BY <1>21 DEF CancelStart, ReleaseClaim, Goto
<1>22. ASSUME NEW w \in Workers, OrchestratorCancel(w) PROVE DispatchInv'
  BY <1>22 DEF OrchestratorCancel, CompleteRound, ConvergeHumanWork, Leave
<1>23. ASSUME NEW w \in Workers, CancelParked(w) PROVE DispatchInv'
  BY <1>23 DEF CancelParked, Goto
<1>24. ASSUME NEW w \in Workers, Crash(w) PROVE DispatchInv'
  BY <1>24 DEF Crash, Leave
<1>25. ASSUME NEW w \in Workers, RenewClaim(w) PROVE DispatchInv'
  BY <1>25 DEF RenewClaim
<1>26. ASSUME NEW w \in Workers, RenewExecution(w) PROVE DispatchInv'
  BY <1>26 DEF RenewExecution
<1>27. ASSUME NEW i \in Interactions, NEW a \in {"reply", "allow", "deny"}, Answer(i, a)
   PROVE DispatchInv'
  BY <1>27 DEF Answer
<1>28. ASSUME NEW w \in Workers, NEW i \in Interactions, Claim(w, i) PROVE DispatchInv'
  BY <1>28 DEF Claim
<1>29. ASSUME NEW i \in Interactions, LeaseExpires(i) PROVE DispatchInv'
  BY <1>29 DEF LeaseExpires
<1>30. ASSUME NEW i \in Interactions, ExecutionLeaseExpires(i) PROVE DispatchInv'
  BY <1>30 DEF ExecutionLeaseExpires
<1>31. ASSUME NEW i \in Interactions, ReconcileExecution(i) PROVE DispatchInv'
  BY <1>31 DEF ReconcileExecution
<1>32. ASSUME NEW i \in Interactions, FailIrrecoverable(i) PROVE DispatchInv'
  BY <1>32 DEF FailIrrecoverable, CompleteRound, ConvergeHumanWork
<1>33. ASSUME NEW i \in Interactions, Repark(i) PROVE DispatchInv'
  BY <1>33 DEF Repark
<1>34. ASSUME FailOrphan PROVE DispatchInv'
  BY <1>34 DEF FailOrphan, CompleteRound, ConvergeHumanWork
<1>35. ASSUME NEW hit \in {{}} \cup {{w} : w \in Workers}, Abort(hit) PROVE DispatchInv'
  BY <1>35 DEF Abort, Signal, CompleteRound, ConvergeHumanWork
<1>36. ASSUME NEW hit \in {{}} \cup {{w} : w \in Workers}, AbortFails(hit) PROVE DispatchInv'
  BY <1>36 DEF AbortFails, Signal
<1>37. ASSUME RepairTerminal PROVE DispatchInv'
  BY <1>37 DEF RepairTerminal, ConvergeHumanWork
<1>38. CASE UNCHANGED vars
  BY <1>38 DEF vars
<1>39. QED
  BY <1>1, <1>2, <1>3, <1>4, <1>5, <1>6, <1>7, <1>8, <1>9, <1>10, <1>11, <1>12, <1>13,
     <1>14, <1>15, <1>16, <1>17, <1>18, <1>19, <1>20, <1>21, <1>22, <1>23, <1>24, <1>25,
     <1>26, <1>27, <1>28, <1>29, <1>30, <1>31, <1>32, <1>33, <1>34, <1>35, <1>36, <1>37,
     <1>38 DEF Next, Drive, Interrupt, Recover

\* Every step keeps the driver invariant: create_pending, the continuation's
\* start and the terminal transactions never leave an open question beside a
\* worker that drives the Agent loop, nor a closed Round with open human work.
LEMMA DriverStep ==
    ASSUME IInv, [Next]_vars, TypeOK'
    PROVE  DriverInv'
<1> USE DEF IInv, DriverInv, ClosedOnce, TypeOK, Looping, Open, rows, Terminal,
            Cancellable, Crossed, Fenced, Unfenced
<1>1. ASSUME NEW w \in Workers, CallDirectTool(w) PROVE DriverInv'
  BY <1>1 DEF CallDirectTool, Goto, Answered, Owns
<1>2. ASSUME NEW w \in Workers, ReturnDirectTool(w) PROVE DriverInv'
  BY <1>2 DEF ReturnDirectTool, Goto, Answered, Owns
<1>3. ASSUME NEW w \in Workers, NEW i \in Interactions, RequestApproval(w, i) PROVE DriverInv'
  BY <1>3 DEF RequestApproval, Answered, Owns
<1>4. ASSUME NEW w \in Workers, NEW i \in Interactions, AskUser(w, i) PROVE DriverInv'
  BY <1>4 DEF AskUser, CreatePending, Goto, Answered, Owns
<1>5. ASSUME NEW w \in Workers, AskApproval(w) PROVE DriverInv'
  BY <1>5 DEF AskApproval, CreatePending, Goto, Answered, Owns
<1>6. ASSUME NEW w \in Workers, Park(w) PROVE DriverInv'
  BY <1>6 DEF Park, Leave, Answered, Owns
<1>7. ASSUME NEW w \in Workers, NEW s \in Terminal, FinishUnfenced(w, s) PROVE DriverInv'
  BY <1>7 DEF FinishUnfenced, CompleteRound, ConvergeHumanWork, Leave, Answered, Owns
<1>8. ASSUME NEW w \in Workers, NEW s \in Terminal, FinishFenced(w, s) PROVE DriverInv'
  BY <1>8 DEF FinishFenced, CompleteRound, ConvergeHumanWork, Leave, Answered, Owns
<1>9. ASSUME NEW w \in Workers, Start(w) PROVE DriverInv'
  BY <1>9 DEF Start, Goto, Answered, Owns
<1>10. ASSUME NEW w \in Workers, Queue(w) PROVE DriverInv'
  BY <1>10 DEF Queue, Goto, Answered, Owns
<1>11. ASSUME NEW w \in Workers, SkipDispatch(w) PROVE DriverInv'
  BY <1>11 DEF SkipDispatch, Goto, Answered, Owns
<1>12. ASSUME NEW w \in Workers, Dispatch(w) PROVE DriverInv'
  BY <1>12 DEF Dispatch, Goto, Answered, Owns
<1>13. ASSUME NEW w \in Workers, Gate(w) PROVE DriverInv'
  BY <1>13 DEF Gate, Goto, Answered, Owns
<1>14. ASSUME NEW w \in Workers, Block(w) PROVE DriverInv'
  BY <1>14 DEF Block, FinishApproval, Goto, Answered, Owns
<1>15. ASSUME NEW w \in Workers, CallApprovedTool(w) PROVE DriverInv'
  BY <1>15 DEF CallApprovedTool, Goto, Answered, Owns
<1>16. ASSUME NEW w \in Workers, NEW s \in {"executed", "failed", "unknown"},
   ReturnApprovedTool(w, s) PROVE DriverInv'
  BY <1>16 DEF ReturnApprovedTool, FinishApproval, Goto, Answered, Owns
<1>17. ASSUME NEW w \in Workers, Consume(w) PROVE DriverInv'
  BY <1>17 DEF Consume, Answered, Owns
<1>18. ASSUME NEW w \in Workers, StopOnTerminal(w) PROVE DriverInv'
  BY <1>18 DEF StopOnTerminal, ConvergeHumanWork, Leave, Answered, Owns
<1>19. ASSUME NEW w \in Workers, LoseOwnership(w) PROVE DriverInv'
  BY <1>19 DEF LoseOwnership, Leave, Answered, Owns
<1>20. ASSUME NEW w \in Workers, ReleaseStart(w) PROVE DriverInv'
  BY <1>20 DEF ReleaseStart, ReleaseClaim, Leave, Answered, Owns
<1>21. ASSUME NEW w \in Workers, CancelStart(w) PROVE DriverInv'
  BY <1>21 DEF CancelStart, ReleaseClaim, Goto, Answered, Owns
<1>22. ASSUME NEW w \in Workers, OrchestratorCancel(w) PROVE DriverInv'
  BY <1>22 DEF OrchestratorCancel, CompleteRound, ConvergeHumanWork, Leave, Answered, Owns
<1>23. ASSUME NEW w \in Workers, CancelParked(w) PROVE DriverInv'
  BY <1>23 DEF CancelParked, Goto, Answered, Owns
<1>24. ASSUME NEW w \in Workers, Crash(w) PROVE DriverInv'
  BY <1>24 DEF Crash, Leave, Answered, Owns
<1>25. ASSUME NEW w \in Workers, RenewClaim(w) PROVE DriverInv'
  BY <1>25 DEF RenewClaim, Answered, Owns
<1>26. ASSUME NEW w \in Workers, RenewExecution(w) PROVE DriverInv'
  BY <1>26 DEF RenewExecution, Answered, Owns
<1>27. ASSUME NEW i \in Interactions, NEW a \in {"reply", "allow", "deny"}, Answer(i, a)
   PROVE DriverInv'
  BY <1>27 DEF Answer, Answered, Owns
<1>28. ASSUME NEW w \in Workers, NEW i \in Interactions, Claim(w, i) PROVE DriverInv'
  BY <1>28 DEF Claim, Answered, Owns
<1>29. ASSUME NEW i \in Interactions, LeaseExpires(i) PROVE DriverInv'
  BY <1>29 DEF LeaseExpires, Answered, Owns
<1>30. ASSUME NEW i \in Interactions, ExecutionLeaseExpires(i) PROVE DriverInv'
  BY <1>30 DEF ExecutionLeaseExpires, Answered, Owns
<1>31. ASSUME NEW i \in Interactions, ReconcileExecution(i) PROVE DriverInv'
  BY <1>31 DEF ReconcileExecution, Answered, Owns
<1>32. ASSUME NEW i \in Interactions, FailIrrecoverable(i) PROVE DriverInv'
  BY <1>32 DEF FailIrrecoverable, CompleteRound, ConvergeHumanWork, Answered, Owns
<1>33. ASSUME NEW i \in Interactions, Repark(i) PROVE DriverInv'
  BY <1>33 DEF Repark, Answered, Owns
<1>34. ASSUME FailOrphan PROVE DriverInv'
  BY <1>34 DEF FailOrphan, CompleteRound, ConvergeHumanWork, Answered, Owns
<1>35. ASSUME NEW hit \in {{}} \cup {{w} : w \in Workers}, Abort(hit) PROVE DriverInv'
  BY <1>35 DEF Abort, Signal, CompleteRound, ConvergeHumanWork, Answered, Owns
<1>36. ASSUME NEW hit \in {{}} \cup {{w} : w \in Workers}, AbortFails(hit) PROVE DriverInv'
  BY <1>36 DEF AbortFails, Signal, Answered, Owns
<1>37. ASSUME RepairTerminal PROVE DriverInv'
  BY <1>37 DEF RepairTerminal, ConvergeHumanWork, Answered, Owns
<1>38. CASE UNCHANGED vars
  BY <1>38 DEF vars, Answered, Owns
<1>39. QED
  BY <1>1, <1>2, <1>3, <1>4, <1>5, <1>6, <1>7, <1>8, <1>9, <1>10, <1>11, <1>12, <1>13,
     <1>14, <1>15, <1>16, <1>17, <1>18, <1>19, <1>20, <1>21, <1>22, <1>23, <1>24, <1>25,
     <1>26, <1>27, <1>28, <1>29, <1>30, <1>31, <1>32, <1>33, <1>34, <1>35, <1>36, <1>37,
     <1>38 DEF Next, Drive, Interrupt, Recover

\* Every step keeps the risk invariant: the rows that cancel_user_run reads tell
\* whether a tool of the Round may be running, so its verdict is true.
LEMMA RiskStep ==
    ASSUME IInv, [Next]_vars, TypeOK', DispatchInv', DriverInv'
    PROVE  RiskInv'
<1> USE DEF IInv, RiskInv, HonestAbort, TypeOK, Open, rows, Terminal,
            Cancellable, Crossed, Fenced, Unfenced
<1>1. ASSUME NEW w \in Workers, CallDirectTool(w) PROVE RiskInv'
  BY <1>1 DEF CallDirectTool, Goto, Answered, Owns, DriverInv, DispatchInv, Looping, Dispatcher
<1>2. ASSUME NEW w \in Workers, ReturnDirectTool(w) PROVE RiskInv'
  BY <1>2 DEF ReturnDirectTool, Goto, Answered, Owns, DriverInv, DispatchInv, Looping, Dispatcher
<1>3. ASSUME NEW w \in Workers, NEW i \in Interactions, RequestApproval(w, i) PROVE RiskInv'
  BY <1>3 DEF RequestApproval, Answered, Owns, DriverInv, DispatchInv, Looping, Dispatcher
<1>4. ASSUME NEW w \in Workers, NEW i \in Interactions, AskUser(w, i) PROVE RiskInv'
  BY <1>4 DEF AskUser, CreatePending, Goto, Answered, Owns, DriverInv, DispatchInv,
     Looping, Dispatcher
<1>5. ASSUME NEW w \in Workers, AskApproval(w) PROVE RiskInv'
  BY <1>5 DEF AskApproval, CreatePending, Goto, Answered, Owns, DriverInv, DispatchInv,
     Looping, Dispatcher
<1>6. ASSUME NEW w \in Workers, Park(w) PROVE RiskInv'
  BY <1>6 DEF Park, Leave, Answered, Owns, DriverInv, DispatchInv, Looping, Dispatcher
<1>7. ASSUME NEW w \in Workers, NEW s \in Terminal, FinishUnfenced(w, s) PROVE RiskInv'
  BY <1>7 DEF FinishUnfenced, CompleteRound, ConvergeHumanWork, Leave, Answered, Owns,
     DriverInv, DispatchInv, Looping, Dispatcher
<1>8. ASSUME NEW w \in Workers, NEW s \in Terminal, FinishFenced(w, s) PROVE RiskInv'
  BY <1>8 DEF FinishFenced, CompleteRound, ConvergeHumanWork, Leave, Answered, Owns,
     DriverInv, DispatchInv, Looping, Dispatcher
<1>9. ASSUME NEW w \in Workers, Start(w) PROVE RiskInv'
  BY <1>9 DEF Start, Goto, Answered, Owns, DriverInv, DispatchInv, Looping, Dispatcher
<1>10. ASSUME NEW w \in Workers, Queue(w) PROVE RiskInv'
  BY <1>10 DEF Queue, Goto, Answered, Owns, DriverInv, DispatchInv, Looping, Dispatcher
<1>11. ASSUME NEW w \in Workers, SkipDispatch(w) PROVE RiskInv'
  BY <1>11 DEF SkipDispatch, Goto, Answered, Owns, DriverInv, DispatchInv, Looping, Dispatcher
<1>12. ASSUME NEW w \in Workers, Dispatch(w) PROVE RiskInv'
  BY <1>12 DEF Dispatch, Goto, Answered, Owns, DriverInv, DispatchInv, Looping, Dispatcher
<1>13. ASSUME NEW w \in Workers, Gate(w) PROVE RiskInv'
  BY <1>13 DEF Gate, Goto, Answered, Owns, DriverInv, DispatchInv, Looping, Dispatcher
<1>14. ASSUME NEW w \in Workers, Block(w) PROVE RiskInv'
  BY <1>14 DEF Block, FinishApproval, Goto, Answered, Owns, DriverInv, DispatchInv,
     Looping, Dispatcher
<1>15. ASSUME NEW w \in Workers, CallApprovedTool(w) PROVE RiskInv'
  BY <1>15 DEF CallApprovedTool, MatchesDurableTurn, Goto, Answered, Owns, DriverInv,
     DispatchInv, Looping, Dispatcher
<1>16. ASSUME NEW w \in Workers, NEW s \in {"executed", "failed", "unknown"},
   ReturnApprovedTool(w, s) PROVE RiskInv'
  BY <1>16 DEF ReturnApprovedTool, FinishApproval, Goto, Answered, Owns, DriverInv,
     DispatchInv, Looping, Dispatcher
<1>17. ASSUME NEW w \in Workers, Consume(w) PROVE RiskInv'
  BY <1>17 DEF Consume, Answered, Owns, DriverInv, DispatchInv, Looping, Dispatcher
<1>18. ASSUME NEW w \in Workers, StopOnTerminal(w) PROVE RiskInv'
  BY <1>18 DEF StopOnTerminal, ConvergeHumanWork, Leave, Answered, Owns, DriverInv,
     DispatchInv, Looping, Dispatcher
<1>19. ASSUME NEW w \in Workers, LoseOwnership(w) PROVE RiskInv'
  BY <1>19 DEF LoseOwnership, Leave, Answered, Owns, DriverInv, DispatchInv, Looping, Dispatcher
<1>20. ASSUME NEW w \in Workers, ReleaseStart(w) PROVE RiskInv'
  BY <1>20 DEF ReleaseStart, ReleaseClaim, Leave, Answered, Owns, DriverInv, DispatchInv,
     Looping, Dispatcher
<1>21. ASSUME NEW w \in Workers, CancelStart(w) PROVE RiskInv'
  BY <1>21 DEF CancelStart, ReleaseClaim, Goto, Answered, Owns, DriverInv, DispatchInv,
     Looping, Dispatcher
<1>22. ASSUME NEW w \in Workers, OrchestratorCancel(w) PROVE RiskInv'
  BY <1>22 DEF OrchestratorCancel, CompleteRound, ConvergeHumanWork, Leave, Answered, Owns,
     DriverInv, DispatchInv, Looping, Dispatcher
<1>23. ASSUME NEW w \in Workers, CancelParked(w) PROVE RiskInv'
  BY <1>23 DEF CancelParked, Goto, Answered, Owns, DriverInv, DispatchInv, Looping, Dispatcher
<1>24. ASSUME NEW w \in Workers, Crash(w) PROVE RiskInv'
  BY <1>24 DEF Crash, Leave, Answered, Owns, DriverInv, DispatchInv, Looping, Dispatcher
<1>25. ASSUME NEW w \in Workers, RenewClaim(w) PROVE RiskInv'
  BY <1>25 DEF RenewClaim, Answered, Owns, DriverInv, DispatchInv, Looping, Dispatcher
<1>26. ASSUME NEW w \in Workers, RenewExecution(w) PROVE RiskInv'
  BY <1>26 DEF RenewExecution, Answered, Owns, DriverInv, DispatchInv, Looping, Dispatcher
<1>27. ASSUME NEW i \in Interactions, NEW a \in {"reply", "allow", "deny"}, Answer(i, a)
   PROVE RiskInv'
  BY <1>27 DEF Answer, Answered, Owns, DriverInv, DispatchInv, Looping, Dispatcher
<1>28. ASSUME NEW w \in Workers, NEW i \in Interactions, Claim(w, i) PROVE RiskInv'
  BY <1>28 DEF Claim, Answered, Owns, DriverInv, DispatchInv, Looping, Dispatcher
<1>29. ASSUME NEW i \in Interactions, LeaseExpires(i) PROVE RiskInv'
  BY <1>29 DEF LeaseExpires, Answered, Owns, DriverInv, DispatchInv, Looping, Dispatcher
<1>30. ASSUME NEW i \in Interactions, ExecutionLeaseExpires(i) PROVE RiskInv'
  BY <1>30 DEF ExecutionLeaseExpires, Answered, Owns, DriverInv, DispatchInv, Looping, Dispatcher
<1>31. ASSUME NEW i \in Interactions, ReconcileExecution(i) PROVE RiskInv'
  BY <1>31 DEF ReconcileExecution, Answered, Owns, DriverInv, DispatchInv, Looping, Dispatcher
<1>32. ASSUME NEW i \in Interactions, FailIrrecoverable(i) PROVE RiskInv'
  BY <1>32 DEF FailIrrecoverable, CompleteRound, ConvergeHumanWork, Answered, Owns,
     DriverInv, DispatchInv, Looping, Dispatcher
<1>33. ASSUME NEW i \in Interactions, Repark(i) PROVE RiskInv'
  BY <1>33 DEF Repark, Answered, Owns, DriverInv, DispatchInv, Looping, Dispatcher
<1>34. ASSUME FailOrphan PROVE RiskInv'
  BY <1>34 DEF FailOrphan, CompleteRound, ConvergeHumanWork, Answered, Owns, DriverInv,
     DispatchInv, Looping, Dispatcher
<1>35. ASSUME NEW hit \in {{}} \cup {{w} : w \in Workers}, Abort(hit) PROVE RiskInv'
  BY <1>35 DEF Abort, UncertainDispatch, Signal, CompleteRound, ConvergeHumanWork,
     Answered, Owns, DriverInv, DispatchInv, Looping, Dispatcher
<1>36. ASSUME NEW hit \in {{}} \cup {{w} : w \in Workers}, AbortFails(hit) PROVE RiskInv'
  BY <1>36 DEF AbortFails, Signal, Answered, Owns, DriverInv, DispatchInv, Looping, Dispatcher
<1>37. ASSUME RepairTerminal PROVE RiskInv'
  BY <1>37 DEF RepairTerminal, ConvergeHumanWork, Answered, Owns, DriverInv, DispatchInv,
     Looping, Dispatcher
<1>38. CASE UNCHANGED vars
  BY <1>38 DEF vars, Answered, Owns, DriverInv, DispatchInv, Looping, Dispatcher
<1>39. QED
  BY <1>1, <1>2, <1>3, <1>4, <1>5, <1>6, <1>7, <1>8, <1>9, <1>10, <1>11, <1>12, <1>13,
     <1>14, <1>15, <1>16, <1>17, <1>18, <1>19, <1>20, <1>21, <1>22, <1>23, <1>24, <1>25,
     <1>26, <1>27, <1>28, <1>29, <1>30, <1>31, <1>32, <1>33, <1>34, <1>35, <1>36, <1>37,
     <1>38 DEF Next, Drive, Interrupt, Recover

\* The rows and the workers of HumanRound always have the types of TypeOK.
THEOREM TypeCorrect == Spec => []TypeOK
<1>1. Init => TypeOK
  BY HumanRoundAssumption DEF Init, RoundBegins, TypeOK, Fenced, Unfenced
<1>2. QED
  BY <1>1, TypeStep, PTL DEF Spec

\* A Round just created satisfies the inductive invariant.
LEMMA InitIInv ==
    ASSUME Init
    PROVE  IInv
<1> USE DEF Init, RoundBegins
<1>1. TypeOK
  BY HumanRoundAssumption DEF TypeOK, Fenced, Unfenced
<1>2. DispatchInv
  BY DEF DispatchInv, EffectOnce, Dispatcher, Cancellable, Crossed
<1>3. DriverInv
  BY DEF DriverInv, ClosedOnce, Looping, Open, Terminal
<1>4. RiskInv
  BY DEF RiskInv, HonestAbort, Open, Cancellable
<1>5. QED
  BY <1>1, <1>2, <1>3, <1>4 DEF IInv

\* The inductive invariant holds in every reachable state, for any number of
\* workers and interactions.
THEOREM Invariance == Spec => []IInv
<1>1. ASSUME IInv, [Next]_vars PROVE IInv'
  <2>1. TypeOK'
    BY <1>1, TypeStep DEF IInv
  <2>2. DispatchInv' /\ DriverInv'
    BY <1>1, <2>1, DispatchStep, DriverStep
  <2>3. RiskInv'
    BY <1>1, <2>1, <2>2, RiskStep
  <2>4. QED
    BY <2>1, <2>2, <2>3 DEF IInv
<1>2. QED
  BY <1>1, InitIInv, PTL DEF Spec

\* For any number of workers and interactions an approved tool is called at most
\* once and only after the user allowed it (dispatch_approval_request).
THEOREM EffectOnceHolds == Spec => []EffectOnce
<1>1. IInv => EffectOnce
  BY DEF IInv, DispatchInv
<1>2. QED
  BY <1>1, Invariance, PTL

\* An abort that reported no uncertain dispatch told the truth
\* (cancel_user_run, _round_has_uncertain_dispatch).
THEOREM HonestAbortHolds == Spec => []HonestAbort
<1>1. IInv => HonestAbort
  BY DEF IInv, RiskInv
<1>2. QED
  BY <1>1, Invariance, PTL

\* A terminal Round has one terminal event and no open human work
\* (_complete_in_session, _converge_locked_human_work).
THEOREM ClosedOnceHolds == Spec => []ClosedOnce
<1>1. IInv => ClosedOnce
  BY DEF IInv, DriverInv
<1>2. QED
  BY <1>1, Invariance, PTL

\* The inductive invariant leaves an open Round at most one worker whose next
\* write it would accept.
LEMMA DriverIsUnique ==
    ASSUME IInv
    PROVE  OneDriver
<1> SUFFICES ASSUME round \notin Terminal,
                    NEW v \in Workers, NEW w \in Workers, Writer(v), Writer(w)
             PROVE  v = w
  BY DEF OneDriver
<1>1. CASE Looping(v) /\ Looping(w)
  BY <1>1 DEF IInv, DriverInv
<1>2. ASSUME NEW u \in Workers, pc[u] \in Fenced, Owns(u)
      PROVE  job[u] \in Interactions /\ Open(job[u]) /\ claim[job[u]] = u
  BY <1>2 DEF IInv, TypeOK, Owns, Answered
<1>3. ASSUME NEW u \in Workers, pc[u] \in Fenced, Owns(u), NEW x \in Workers
      PROVE  ~Looping(x)
  BY <1>2, <1>3 DEF IInv, DriverInv
<1>4. CASE ~Looping(v) \/ ~Looping(w)
  <2>1. pc[v] \in Fenced /\ Owns(v) /\ pc[w] \in Fenced /\ Owns(w)
    BY <1>3, <1>4 DEF Writer, Looping
  <2>2. job[v] = job[w]
    BY <1>2, <2>1 DEF IInv, DriverInv
  <2>3. QED
    BY <1>2, <2>1, <2>2
<1>5. QED
  BY <1>1, <1>4

\* While a Round is open two workers never both drive it
\* (claim_answered_continuation, fence_continuation_write).
THEOREM OneDriverHolds == Spec => []OneDriver
<1>1. QED
  BY DriverIsUnique, Invariance, PTL

\* No step takes a started continuation back to its waiting state or hands it to
\* another worker.
LEMMA StartStep ==
    ASSUME TypeOK, [Next]_vars, NEW i0 \in Interactions
    PROVE  KeepsStarted(i0)
<1> USE DEF TypeOK, KeepsStarted, Open, rows
<1>1. ASSUME NEW w \in Workers, CallDirectTool(w) PROVE KeepsStarted(i0)
  BY <1>1 DEF CallDirectTool, Goto
<1>2. ASSUME NEW w \in Workers, ReturnDirectTool(w) PROVE KeepsStarted(i0)
  BY <1>2 DEF ReturnDirectTool, Goto
<1>3. ASSUME NEW w \in Workers, NEW i \in Interactions, RequestApproval(w, i) PROVE KeepsStarted(i0)
  BY <1>3 DEF RequestApproval
<1>4. ASSUME NEW w \in Workers, NEW i \in Interactions, AskUser(w, i) PROVE KeepsStarted(i0)
  BY <1>4 DEF AskUser, CreatePending, Goto
<1>5. ASSUME NEW w \in Workers, AskApproval(w) PROVE KeepsStarted(i0)
  BY <1>5 DEF AskApproval, CreatePending, Goto
<1>6. ASSUME NEW w \in Workers, Park(w) PROVE KeepsStarted(i0)
  BY <1>6 DEF Park, Leave
<1>7. ASSUME NEW w \in Workers, NEW s \in Terminal, FinishUnfenced(w, s) PROVE KeepsStarted(i0)
  BY <1>7 DEF FinishUnfenced, CompleteRound, ConvergeHumanWork, Leave
<1>8. ASSUME NEW w \in Workers, NEW s \in Terminal, FinishFenced(w, s) PROVE KeepsStarted(i0)
  BY <1>8 DEF FinishFenced, CompleteRound, ConvergeHumanWork, Leave
<1>9. ASSUME NEW w \in Workers, Start(w) PROVE KeepsStarted(i0)
  BY <1>9 DEF Start, Goto
<1>10. ASSUME NEW w \in Workers, Queue(w) PROVE KeepsStarted(i0)
  BY <1>10 DEF Queue, Goto
<1>11. ASSUME NEW w \in Workers, SkipDispatch(w) PROVE KeepsStarted(i0)
  BY <1>11 DEF SkipDispatch, Goto
<1>12. ASSUME NEW w \in Workers, Dispatch(w) PROVE KeepsStarted(i0)
  BY <1>12 DEF Dispatch, Goto
<1>13. ASSUME NEW w \in Workers, Gate(w) PROVE KeepsStarted(i0)
  BY <1>13 DEF Gate, Goto
<1>14. ASSUME NEW w \in Workers, Block(w) PROVE KeepsStarted(i0)
  BY <1>14 DEF Block, FinishApproval, Goto
<1>15. ASSUME NEW w \in Workers, CallApprovedTool(w) PROVE KeepsStarted(i0)
  BY <1>15 DEF CallApprovedTool, Goto
<1>16. ASSUME NEW w \in Workers, NEW s \in {"executed", "failed", "unknown"},
   ReturnApprovedTool(w, s) PROVE KeepsStarted(i0)
  BY <1>16 DEF ReturnApprovedTool, FinishApproval, Goto
<1>17. ASSUME NEW w \in Workers, Consume(w) PROVE KeepsStarted(i0)
  BY <1>17 DEF Consume
<1>18. ASSUME NEW w \in Workers, StopOnTerminal(w) PROVE KeepsStarted(i0)
  BY <1>18 DEF StopOnTerminal, ConvergeHumanWork, Leave
<1>19. ASSUME NEW w \in Workers, LoseOwnership(w) PROVE KeepsStarted(i0)
  BY <1>19 DEF LoseOwnership, Leave
<1>20. ASSUME NEW w \in Workers, ReleaseStart(w) PROVE KeepsStarted(i0)
  BY <1>20 DEF ReleaseStart, ReleaseClaim, Leave
<1>21. ASSUME NEW w \in Workers, CancelStart(w) PROVE KeepsStarted(i0)
  BY <1>21 DEF CancelStart, ReleaseClaim, Goto
<1>22. ASSUME NEW w \in Workers, OrchestratorCancel(w) PROVE KeepsStarted(i0)
  BY <1>22 DEF OrchestratorCancel, CompleteRound, ConvergeHumanWork, Leave
<1>23. ASSUME NEW w \in Workers, CancelParked(w) PROVE KeepsStarted(i0)
  BY <1>23 DEF CancelParked, Goto
<1>24. ASSUME NEW w \in Workers, Crash(w) PROVE KeepsStarted(i0)
  BY <1>24 DEF Crash, Leave
<1>25. ASSUME NEW w \in Workers, RenewClaim(w) PROVE KeepsStarted(i0)
  BY <1>25 DEF RenewClaim
<1>26. ASSUME NEW w \in Workers, RenewExecution(w) PROVE KeepsStarted(i0)
  BY <1>26 DEF RenewExecution
<1>27. ASSUME NEW i \in Interactions, NEW a \in {"reply", "allow", "deny"}, Answer(i, a)
   PROVE KeepsStarted(i0)
  BY <1>27 DEF Answer
<1>28. ASSUME NEW w \in Workers, NEW i \in Interactions, Claim(w, i) PROVE KeepsStarted(i0)
  BY <1>28 DEF Claim
<1>29. ASSUME NEW i \in Interactions, LeaseExpires(i) PROVE KeepsStarted(i0)
  BY <1>29 DEF LeaseExpires
<1>30. ASSUME NEW i \in Interactions, ExecutionLeaseExpires(i) PROVE KeepsStarted(i0)
  BY <1>30 DEF ExecutionLeaseExpires
<1>31. ASSUME NEW i \in Interactions, ReconcileExecution(i) PROVE KeepsStarted(i0)
  BY <1>31 DEF ReconcileExecution
<1>32. ASSUME NEW i \in Interactions, FailIrrecoverable(i) PROVE KeepsStarted(i0)
  BY <1>32 DEF FailIrrecoverable, CompleteRound, ConvergeHumanWork
<1>33. ASSUME NEW i \in Interactions, Repark(i) PROVE KeepsStarted(i0)
  BY <1>33 DEF Repark
<1>34. ASSUME FailOrphan PROVE KeepsStarted(i0)
  BY <1>34 DEF FailOrphan, CompleteRound, ConvergeHumanWork
<1>35. ASSUME NEW hit \in {{}} \cup {{w} : w \in Workers}, Abort(hit) PROVE KeepsStarted(i0)
  BY <1>35 DEF Abort, Signal, CompleteRound, ConvergeHumanWork
<1>36. ASSUME NEW hit \in {{}} \cup {{w} : w \in Workers}, AbortFails(hit) PROVE KeepsStarted(i0)
  BY <1>36 DEF AbortFails, Signal
<1>37. ASSUME RepairTerminal PROVE KeepsStarted(i0)
  BY <1>37 DEF RepairTerminal, ConvergeHumanWork
<1>38. CASE UNCHANGED vars
  BY <1>38 DEF vars
<1>39. QED
  BY <1>1, <1>2, <1>3, <1>4, <1>5, <1>6, <1>7, <1>8, <1>9, <1>10, <1>11, <1>12, <1>13,
     <1>14, <1>15, <1>16, <1>17, <1>18, <1>19, <1>20, <1>21, <1>22, <1>23, <1>24, <1>25,
     <1>26, <1>27, <1>28, <1>29, <1>30, <1>31, <1>32, <1>33, <1>34, <1>35, <1>36, <1>37,
     <1>38 DEF Next, Drive, Interrupt, Recover

\* The durable start is a point of no return: neither a retry, nor a lapsed
\* lease, nor recovery lets another worker claim what has started.
THEOREM StartedIsNeverReclaimedHolds == Spec => StartedIsNeverReclaimed
<1>1. ASSUME TypeOK, [Next]_vars
      PROVE  [\A i \in Interactions : KeepsStarted(i)]_vars
  BY <1>1, StartStep
<1>2. QED
  BY <1>1, TypeCorrect, PTL DEF Spec, StartedIsNeverReclaimed

\* No step of a worker that lost its claim changes an open Round or its
\* interactions.
LEMMA StaleStep ==
    ASSUME TypeOK, [Next]_vars, NEW v \in Workers
    PROVE  StaleStepIsSilent(v)
<1> USE DEF TypeOK, StaleStepIsSilent, Owns, Fenced, Unfenced, rows
<1>1. ASSUME NEW w \in Workers, CallDirectTool(w) PROVE StaleStepIsSilent(v)
  BY <1>1 DEF CallDirectTool, Goto
<1>2. ASSUME NEW w \in Workers, ReturnDirectTool(w) PROVE StaleStepIsSilent(v)
  BY <1>2 DEF ReturnDirectTool, Goto
<1>3. ASSUME NEW w \in Workers, NEW i \in Interactions, RequestApproval(w, i)
      PROVE  StaleStepIsSilent(v)
  BY <1>3 DEF RequestApproval
<1>4. ASSUME NEW w \in Workers, NEW i \in Interactions, AskUser(w, i) PROVE StaleStepIsSilent(v)
  BY <1>4 DEF AskUser, CreatePending, Goto
<1>5. ASSUME NEW w \in Workers, AskApproval(w) PROVE StaleStepIsSilent(v)
  BY <1>5 DEF AskApproval, CreatePending, Goto
<1>6. ASSUME NEW w \in Workers, Park(w) PROVE StaleStepIsSilent(v)
  BY <1>6 DEF Park, Leave
<1>7. ASSUME NEW w \in Workers, NEW s \in Terminal, FinishUnfenced(w, s) PROVE StaleStepIsSilent(v)
  BY <1>7 DEF FinishUnfenced, CompleteRound, ConvergeHumanWork, Leave
<1>8. ASSUME NEW w \in Workers, NEW s \in Terminal, FinishFenced(w, s) PROVE StaleStepIsSilent(v)
  BY <1>8 DEF FinishFenced, CompleteRound, ConvergeHumanWork, Leave
<1>9. ASSUME NEW w \in Workers, Start(w) PROVE StaleStepIsSilent(v)
  BY <1>9 DEF Start, Goto
<1>10. ASSUME NEW w \in Workers, Queue(w) PROVE StaleStepIsSilent(v)
  BY <1>10 DEF Queue, Goto
<1>11. ASSUME NEW w \in Workers, SkipDispatch(w) PROVE StaleStepIsSilent(v)
  BY <1>11 DEF SkipDispatch, Goto
<1>12. ASSUME NEW w \in Workers, Dispatch(w) PROVE StaleStepIsSilent(v)
  BY <1>12 DEF Dispatch, Goto
<1>13. ASSUME NEW w \in Workers, Gate(w) PROVE StaleStepIsSilent(v)
  BY <1>13 DEF Gate, Goto
<1>14. ASSUME NEW w \in Workers, Block(w) PROVE StaleStepIsSilent(v)
  BY <1>14 DEF Block, FinishApproval, Goto
<1>15. ASSUME NEW w \in Workers, CallApprovedTool(w) PROVE StaleStepIsSilent(v)
  BY <1>15 DEF CallApprovedTool, Goto
<1>16. ASSUME NEW w \in Workers, NEW s \in {"executed", "failed", "unknown"},
   ReturnApprovedTool(w, s) PROVE StaleStepIsSilent(v)
  BY <1>16 DEF ReturnApprovedTool, FinishApproval, Goto
<1>17. ASSUME NEW w \in Workers, Consume(w) PROVE StaleStepIsSilent(v)
  BY <1>17 DEF Consume
<1>18. ASSUME NEW w \in Workers, StopOnTerminal(w) PROVE StaleStepIsSilent(v)
  BY <1>18 DEF StopOnTerminal, ConvergeHumanWork, Leave
<1>19. ASSUME NEW w \in Workers, LoseOwnership(w) PROVE StaleStepIsSilent(v)
  BY <1>19 DEF LoseOwnership, Leave
<1>20. ASSUME NEW w \in Workers, ReleaseStart(w) PROVE StaleStepIsSilent(v)
  BY <1>20 DEF ReleaseStart, ReleaseClaim, Leave
<1>21. ASSUME NEW w \in Workers, CancelStart(w) PROVE StaleStepIsSilent(v)
  BY <1>21 DEF CancelStart, ReleaseClaim, Goto
<1>22. ASSUME NEW w \in Workers, OrchestratorCancel(w) PROVE StaleStepIsSilent(v)
  BY <1>22 DEF OrchestratorCancel, CompleteRound, ConvergeHumanWork, Leave
<1>23. ASSUME NEW w \in Workers, CancelParked(w) PROVE StaleStepIsSilent(v)
  BY <1>23 DEF CancelParked, Goto
<1>24. ASSUME NEW w \in Workers, Crash(w) PROVE StaleStepIsSilent(v)
  BY <1>24 DEF Crash, Leave
<1>25. ASSUME NEW w \in Workers, RenewClaim(w) PROVE StaleStepIsSilent(v)
  BY <1>25 DEF RenewClaim
<1>26. ASSUME NEW w \in Workers, RenewExecution(w) PROVE StaleStepIsSilent(v)
  BY <1>26 DEF RenewExecution
<1>27. ASSUME NEW i \in Interactions, NEW a \in {"reply", "allow", "deny"}, Answer(i, a)
   PROVE StaleStepIsSilent(v)
  BY <1>27 DEF Answer
<1>28. ASSUME NEW w \in Workers, NEW i \in Interactions, Claim(w, i) PROVE StaleStepIsSilent(v)
  BY <1>28 DEF Claim
<1>29. ASSUME NEW i \in Interactions, LeaseExpires(i) PROVE StaleStepIsSilent(v)
  BY <1>29 DEF LeaseExpires
<1>30. ASSUME NEW i \in Interactions, ExecutionLeaseExpires(i) PROVE StaleStepIsSilent(v)
  BY <1>30 DEF ExecutionLeaseExpires
<1>31. ASSUME NEW i \in Interactions, ReconcileExecution(i) PROVE StaleStepIsSilent(v)
  BY <1>31 DEF ReconcileExecution
<1>32. ASSUME NEW i \in Interactions, FailIrrecoverable(i) PROVE StaleStepIsSilent(v)
  BY <1>32 DEF FailIrrecoverable, CompleteRound, ConvergeHumanWork
<1>33. ASSUME NEW i \in Interactions, Repark(i) PROVE StaleStepIsSilent(v)
  BY <1>33 DEF Repark
<1>34. ASSUME FailOrphan PROVE StaleStepIsSilent(v)
  BY <1>34 DEF FailOrphan, CompleteRound, ConvergeHumanWork
<1>35. ASSUME NEW hit \in {{}} \cup {{w} : w \in Workers}, Abort(hit) PROVE StaleStepIsSilent(v)
  BY <1>35 DEF Abort, Signal, CompleteRound, ConvergeHumanWork
<1>36. ASSUME NEW hit \in {{}} \cup {{w} : w \in Workers}, AbortFails(hit)
      PROVE  StaleStepIsSilent(v)
  BY <1>36 DEF AbortFails, Signal
<1>37. ASSUME RepairTerminal PROVE StaleStepIsSilent(v)
  BY <1>37 DEF RepairTerminal, ConvergeHumanWork
<1>38. CASE UNCHANGED vars
  BY <1>38 DEF vars
<1>39. QED
  BY <1>1, <1>2, <1>3, <1>4, <1>5, <1>6, <1>7, <1>8, <1>9, <1>10, <1>11, <1>12, <1>13,
     <1>14, <1>15, <1>16, <1>17, <1>18, <1>19, <1>20, <1>21, <1>22, <1>23, <1>24, <1>25,
     <1>26, <1>27, <1>28, <1>29, <1>30, <1>31, <1>32, <1>33, <1>34, <1>35, <1>36, <1>37,
     <1>38 DEF Next, Drive, Interrupt, Recover

\* A worker whose claim was taken over leaves without a trace on an open Round
\* (_require_owned_claim).
THEOREM StaleWorkerWritesNothingHolds == Spec => StaleWorkerWritesNothing
<1>1. ASSUME TypeOK, [Next]_vars
      PROVE  [\A w \in Workers : StaleStepIsSilent(w)]_vars
  BY <1>1, StaleStep
<1>2. QED
  BY <1>1, TypeCorrect, PTL DEF Spec, StaleWorkerWritesNothing

\* A step that touches neither an approval, nor an effect, nor the abort report
\* is invisible to the contract.
LEMMA ContractStutter ==
    ASSUME UNCHANGED <<approval, effects, report>>
    PROVE  UNCHANGED Contract!contractVars
BY DEF CallState, Contract!contractVars

\* A step that changes one approval between two abstract states, and no other,
\* is a move of the contract.
LEMMA ContractMove ==
    ASSUME NEW i \in Interactions, NEW from, NEW to,
           CallState(i) = from, CallState(i)' = to,
           \A j \in Interactions \ {i} : approval'[j] = approval[j],
           UNCHANGED <<effects, report>>
    PROVE  Contract!Move(i, from, to)
<1>1. \A j \in Interactions \ {i} : CallState(j)' = CallState(j)
  BY DEF CallState
<1>2. [j \in Interactions |-> CallState(j)]'
          = [[j \in Interactions |-> CallState(j)] EXCEPT ![i] = to]
  BY <1>1
<1>3. QED
  BY <1>2 DEF Contract!Move

\* Converging the human work of a closing Round withdraws exactly the calls that
\* were still undecided (_converge_locked_human_work).
LEMMA ContractWithdraw ==
    ASSUME TypeOK, NEW s, NEW ap,
           ConvergeHumanWork(s, ap),
           \A j \in Interactions :
               \/ ap[j] = approval[j]
               \/ approval[j] = "executing" /\ ap[j] = "unknown",
           UNCHANGED <<effects, report>>
    PROVE  [Contract!Next]_Contract!contractVars
<1> DEFINE S == {i \in Interactions : approval[i] \in Cancellable}
<1> USE DEF TypeOK, Cancellable, Crossed
<1>1. \A i \in Interactions : CallState(i)' = IF i \in S THEN "withdrawn" ELSE CallState(i)
  BY DEF ConvergeHumanWork, CallState
<1>2. \A i \in S : CallState(i) \in Contract!Undecided
  BY DEF CallState, Contract!Undecided
<1>3. CASE S = {}
  BY <1>1, <1>3 DEF Contract!contractVars
<1>4. CASE S # {}
  <2>1. Contract!Withdraw(S)
    BY <1>1, <1>2, <1>4 DEF Contract!Withdraw, Contract!WithdrawAll
  <2>2. S \in SUBSET Interactions
    OBVIOUS
  <2>3. QED
    BY <2>1, <2>2 DEF Contract!Next
<1>5. QED
  BY <1>3, <1>4

\* Every step of workers, leases, recovery and abort is a step of the contract
\* or leaves it unchanged.
LEMMA ContractStep ==
    ASSUME TypeOK, DispatchInv, DriverInv, [Next]_vars
    PROVE  [Contract!Next]_Contract!contractVars
<1> USE DEF rows
<1>1. ASSUME NEW w \in Workers, CallDirectTool(w) PROVE [Contract!Next]_Contract!contractVars
  BY <1>1, ContractStutter DEF CallDirectTool, Goto
<1>2. ASSUME NEW w \in Workers, ReturnDirectTool(w) PROVE [Contract!Next]_Contract!contractVars
  BY <1>2, ContractStutter DEF ReturnDirectTool, Goto
<1>3. ASSUME NEW w \in Workers, NEW i \in Interactions, RequestApproval(w, i)
      PROVE  [Contract!Next]_Contract!contractVars
  <2>1. Contract!Move(i, "none", "asked")
    BY <1>3, ContractMove DEF RequestApproval, CallState, TypeOK
  <2>2. QED
    BY <2>1 DEF Contract!Ask, Contract!Next
<1>4. ASSUME NEW w \in Workers, NEW i \in Interactions, AskUser(w, i)
      PROVE  [Contract!Next]_Contract!contractVars
  BY <1>4, ContractStutter DEF AskUser, CreatePending, Goto
<1>5. ASSUME NEW w \in Workers, AskApproval(w) PROVE [Contract!Next]_Contract!contractVars
  BY <1>5, ContractStutter DEF AskApproval, CreatePending, Goto
<1>6. ASSUME NEW w \in Workers, Park(w) PROVE [Contract!Next]_Contract!contractVars
  BY <1>6, ContractStutter DEF Park, Leave
<1>7. ASSUME NEW w \in Workers, NEW s \in Terminal, FinishUnfenced(w, s)
      PROVE  [Contract!Next]_Contract!contractVars
  BY <1>7, ContractWithdraw DEF FinishUnfenced, CompleteRound, Leave
<1>8. ASSUME NEW w \in Workers, NEW s \in Terminal, FinishFenced(w, s)
      PROVE  [Contract!Next]_Contract!contractVars
  BY <1>8, ContractWithdraw DEF FinishFenced, CompleteRound, Leave
<1>9. ASSUME NEW w \in Workers, Start(w) PROVE [Contract!Next]_Contract!contractVars
  BY <1>9, ContractStutter DEF Start, Goto
<1>10. ASSUME NEW w \in Workers, Queue(w) PROVE [Contract!Next]_Contract!contractVars
  BY <1>10, ContractStutter DEF Queue, Goto
<1>11. ASSUME NEW w \in Workers, SkipDispatch(w) PROVE [Contract!Next]_Contract!contractVars
  BY <1>11, ContractStutter DEF SkipDispatch, Goto
<1>12. ASSUME NEW w \in Workers, Dispatch(w) PROVE [Contract!Next]_Contract!contractVars
  <2>1. Contract!Move(job[w], "granted", "inflight")
    BY <1>12, ContractMove DEF Dispatch, CallState, TypeOK, Fenced
  <2>2. report = "none"
    BY <1>12 DEF Dispatch, MatchesDurableTurn, DriverInv, TypeOK, Terminal
  <2>3. QED
    BY <1>12, <2>1, <2>2 DEF Contract!PutInFlight, Contract!Next, Dispatch, TypeOK, Fenced
<1>13. ASSUME NEW w \in Workers, Gate(w) PROVE [Contract!Next]_Contract!contractVars
  BY <1>13, ContractStutter DEF Gate, Goto
<1>14. ASSUME NEW w \in Workers, Block(w) PROVE [Contract!Next]_Contract!contractVars
  <2>1. CASE UNCHANGED <<approval, exec, execLive>>
    BY <1>14, <2>1, ContractStutter DEF Block
  <2>2. CASE HoldsExecution(w) /\ approval' = [approval EXCEPT ![job[w]] = "failed"]
    <3>1. /\ job[w] \in Interactions /\ UNCHANGED <<job, effects, report>>
          /\ CallState(job[w]) = "inflight" /\ approval'[job[w]] = "failed"
      BY <1>14, <2>2 DEF Block, Goto, HoldsExecution, CallState, TypeOK, Fenced
    <3>2. CASE "failed" = "unknown"
      <4>1. \A j \in Interactions : CallState(j)' = CallState(j)
        BY <2>2, <3>1, <3>2 DEF CallState, TypeOK
      <4>2. QED
        BY <3>1, <4>1 DEF Contract!contractVars
    <3>3. CASE "failed" \in {"executed", "failed"}
      <4>1. PICK i \in Interactions : i = job[w]
        BY <3>1
      <4>2. /\ CallState(i) = "inflight" /\ CallState(i)' = "settled"
            /\ \A j \in Interactions \ {i} : approval'[j] = approval[j]
        BY <2>2, <3>1, <3>3, <4>1 DEF CallState, TypeOK
      <4>3. Contract!Move(i, "inflight", "settled")
        BY <3>1, <4>2, ContractMove
      <4>4. QED
        BY <4>3 DEF Contract!Settle, Contract!Next
    <3>4. QED
      BY <3>2, <3>3
  <2>3. QED
    BY <1>14, <2>1, <2>2 DEF Block, FinishApproval
<1>15. ASSUME NEW w \in Workers, CallApprovedTool(w) PROVE [Contract!Next]_Contract!contractVars
  <2>1. CallState(job[w]) = "inflight" /\ effects[job[w]] = 0
    BY <1>15 DEF CallApprovedTool, DispatchInv, Dispatcher, CallState, TypeOK, Fenced
  <2>2. report = "none"
    BY <1>15 DEF CallApprovedTool, MatchesDurableTurn, DriverInv, TypeOK, Terminal
  <2>3. Contract!Run(job[w])
    <3>1. \A j \in Interactions : CallState(j)' = CallState(j)
      BY <1>15 DEF CallApprovedTool, CallState
    <3>2. job[w] \in Interactions /\ effects' = [effects EXCEPT ![job[w]] = 1]
      BY <1>15, <2>1 DEF CallApprovedTool, TypeOK, Fenced
    <3>3. QED
      BY <1>15, <2>1, <2>2, <3>1, <3>2 DEF CallApprovedTool, Contract!Run
  <2>4. QED
    BY <1>15, <2>3 DEF Contract!Next, CallApprovedTool, TypeOK, Fenced
<1>16. ASSUME NEW w \in Workers, NEW s \in {"executed", "failed", "unknown"},
   ReturnApprovedTool(w, s) PROVE [Contract!Next]_Contract!contractVars
  <2>1. CASE UNCHANGED <<approval, exec, execLive>>
    BY <1>16, <2>1, ContractStutter DEF ReturnApprovedTool
  <2>2. CASE HoldsExecution(w) /\ approval' = [approval EXCEPT ![job[w]] = s]
    <3>1. /\ job[w] \in Interactions /\ UNCHANGED <<job, effects, report>>
          /\ CallState(job[w]) = "inflight" /\ approval'[job[w]] = s
      BY <1>16, <2>2 DEF ReturnApprovedTool, Goto, HoldsExecution, CallState, TypeOK, Fenced
    <3>2. CASE s = "unknown"
      <4>1. \A j \in Interactions : CallState(j)' = CallState(j)
        BY <2>2, <3>1, <3>2 DEF CallState, TypeOK
      <4>2. QED
        BY <3>1, <4>1 DEF Contract!contractVars
    <3>3. CASE s \in {"executed", "failed"}
      <4>1. PICK i \in Interactions : i = job[w]
        BY <3>1
      <4>2. /\ CallState(i) = "inflight" /\ CallState(i)' = "settled"
            /\ \A j \in Interactions \ {i} : approval'[j] = approval[j]
        BY <2>2, <3>1, <3>3, <4>1 DEF CallState, TypeOK
      <4>3. Contract!Move(i, "inflight", "settled")
        BY <3>1, <4>2, ContractMove
      <4>4. QED
        BY <4>3 DEF Contract!Settle, Contract!Next
    <3>4. QED
      BY <3>2, <3>3
  <2>3. QED
    BY <1>16, <2>1, <2>2 DEF ReturnApprovedTool, FinishApproval
<1>17. ASSUME NEW w \in Workers, Consume(w) PROVE [Contract!Next]_Contract!contractVars
  BY <1>17, ContractStutter DEF Consume
<1>18. ASSUME NEW w \in Workers, StopOnTerminal(w) PROVE [Contract!Next]_Contract!contractVars
  BY <1>18, ContractWithdraw DEF StopOnTerminal, Leave
<1>19. ASSUME NEW w \in Workers, LoseOwnership(w) PROVE [Contract!Next]_Contract!contractVars
  BY <1>19, ContractStutter DEF LoseOwnership, Leave
<1>20. ASSUME NEW w \in Workers, ReleaseStart(w) PROVE [Contract!Next]_Contract!contractVars
  BY <1>20, ContractStutter DEF ReleaseStart, ReleaseClaim, Leave
<1>21. ASSUME NEW w \in Workers, CancelStart(w) PROVE [Contract!Next]_Contract!contractVars
  BY <1>21, ContractStutter DEF CancelStart, ReleaseClaim, Goto
<1>22. ASSUME NEW w \in Workers, OrchestratorCancel(w) PROVE [Contract!Next]_Contract!contractVars
  BY <1>22, ContractWithdraw DEF OrchestratorCancel, CompleteRound, Leave
<1>23. ASSUME NEW w \in Workers, CancelParked(w) PROVE [Contract!Next]_Contract!contractVars
  BY <1>23, ContractStutter DEF CancelParked, Goto
<1>24. ASSUME NEW w \in Workers, Crash(w) PROVE [Contract!Next]_Contract!contractVars
  BY <1>24, ContractStutter DEF Crash, Leave
<1>25. ASSUME NEW w \in Workers, RenewClaim(w) PROVE [Contract!Next]_Contract!contractVars
  BY <1>25, ContractStutter DEF RenewClaim
<1>26. ASSUME NEW w \in Workers, RenewExecution(w) PROVE [Contract!Next]_Contract!contractVars
  BY <1>26, ContractStutter DEF RenewExecution
<1>27. ASSUME NEW i \in Interactions, NEW a \in {"reply", "allow", "deny"}, Answer(i, a)
   PROVE [Contract!Next]_Contract!contractVars
  <2>1. report = "none"
    BY <1>27 DEF Answer, DriverInv, TypeOK, Terminal
  <2>2. CASE kind[i] = "user_input" /\ UNCHANGED approval
    BY <1>27, <2>2, ContractStutter DEF Answer
  <2>3. CASE /\ approval[i] = "requested" /\ a = "allow"
             /\ approval' = [approval EXCEPT ![i] = "approved"]
    <3>1. Contract!Move(i, "asked", "granted")
      BY <1>27, <2>3, ContractMove DEF Answer, CallState, TypeOK
    <3>2. QED
      BY <2>1, <3>1 DEF Contract!Grant, Contract!Next
  <2>4. CASE /\ approval[i] = "requested"
             /\ approval' = [approval EXCEPT ![i] = "denied"]
    <3>1. \A j \in Interactions :
             CallState(j)' = IF j \in {i} THEN "withdrawn" ELSE CallState(j)
      <4>1. CallState(i)' = "withdrawn"
        BY <2>4 DEF CallState, TypeOK
      <4>2. \A j \in Interactions \ {i} : CallState(j)' = CallState(j)
        BY <2>4 DEF CallState, TypeOK
      <4>3. QED
        BY <4>1, <4>2
    <3>2. CallState(i) \in Contract!Undecided
      BY <2>4 DEF CallState, Contract!Undecided
    <3>3. Contract!Withdraw({i})
      BY <1>27, <3>1, <3>2 DEF Contract!Withdraw, Contract!WithdrawAll, Answer
    <3>4. QED
      BY <1>27, <3>3 DEF Contract!Next
  <2>5. QED
    BY <1>27, <2>2, <2>3, <2>4 DEF Answer
<1>28. ASSUME NEW w \in Workers, NEW i \in Interactions, Claim(w, i)
      PROVE  [Contract!Next]_Contract!contractVars
  BY <1>28, ContractStutter DEF Claim
<1>29. ASSUME NEW i \in Interactions, LeaseExpires(i) PROVE [Contract!Next]_Contract!contractVars
  BY <1>29, ContractStutter DEF LeaseExpires
<1>30. ASSUME NEW i \in Interactions, ExecutionLeaseExpires(i)
      PROVE  [Contract!Next]_Contract!contractVars
  BY <1>30, ContractStutter DEF ExecutionLeaseExpires
<1>31. ASSUME NEW i \in Interactions, ReconcileExecution(i)
      PROVE  [Contract!Next]_Contract!contractVars
  <2>1. \A j \in Interactions : CallState(j)' = CallState(j)
    BY <1>31 DEF ReconcileExecution, CallState, TypeOK
  <2>2. QED
    BY <1>31, <2>1 DEF ReconcileExecution, Contract!contractVars
<1>32. ASSUME NEW i \in Interactions, FailIrrecoverable(i)
      PROVE  [Contract!Next]_Contract!contractVars
  <2>1. PICK ap \in {approval, [approval EXCEPT ![i] = "unknown"]} :
            /\ ConvergeHumanWork("failed", ap)
            /\ ap # approval => approval[i] = "executing"
    BY <1>32 DEF FailIrrecoverable, CompleteRound
  <2>2. ASSUME NEW j \in Interactions
        PROVE  ap[j] = approval[j] \/ (approval[j] = "executing" /\ ap[j] = "unknown")
    <3>1. CASE ap = approval
      BY <3>1
    <3>2. CASE ap # approval
      BY <2>1, <3>2 DEF TypeOK
    <3>3. QED
      BY <3>1, <3>2
  <2>3. QED
    BY <1>32, <2>1, <2>2, ContractWithdraw DEF FailIrrecoverable
<1>33. ASSUME NEW i \in Interactions, Repark(i) PROVE [Contract!Next]_Contract!contractVars
  BY <1>33, ContractStutter DEF Repark
<1>34. ASSUME FailOrphan PROVE [Contract!Next]_Contract!contractVars
  BY <1>34, ContractWithdraw DEF FailOrphan, CompleteRound
<1>35. ASSUME NEW hit \in {{}} \cup {{w} : w \in Workers}, Abort(hit)
      PROVE  [Contract!Next]_Contract!contractVars
  <2> DEFINE S == {j \in Interactions : CallState(j) \in Contract!Undecided}
  <2>1. report = "none"
    BY <1>35 DEF Abort, CompleteRound, DriverInv
  <2>2. \A j \in Interactions : CallState(j)' = IF j \in S THEN "withdrawn" ELSE CallState(j)
    BY <1>35 DEF Abort, CompleteRound, ConvergeHumanWork, CallState, Contract!Undecided,
              TypeOK, Cancellable, Crossed
  <2>3. report' \in {"certain", "uncertain"}
    BY <1>35 DEF Abort
  <2>4. report' = "certain" => \A j \in Interactions : CallState(j) # "inflight"
    BY <1>35 DEF Abort, UncertainDispatch, CallState, TypeOK, Cancellable, Crossed
  <2>5. Contract!Rule(report')
    BY <1>35, <2>1, <2>2, <2>4 DEF Abort, Contract!Rule, Contract!WithdrawAll
  <2>6. QED
    BY <2>3, <2>5 DEF Contract!Next
<1>36. ASSUME NEW hit \in {{}} \cup {{w} : w \in Workers}, AbortFails(hit)
      PROVE  [Contract!Next]_Contract!contractVars
  BY <1>36, ContractStutter DEF AbortFails, Signal
<1>37. ASSUME RepairTerminal PROVE [Contract!Next]_Contract!contractVars
  BY <1>37, ContractWithdraw DEF RepairTerminal
<1>38. CASE UNCHANGED vars
  BY <1>38, ContractStutter DEF vars, rows
<1>39. QED
  BY <1>1, <1>2, <1>3, <1>4, <1>5, <1>6, <1>7, <1>8, <1>9, <1>10, <1>11, <1>12, <1>13,
     <1>14, <1>15, <1>16, <1>17, <1>18, <1>19, <1>20, <1>21, <1>22, <1>23, <1>24, <1>25,
     <1>26, <1>27, <1>28, <1>29, <1>30, <1>31, <1>32, <1>33, <1>34, <1>35, <1>36, <1>37,
     <1>38 DEF Next, Drive, Interrupt, Recover

\* HumanRound implements ApprovalContract: what the user is promised about a
\* call that needs approval survives every interleaving, crash and recovery.
THEOREM KeepsContractHolds == Spec => KeepsContract
<1>1. Init => Contract!Init
  BY DEF Init, RoundBegins, Contract!Init, CallState
<1>2. ASSUME IInv, [Next]_vars
      PROVE  [Contract!Next]_Contract!contractVars
  BY <1>2, ContractStep DEF IInv
<1>3. QED
  BY <1>1, <1>2, Invariance, PTL DEF Spec, KeepsContract, Contract!Spec
=============================================================================
