-------------------------- MODULE ApprovalContract --------------------------
(***************************************************************************)
(* What the approval machinery of a Round promises its user, with no        *)
(* workers, leases, tokens or recovery: a tool call that needs approval is  *)
(* asked, granted or withdrawn, put in flight once, run at most once, and   *)
(* an abort is told "certain" only when nothing is or will be in flight.    *)
(***************************************************************************)
EXTENDS Naturals

CONSTANT Interactions

VARIABLES state,    \* of each requested call
          runs,     \* how often each call was made
          verdict   \* what an abort said

contractVars == <<state, runs, verdict>>

Undecided == {"asked", "granted"}

Init ==
    /\ state = [i \in Interactions |-> "none"]
    /\ runs = [i \in Interactions |-> 0]
    /\ verdict = "none"

Move(i, from, to) ==
    /\ state[i] = from
    /\ state' = [state EXCEPT ![i] = to]
    /\ UNCHANGED <<runs, verdict>>

Ask(i) == Move(i, "none", "asked")
Grant(i) == verdict = "none" /\ Move(i, "asked", "granted")
PutInFlight(i) == verdict = "none" /\ Move(i, "granted", "inflight")
Settle(i) == Move(i, "inflight", "settled")

WithdrawAll(S) ==
    state' = [i \in Interactions |-> IF i \in S THEN "withdrawn" ELSE state[i]]

\* The user denies, or the Round closes under the question.
Withdraw(S) ==
    /\ S # {} /\ \A i \in S : state[i] \in Undecided
    /\ WithdrawAll(S)
    /\ UNCHANGED <<runs, verdict>>

Run(i) ==
    /\ verdict = "none" /\ state[i] = "inflight" /\ runs[i] = 0
    /\ runs' = [runs EXCEPT ![i] = 1]
    /\ UNCHANGED <<state, verdict>>

Rule(v) ==
    /\ verdict = "none"
    /\ v = "certain" => \A i \in Interactions : state[i] # "inflight"
    /\ verdict' = v
    /\ WithdrawAll({i \in Interactions : state[i] \in Undecided})
    /\ UNCHANGED runs

Next ==
    \/ \E i \in Interactions : Ask(i) \/ Grant(i) \/ PutInFlight(i) \/ Settle(i) \/ Run(i)
    \/ \E S \in SUBSET Interactions : Withdraw(S)
    \/ \E v \in {"certain", "uncertain"} : Rule(v)

Spec == Init /\ [][Next]_contractVars
=============================================================================
