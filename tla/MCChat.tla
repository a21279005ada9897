------------------------------- MODULE MCChat -------------------------------
(***************************************************************************)
(* The safety of a Round's human interactions beside that of the changes of *)
(* the shared workspace, which share no state, on small instances: in a     *)
(* behaviour one of them (which) moves; the other stays as it is, at rest:  *)
(* no worker drives the Round, there is no directory.                       *)
(***************************************************************************)
EXTENDS HumanRound, WorkspaceMutations, TLC

VARIABLE which

ChatInit ==
    /\ which \in {"round", "workspace"}
    /\ RoundBegins /\ WsInit
    /\ IF which = "round" THEN Init ELSE pc = [w \in Workers |-> "idle"]
    /\ which = "round" => folder = NoFolder

ChatNext ==
    /\ UNCHANGED which
    /\ \/ which = "round" /\ Next /\ UNCHANGED wsVars
       \/ which = "workspace" /\ WsNext /\ UNCHANGED vars

ChatSpec == ChatInit /\ [][ChatNext]_<<which, vars, wsVars>>

\* What is interchangeable in a part; the parts share these values, so that one
\* group of permutations serves both.  Of the changes, those that write at one
\* place are interchangeable.
ChatSymmetry ==
    Permutations(Workers) \cup Permutations(Interactions) \cup UNION {Permutations(P) : P \in Places}

ASSUME PlacesAreAlike == \A P \in Places : P \subseteq Unmergeable \/ P \cap Unmergeable = {}

ASSUME SharedValues == Workers = Reconcilers /\ Interactions = Dirs

\* After a fault of the workspace two changes at work are explored further, after
\* a second fault one.
AtWork == {m \in Mutations : phase[m] # "idle"}
OneMatter ==
    \/ faults = 0
    \/ faults = 1 /\ Cardinality(AtWork) <= 2
    \/ Cardinality(AtWork) <= 1
=============================================================================
