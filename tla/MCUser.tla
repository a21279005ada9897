------------------------------- MODULE MCUser -------------------------------
(***************************************************************************)
(* What a user has once, on small instances: the run slots, the sandbox,    *)
(* and with them an attachment sent with a message.  They share no state:   *)
(* in a behaviour one of them (which) moves, the others stay as they are,   *)
(* at rest: no caller of the sandbox has a process.                         *)
(***************************************************************************)
EXTENDS RunSlots, DraftAttachments, SandboxBinding, TLC

VARIABLE which

UserInit ==
    /\ which \in {"slots", "draft", "sandbox"}
    /\ Init /\ DraftInit /\ Unbound
    /\ IF which = "sandbox" THEN SandboxInit ELSE home = [c \in Callers |-> NoCaller]

UserNext ==
    /\ UNCHANGED which
    /\ \/ which = "slots" /\ Next /\ UNCHANGED <<draftVars, sandboxVars>>
       \/ which = "draft" /\ DraftNext /\ UNCHANGED <<vars, sandboxVars>>
       \/ which = "sandbox" /\ SandboxNext /\ UNCHANGED <<vars, draftVars>>

UserSpec == UserInit /\ [][UserNext]_<<which, vars, draftVars, sandboxVars>>

\* What is interchangeable in a part; the parts share these values, so that one
\* group of permutations serves them all.
UserSymmetry ==
    Permutations(Attempts) \cup Permutations(Sessions) \cup Permutations(Processes)

ASSUME SharedValues ==
    /\ Attempts = Boxes
    /\ Sessions = Callers /\ Sessions = Uploaders
    /\ Processes = Cleaners

\* States are explored further where there is no abort, or where it meets the
\* requests of one session, two of them at most.
OneMatter ==
    \/ abort = NoAbort /\ cancelled = {}
    \/ LET made == {a \in Attempts : at[a] # NoOne} IN
          Cardinality(made) <= 2 /\ Cardinality({at[a] : a \in made}) <= 1

\* Of an attachment whose session was deleted, the third generation is left out.
FewLateClaims == session \/ attGen <= 2

\* File requests are explored further with two containers and no paused one;
\* while an administrator switches the backend all callers are runs, no sandbox
\* is paused and there are two containers at most.
CalmSandbox ==
    LET crowded == Cardinality({b \in Boxes : life[b] # "none"}) > 2
        paused == \E b \in Boxes : life[b] = "paused"
    IN  /\ paused \/ switching \/ crowded => \A c \in Callers : need[c] # "file"
        /\ paused => ~crowded
        /\ switching => ~paused /\ ~crowded /\ \A c \in Callers : need[c] = "run"
=============================================================================
