----------------------------- MODULE MCRunSlots -----------------------------
(* RunSlots on a small instance, with the symmetries of its model values.  *)
EXTENDS RunSlots, TLC

Symmetric == Permutations(Attempts) \cup Permutations(Sessions)

\* A bound: an abort, and what follows it, concerns the only request that was
\* made, and it is no matter which one that is.
LoneAbort ==
    (abort # NoAbort \/ cancelled # {})
        => {a \in Attempts : pc[a] # "new"} \subseteq {CHOOSE a \in Attempts : TRUE}
=============================================================================
