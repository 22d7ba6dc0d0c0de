----------------------------- MODULE MCRegistry -----------------------------
(***************************************************************************)
(* Small instances of PolicyRegistry for TLC.                              *)
(***************************************************************************)
EXTENDS PolicyRegistry, TLC

CONSTANTS k1

\* One key, so that merchants and drafts compete for its versions; a policy that
\* outlives its approval and one that does not.
MCSpecs == {[key |-> k1, ttl |-> 1, approvalTtl |-> 1],
            [key |-> k1, ttl |-> 2, approvalTtl |-> 1]}

Symmetry == Permutations(Merchants) \cup Permutations(DraftIds) \cup Permutations(ApprovalIds)
=============================================================================
