----------------------------- MODULE MCProposal -----------------------------
(***************************************************************************)
(* Small instances of ProposalWorkflow for TLC.                            *)
(***************************************************************************)
EXTENDS ProposalWorkflow, TLC

CONSTANTS k1, k2, t1, rev

\* An approval that lasts as long as the policy, and one that runs out before.
WelcomeSpec == [key |-> k1, ttl |-> 2, approvalTtl |-> 1]
RevenueSpec == [key |-> k2, ttl |-> 1, approvalTtl |-> 1]

MCSpecs == {WelcomeSpec, RevenueSpec}

BothTemplates == [t \in {t1, rev} |-> IF t = t1 THEN WelcomeSpec ELSE RevenueSpec]

Symmetry == Permutations(DraftIds) \cup Permutations(ApprovalIds) \cup Permutations(ProposalIds)
=============================================================================
