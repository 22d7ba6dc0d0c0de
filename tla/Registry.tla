------------------------------ MODULE Registry ------------------------------
(***************************************************************************)
(* policyos/policyRegistry.ts and the tokens of approvalTokenService.ts,   *)
(* as operators over the registry's state: what each operation requires    *)
(* and what it makes of the state.  Every operation is synchronous, so a   *)
(* state machine applies one of them, or a handler several, in one step.   *)
(***************************************************************************)
EXTENDS Integers, FiniteSets

CONSTANTS
  Merchants,
  PolicyKeys,
  DraftIds,        \* nextDraftId draws the clock and a random number: taken as unique
  ApprovalIds,     \* random UUIDs
  NoApproval,      \* a draft not yet approved
  NoPolicy,        \* a draft not yet published
  Specs,           \* the validated policy specifications of a run
  MinApprovalTtl   \* the 30 seconds an approval lasts at least

ASSUME RegistryAssumption ==
  /\ Specs \subseteq [key : PolicyKeys, ttl : Nat \ {0}, approvalTtl : Nat \ {0}]
  /\ MinApprovalTtl \in Nat
  /\ NoApproval \notin ApprovalIds
  /\ NoPolicy \notin PolicyKeys \X Nat

-----------------------------------------------------------------------------
(***************************************************************************)
(* Records.  The registry is one record of four tables.                    *)
(***************************************************************************)
\* createPolicyId: key@vN
PolicyIds == PolicyKeys \X (Nat \ {0})

DraftStatus == {"DRAFT", "SUBMITTED", "APPROVED", "REJECTED", "PUBLISHED"}

Draft ==
  [merchantId : Merchants, spec : Specs, status : DraftStatus,
   approvalId : ApprovalIds \cup {NoApproval}, policyId : PolicyIds \cup {NoPolicy}]

\* A token carries the merchant, the draft and the expiry of its approval.
Approval ==
  [merchantId : Merchants, draftId : DraftIds, approvedAt : Nat, expiresAt : Nat,
   status : {"APPROVED", "PUBLISHED"}]

Policy ==
  [merchantId : Merchants, draftId : DraftIds, publishedAt : Nat, expiresAt : Nat,
   status : {"PUBLISHED", "PAUSED", "EXPIRED"}]

EmptyTable == [k \in {} |-> 0]

EmptyRegistry ==
  [drafts |-> EmptyTable, approvals |-> EmptyTable, policies |-> EmptyTable,
   publishedByMerchant |-> [m \in Merchants |-> {}]]

\* table[key] = value
Put(table, key, value) ==
  [k \in DOMAIN table \cup {key} |-> IF k = key THEN value ELSE table[k]]

Later(a, b) == IF a >= b THEN a ELSE b

-----------------------------------------------------------------------------
(***************************************************************************)
(* Drafts and approvals.                                                   *)
(***************************************************************************)
CreateDraft(reg, m, d, spec) ==
  [reg EXCEPT !.drafts = Put(@, d,
     [merchantId |-> m, spec |-> spec, status |-> "DRAFT",
      approvalId |-> NoApproval, policyId |-> NoPolicy])]

\* draft && draft.merchant_id === merchantId, and its status is one of these
DraftIn(reg, m, d, statuses) ==
  /\ d \in DOMAIN reg.drafts
  /\ reg.drafts[d].merchantId = m
  /\ reg.drafts[d].status \in statuses

CanSubmit(reg, m, d) == DraftIn(reg, m, d, {"DRAFT", "REJECTED"})

SubmitDraft(reg, d) == [reg EXCEPT !.drafts[d].status = "SUBMITTED"]

CanApprove(reg, m, d) == DraftIn(reg, m, d, {"SUBMITTED"})

ApproveDraft(reg, d, a, now) ==
  LET draft == reg.drafts[d]
  IN  [reg EXCEPT
        !.approvals = Put(@, a,
           [merchantId |-> draft.merchantId, draftId |-> d, approvedAt |-> now,
            expiresAt |-> now + Later(MinApprovalTtl, draft.spec.approvalTtl),
            status |-> "APPROVED"]),
        !.drafts[d] = [draft EXCEPT !.status = "APPROVED", !.approvalId = a]]

\* Mutant: the approval of another draft of the merchant does as well.
ApprovalServesAnyDraft(reg, m, d, a, now) ==
  /\ a \in DOMAIN reg.approvals
  /\ reg.approvals[a].merchantId = m
  /\ reg.approvals[a].expiresAt >= now
  /\ reg.approvals[a].status = "APPROVED"

\* resolveApprovalForPublish with an approval id
ApprovalServes(reg, m, d, a, now) ==
  /\ a \in DOMAIN reg.approvals
  /\ reg.approvals[a].merchantId = m
  /\ reg.approvals[a].draftId = d
  /\ reg.approvals[a].expiresAt >= now
  /\ reg.approvals[a].status = "APPROVED"

\* resolveApprovalForPublish with the token of approval a: no record is looked up
TokenServes(reg, m, d, a, now) ==
  /\ a \in DOMAIN reg.approvals
  /\ reg.approvals[a].merchantId = m
  /\ reg.approvals[a].draftId = d
  /\ reg.approvals[a].expiresAt >= now

\* Mutant: the approval is not marked as used.
UseApprovalUnmarked(reg, a) == reg

UseApproval(reg, a) == [reg EXCEPT !.approvals[a].status = "PUBLISHED"]

-----------------------------------------------------------------------------
(***************************************************************************)
(* Publishing.                                                             *)
(***************************************************************************)
\* listPoliciesByKey: the versions of a key, whoever published them
Versions(reg, key) == {p[2] : p \in {q \in DOMAIN reg.policies : q[1] = key}}

\* Mutant: only the active policies are counted, listPolicies' default.
NextVersionOfActive(reg, key) ==
  1 + Cardinality({p \in DOMAIN reg.policies :
                     p[1] = key /\ reg.policies[p].status = "PUBLISHED"})

\* Mutant: versions start at zero.
NextVersionFromZero(reg, key) ==
  LET versions == Versions(reg, key)
  IN  IF versions = {} THEN 0
      ELSE 1 + CHOOSE n \in versions : \A k \in versions : k <= n

NextVersion(reg, key) ==
  LET versions == Versions(reg, key)
  IN  IF versions = {} THEN 1
      ELSE 1 + CHOOSE n \in versions : \A k \in versions : k <= n

CanPublish(reg, m, d) == DraftIn(reg, m, d, {"APPROVED"})

NextPolicyId(reg, d) ==
  LET key == reg.drafts[d].spec.key IN <<key, NextVersion(reg, key)>>

PublishDraft(reg, d, now) ==
  LET draft == reg.drafts[d]
      p == NextPolicyId(reg, d)
  IN  [reg EXCEPT
        !.policies = Put(@, p,
           [merchantId |-> draft.merchantId, draftId |-> d, publishedAt |-> now,
            expiresAt |-> now + draft.spec.ttl, status |-> "PUBLISHED"]),
        !.publishedByMerchant[draft.merchantId] = @ \cup {p},
        !.drafts[d] = [draft EXCEPT !.status = "PUBLISHED", !.policyId = p]]

-----------------------------------------------------------------------------
(***************************************************************************)
(* Published policies.                                                     *)
(***************************************************************************)
SetPolicyStatus(reg, ps, status) ==
  [reg EXCEPT !.policies =
     [p \in DOMAIN @ |-> IF p \in ps THEN [@[p] EXCEPT !.status = status] ELSE @[p]]]

PolicyIn(reg, m, p, status) ==
  /\ p \in DOMAIN reg.policies
  /\ reg.policies[p].merchantId = m
  /\ reg.policies[p].status = status

\* Mutant: a policy still counts as alive at the instant it expires.
ExpiredPoliciesLate(reg, m, now) ==
  {p \in reg.publishedByMerchant[m] :
     reg.policies[p].status = "PUBLISHED" /\ reg.policies[p].expiresAt < now}

\* Only the policies in the merchant's list are looked at: a paused one is not.
ExpiredPolicies(reg, m, now) ==
  {p \in reg.publishedByMerchant[m] :
     reg.policies[p].status = "PUBLISHED" /\ reg.policies[p].expiresAt <= now}

ExpirePolicies(reg, m, now) ==
  LET expired == ExpiredPolicies(reg, m, now)
      remained == {p \in reg.publishedByMerchant[m] \ expired :
                     reg.policies[p].status = "PUBLISHED"}
  IN  [SetPolicyStatus(reg, expired, "EXPIRED")
        EXCEPT !.publishedByMerchant[m] = remained]

\* Mutant: a paused policy stays in its merchant's list.
PausePolicyListed(reg, m, p) == SetPolicyStatus(reg, {p}, "PAUSED")

PausePolicy(reg, m, p) ==
  [SetPolicyStatus(reg, {p}, "PAUSED") EXCEPT !.publishedByMerchant[m] = @ \ {p}]

\* Mutant: the expiry is not looked at.
ResumePolicyAnyTime(reg, m, p, now) ==
  [SetPolicyStatus(reg, {p}, "PUBLISHED") EXCEPT !.publishedByMerchant[m] = @ \cup {p}]

\* A policy that outlived its time while paused is expired, and the call throws.
ResumePolicy(reg, m, p, now) ==
  IF reg.policies[p].expiresAt <= now
  THEN SetPolicyStatus(reg, {p}, "EXPIRED")
  ELSE [SetPolicyStatus(reg, {p}, "PUBLISHED")
         EXCEPT !.publishedByMerchant[m] = @ \cup {p}]
=============================================================================
