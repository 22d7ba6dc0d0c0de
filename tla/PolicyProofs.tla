---------------------------- MODULE PolicyProofs ----------------------------
(***************************************************************************)
(* Theorems about a merchant's policies, for any merchants, keys,          *)
(* specifications, templates and ids, and a clock without bound.           *)
(*                                                                         *)
(* First the registry under the owner's routes (PolicyRegistry).  Its      *)
(* inductive invariant adds to the properties what they silently rest on:  *)
(* the versions of a key have no gaps, so the next one is new; an approval *)
(* is never from the future; what was served is still known.               *)
(*                                                                         *)
(* Then the merchant service over the same registry (ProposalWorkflow).    *)
(* Its handlers chain operations of the registry in one step, so the       *)
(* lemmas are about each operation of policyRegistry.ts on any registry    *)
(* that is sound, not about a step: what an operation makes of a sound     *)
(* registry is sound, and has all that was there.                          *)
(***************************************************************************)
EXTENDS ProposalWorkflow, TLAPS

(***************************************************************************)
(* The registry under the owner's routes.                                  *)
(***************************************************************************)
VersionsHaveNoGaps ==
  \A key \in PolicyKeys : \E n \in Nat : Versions(registry, key) = 1 .. n

ApprovalsArePast ==
  \A a \in DOMAIN registry.approvals : registry.approvals[a].approvedAt <= now

ServedKnown == served.policies \subseteq DOMAIN registry.policies

IInv ==
  /\ RegistryTypeOK
  /\ ListsAreExact
  /\ PoliciesApproved
  /\ ServedAlive
  /\ VersionsHaveNoGaps
  /\ ApprovalsArePast
  /\ ServedKnown

-----------------------------------------------------------------------------
(***************************************************************************)
(* The shape of a step: every table grows, and of what is there only the   *)
(* status ever changes.                                                    *)
(***************************************************************************)
ApprovalsGrow ==
  \A a \in DOMAIN registry.approvals :
    LET old == registry.approvals[a]
        new == registry'.approvals[a]
    IN  /\ a \in DOMAIN registry'.approvals
        /\ new.merchantId = old.merchantId
        /\ new.draftId = old.draftId
        /\ new.approvedAt = old.approvedAt
        /\ new.expiresAt = old.expiresAt

PublishedDraftsStay ==
  \A d \in DOMAIN registry.drafts :
    /\ d \in DOMAIN registry'.drafts
    /\ registry.drafts[d].status = "PUBLISHED" =>
         registry'.drafts[d] = registry.drafts[d]

PoliciesStay ==
  \A p \in DOMAIN registry.policies :
    LET old == registry.policies[p]
        new == registry'.policies[p]
    IN  /\ p \in DOMAIN registry'.policies
        /\ new = [old EXCEPT !.status = new.status]
        /\ old.status = "EXPIRED" => new.status = "EXPIRED"
        /\ old.status = "PAUSED" /\ new.status = "PUBLISHED" => old.expiresAt > now

\* Every new policy comes with the approval it was published by.
NewPoliciesApproved ==
  \A p \in DOMAIN registry'.policies \ DOMAIN registry.policies :
    LET policy == registry'.policies[p]
    IN  /\ \E a \in DOMAIN registry.approvals :
             /\ registry.approvals[a].draftId = policy.draftId
             /\ registry.approvals[a].merchantId = policy.merchantId
             /\ registry.approvals[a].approvedAt <= policy.publishedAt
             /\ policy.publishedAt <= registry.approvals[a].expiresAt
        /\ policy.draftId \in DOMAIN registry'.drafts
        /\ registry'.drafts[policy.draftId].status = "PUBLISHED"
        /\ registry'.drafts[policy.draftId].policyId = p

Shape == ApprovalsGrow /\ PublishedDraftsStay /\ PoliciesStay /\ NewPoliciesApproved

\* What is left to show of each action.
StepOK ==
  /\ RegistryTypeOK'
  /\ ListsAreExact'
  /\ VersionsHaveNoGaps'
  /\ ApprovalsArePast'
  /\ Shape

-----------------------------------------------------------------------------
LEMMA ExceptInRange ==
  ASSUME NEW S, NEW T, NEW f \in [S -> T], NEW x, NEW v \in T
  PROVE  [f EXCEPT ![x] = v] \in [S -> T]
OBVIOUS

\* The next version of a key is one more than its last.
LEMMA NextVersionIsNew ==
  ASSUME NEW reg, NEW key, NEW n \in Nat, Versions(reg, key) = 1 .. n
  PROVE  NextVersion(reg, key) = n + 1
<1>1. CASE n = 0
  BY <1>1 DEF NextVersion
<1>2. CASE n # 0
  <2>1. n \in 1 .. n /\ \A k \in 1 .. n : k <= n
    BY <1>2
  <2>2. \A k \in 1 .. n : (\A j \in 1 .. n : j <= k) => k = n
    BY <2>1
  <2> DEFINE last == CHOOSE k \in 1 .. n : \A j \in 1 .. n : j <= k
  <2>3. last = n
    BY <2>1, <2>2
  <2>4. Versions(reg, key) # {}
    BY <2>1
  <2>5. NextVersion(reg, key) = 1 + last
    BY <2>4 DEF NextVersion
  <2> HIDE DEF last
  <2> QED BY <2>3, <2>5
<1> QED BY <1>1, <1>2

\* A step that leaves the keys of the policies alone opens no gap.
LEMMA VersionsStay ==
  ASSUME VersionsHaveNoGaps, DOMAIN registry'.policies = DOMAIN registry.policies
  PROVE  VersionsHaveNoGaps'
BY DEF VersionsHaveNoGaps, Versions

-----------------------------------------------------------------------------
LEMMA CreateOK ==
  ASSUME IInv, NEW m \in Merchants, NEW d \in DraftIds, NEW spec \in Specs,
         Create(m, d, spec)
  PROVE  StepOK
<1> DEFINE draft == [merchantId |-> m, spec |-> spec, status |-> "DRAFT",
                     approvalId |-> NoApproval, policyId |-> NoPolicy]
<1>1. /\ DOMAIN registry' = DOMAIN registry
      /\ registry'.drafts = Put(registry.drafts, d, draft)
      /\ registry'.approvals = registry.approvals
      /\ registry'.policies = registry.policies
      /\ registry'.publishedByMerchant = registry.publishedByMerchant
      /\ UNCHANGED <<now, served>>
  BY DEF Create, CreateDraft, IInv, RegistryTypeOK
<1>2. draft \in Draft
  BY DEF Draft, DraftStatus
<1>3. /\ DOMAIN registry'.drafts = DOMAIN registry.drafts \cup {d}
      /\ registry'.drafts[d] = draft
      /\ \A x \in DOMAIN registry.drafts : registry'.drafts[x] = registry.drafts[x]
  BY <1>1 DEF Put, Create
<1> HIDE DEF draft
<1>4. RegistryTypeOK'
  BY <1>1, <1>2, <1>3 DEF IInv, RegistryTypeOK, TableOf
<1>5. ListsAreExact' /\ ApprovalsArePast'
  BY <1>1 DEF IInv, ListsAreExact, ApprovalsArePast
<1>6. PoliciesStay
  BY <1>1 DEF PoliciesStay, IInv, RegistryTypeOK, TableOf, Policy
<1>7. Shape
  BY <1>1, <1>3, <1>6 DEF Shape, ApprovalsGrow, PublishedDraftsStay, NewPoliciesApproved
<1> QED BY <1>1, <1>4, <1>5, <1>7, VersionsStay DEF StepOK, IInv

LEMMA SubmitOK ==
  ASSUME IInv, NEW m \in Merchants, NEW d \in DraftIds, Submit(m, d)
  PROVE  StepOK
<1> DEFINE draft == [registry.drafts[d] EXCEPT !.status = "SUBMITTED"]
<1>1. /\ DOMAIN registry' = DOMAIN registry
      /\ registry'.drafts = [registry.drafts EXCEPT ![d] = draft]
      /\ registry'.approvals = registry.approvals
      /\ registry'.policies = registry.policies
      /\ registry'.publishedByMerchant = registry.publishedByMerchant
      /\ UNCHANGED <<now, served>>
  BY DEF Submit, SubmitDraft, IInv, RegistryTypeOK
<1>2. /\ d \in DOMAIN registry.drafts
      /\ registry.drafts[d] \in Draft
      /\ registry.drafts[d].status # "PUBLISHED"
  BY DEF Submit, CanSubmit, DraftIn, IInv, RegistryTypeOK, TableOf
<1>3. draft \in Draft
  BY <1>2 DEF Draft, DraftStatus
<1> HIDE DEF draft
<1>4. RegistryTypeOK'
  BY <1>1, <1>2, <1>3 DEF IInv, RegistryTypeOK, TableOf
<1>5. ListsAreExact' /\ ApprovalsArePast'
  BY <1>1 DEF IInv, ListsAreExact, ApprovalsArePast
<1>6. PoliciesStay
  BY <1>1 DEF PoliciesStay, IInv, RegistryTypeOK, TableOf, Policy
<1>7. Shape
  BY <1>1, <1>2, <1>6 DEF Shape, ApprovalsGrow, PublishedDraftsStay, NewPoliciesApproved
<1> QED BY <1>1, <1>4, <1>5, <1>7, VersionsStay DEF StepOK, IInv

LEMMA ApproveOK ==
  ASSUME IInv, NEW m \in Merchants, NEW d \in DraftIds, NEW a \in ApprovalIds,
         Approve(m, d, a)
  PROVE  StepOK
<1> DEFINE old == registry.drafts[d]
           draft == [old EXCEPT !.status = "APPROVED", !.approvalId = a]
           approval == [merchantId |-> old.merchantId, draftId |-> d, approvedAt |-> now,
                        expiresAt |-> now + Later(MinApprovalTtl, old.spec.approvalTtl),
                        status |-> "APPROVED"]
<1>1. /\ DOMAIN registry' = DOMAIN registry
      /\ registry'.drafts = [registry.drafts EXCEPT ![d] = draft]
      /\ registry'.approvals = Put(registry.approvals, a, approval)
      /\ registry'.policies = registry.policies
      /\ registry'.publishedByMerchant = registry.publishedByMerchant
      /\ UNCHANGED <<now, served>>
  BY DEF Approve, ApproveDraft, IInv, RegistryTypeOK
<1>2. /\ d \in DOMAIN registry.drafts
      /\ old \in Draft
      /\ old.status # "PUBLISHED"
      /\ a \notin DOMAIN registry.approvals
  BY DEF Approve, CanApprove, DraftIn, IInv, RegistryTypeOK, TableOf
<1>3. draft \in Draft
  BY <1>2 DEF Draft, DraftStatus
<1>4. approval \in Approval /\ approval.approvedAt <= now
  <2>1. old.spec.approvalTtl \in Nat /\ old.merchantId \in Merchants
    BY <1>2, RegistryAssumption DEF Draft
  <2>2. Later(MinApprovalTtl, old.spec.approvalTtl) \in Nat
    BY <2>1, RegistryAssumption DEF Later
  <2>3. now \in Nat
    BY DEF IInv, RegistryTypeOK
  <2> QED BY <2>1, <2>2, <2>3 DEF Approval
<1>5. /\ DOMAIN registry'.approvals = DOMAIN registry.approvals \cup {a}
      /\ registry'.approvals[a] = approval
      /\ \A x \in DOMAIN registry.approvals : registry'.approvals[x] = registry.approvals[x]
  BY <1>1, <1>2 DEF Put
<1> HIDE DEF draft, approval
<1>6. RegistryTypeOK'
  BY <1>1, <1>2, <1>3, <1>4, <1>5 DEF IInv, RegistryTypeOK, TableOf
<1>7. ListsAreExact' /\ ApprovalsArePast'
  BY <1>1, <1>4, <1>5 DEF IInv, ListsAreExact, ApprovalsArePast
<1>8. PoliciesStay
  BY <1>1 DEF PoliciesStay, IInv, RegistryTypeOK, TableOf, Policy
<1>9. Shape
  BY <1>1, <1>2, <1>5, <1>8 DEF Shape, ApprovalsGrow, PublishedDraftsStay, NewPoliciesApproved
<1> QED BY <1>1, <1>6, <1>7, <1>9, VersionsStay DEF StepOK, IInv

-----------------------------------------------------------------------------
(***************************************************************************)
(* Both ways of publishing: the registry reg may differ from the current   *)
(* one in the status of the approval just used.                            *)
(***************************************************************************)
LEMMA PublishOK ==
  ASSUME IInv, NEW m \in Merchants, NEW d \in DraftIds, NEW a \in ApprovalIds, NEW reg,
         CanPublish(registry, m, d), TokenServes(registry, m, d, a, now),
         DOMAIN reg = DOMAIN registry,
         reg.drafts = registry.drafts, reg.policies = registry.policies,
         reg.publishedByMerchant = registry.publishedByMerchant,
         DOMAIN reg.approvals = DOMAIN registry.approvals,
         TableOf(reg.approvals, ApprovalIds, Approval),
         \A x \in DOMAIN registry.approvals :
           reg.approvals[x] = [registry.approvals[x] EXCEPT !.status = reg.approvals[x].status],
         registry' = PublishDraft(reg, d, now), UNCHANGED <<now, served>>
  PROVE  StepOK
<1> DEFINE old == registry.drafts[d]
           p == NextPolicyId(reg, d)
           draft == [old EXCEPT !.status = "PUBLISHED", !.policyId = p]
           policy == [merchantId |-> old.merchantId, draftId |-> d, publishedAt |-> now,
                      expiresAt |-> now + old.spec.ttl, status |-> "PUBLISHED"]
<1>1. /\ DOMAIN registry' = DOMAIN registry
      /\ registry'.drafts = [registry.drafts EXCEPT ![d] = draft]
      /\ registry'.approvals = reg.approvals
      /\ registry'.policies = Put(registry.policies, p, policy)
      /\ registry'.publishedByMerchant =
           [registry.publishedByMerchant EXCEPT ![old.merchantId] = @ \cup {p}]
  BY DEF PublishDraft, IInv, RegistryTypeOK
<1>2. /\ d \in DOMAIN registry.drafts
      /\ old \in Draft
      /\ old.merchantId = m
      /\ old.status = "APPROVED"
      /\ now \in Nat
  BY DEF CanPublish, DraftIn, IInv, RegistryTypeOK, TableOf
<1>3. old.spec.key \in PolicyKeys /\ old.spec.ttl \in Nat
  BY <1>2, RegistryAssumption DEF Draft
<1>4. PICK n \in Nat : Versions(registry, old.spec.key) = 1 .. n
  BY <1>3 DEF IInv, VersionsHaveNoGaps
<1>5. p = <<old.spec.key, n + 1>>
  <2>1. Versions(reg, old.spec.key) = 1 .. n
    BY <1>4 DEF Versions
  <2> QED BY <2>1, NextVersionIsNew DEF NextPolicyId
<1>6. p \in PolicyIds /\ p \notin DOMAIN registry.policies
  <2>1. p[1] = old.spec.key /\ p[2] \notin Versions(registry, old.spec.key)
    BY <1>4, <1>5
  <2> QED BY <1>3, <1>5, <2>1 DEF PolicyIds, Versions
<1>7. draft \in Draft /\ policy \in Policy
  <2>1. draft \in Draft
    BY <1>2, <1>6 DEF Draft, DraftStatus
  <2>2. now + old.spec.ttl \in Nat
    BY <1>2, <1>3
  <2>3. old.merchantId \in Merchants
    BY <1>2
  <2> QED BY <1>2, <2>1, <2>2, <2>3 DEF Policy
<1>8. /\ DOMAIN registry'.policies = DOMAIN registry.policies \cup {p}
      /\ registry'.policies[p] = policy
      /\ \A x \in DOMAIN registry.policies : registry'.policies[x] = registry.policies[x]
  BY <1>1, <1>6 DEF Put
<1>9. /\ policy.merchantId = m /\ policy.draftId = d /\ policy.publishedAt = now
      /\ policy.status = "PUBLISHED"
      /\ draft.status = "PUBLISHED" /\ draft.policyId = p
  BY <1>2 DEF Draft
<1> HIDE DEF p, draft, policy
<1>10. RegistryTypeOK'
  <2>1. registry'.publishedByMerchant \in [Merchants -> SUBSET PolicyIds]
    <3>1. /\ registry.publishedByMerchant \in [Merchants -> SUBSET PolicyIds]
          /\ registry.publishedByMerchant[m] \cup {p} \in SUBSET PolicyIds
      BY <1>6 DEF IInv, RegistryTypeOK
    <3> QED BY <1>1, <1>2, <3>1
  <2> QED BY <1>1, <1>2, <1>7, <1>8, <2>1 DEF IInv, RegistryTypeOK, TableOf
<1>11. ListsAreExact'
  BY <1>1, <1>2, <1>6, <1>8, <1>9 DEF IInv, RegistryTypeOK, ListsAreExact
<1>12. VersionsHaveNoGaps'
  <2> SUFFICES ASSUME NEW key \in PolicyKeys
               PROVE  \E k \in Nat : Versions(registry', key) = 1 .. k
    BY DEF VersionsHaveNoGaps
  <2>1. CASE key = old.spec.key
    <3>1. Versions(registry', key) = Versions(registry, key) \cup {n + 1}
      BY <1>5, <1>8, <2>1 DEF Versions
    <3>2. 1 .. (n + 1) = (1 .. n) \cup {n + 1}
      BY <1>4
    <3> QED BY <1>4, <2>1, <3>1, <3>2
  <2>2. CASE key # old.spec.key
    <3>1. Versions(registry', key) = Versions(registry, key)
      BY <1>5, <1>8, <2>2 DEF Versions
    <3> QED BY <3>1 DEF IInv, VersionsHaveNoGaps
  <2> QED BY <2>1, <2>2
<1>13. ApprovalsArePast' /\ ApprovalsGrow
  <2>1. \A x \in DOMAIN registry.approvals : registry.approvals[x] \in Approval
    BY DEF IInv, RegistryTypeOK, TableOf
  <2>2. \A x \in DOMAIN registry.approvals :
          /\ registry'.approvals[x].merchantId = registry.approvals[x].merchantId
          /\ registry'.approvals[x].draftId = registry.approvals[x].draftId
          /\ registry'.approvals[x].approvedAt = registry.approvals[x].approvedAt
          /\ registry'.approvals[x].expiresAt = registry.approvals[x].expiresAt
    <3> TAKE x \in DOMAIN registry.approvals
    <3>1. registry'.approvals[x] =
            [registry.approvals[x] EXCEPT !.status = reg.approvals[x].status]
      BY <1>1
    <3> QED BY <2>1, <3>1 DEF Approval
  <2> QED BY <1>1, <2>2 DEF IInv, ApprovalsArePast, ApprovalsGrow
<1>14. PoliciesStay
  BY <1>8 DEF PoliciesStay, IInv, RegistryTypeOK, TableOf, Policy
<1>15. PublishedDraftsStay
  BY <1>1, <1>2 DEF PublishedDraftsStay
<1>16. NewPoliciesApproved
  BY <1>1, <1>2, <1>8, <1>9 DEF NewPoliciesApproved, TokenServes, IInv, ApprovalsArePast
<1> QED BY <1>10, <1>11, <1>12, <1>13, <1>14, <1>15, <1>16 DEF StepOK, Shape

LEMMA PublishByApprovalOK ==
  ASSUME IInv, NEW m \in Merchants, NEW d \in DraftIds, NEW a \in ApprovalIds,
         PublishByApproval(m, d, a)
  PROVE  StepOK
<1> DEFINE reg == UseApproval(registry, a)
<1>1. /\ DOMAIN reg = DOMAIN registry
      /\ reg.drafts = registry.drafts
      /\ reg.policies = registry.policies
      /\ reg.publishedByMerchant = registry.publishedByMerchant
      /\ reg.approvals = [registry.approvals EXCEPT ![a].status = "PUBLISHED"]
  BY DEF UseApproval, IInv, RegistryTypeOK
<1>2. TokenServes(registry, m, d, a, now)
  BY DEF PublishByApproval, ApprovalServes, TokenServes
<1>3. \A x \in DOMAIN registry.approvals :
        /\ registry.approvals[x] \in Approval
        /\ x \in ApprovalIds
  BY DEF IInv, RegistryTypeOK, TableOf
<1>4. /\ DOMAIN reg.approvals = DOMAIN registry.approvals
      /\ TableOf(reg.approvals, ApprovalIds, Approval)
      /\ \A x \in DOMAIN registry.approvals :
           reg.approvals[x] = [registry.approvals[x] EXCEPT !.status = reg.approvals[x].status]
  BY <1>1, <1>2, <1>3 DEF TableOf, Approval
<1>5. /\ CanPublish(registry, m, d)
      /\ registry' = PublishDraft(reg, d, now)
      /\ UNCHANGED <<now, served>>
  BY DEF PublishByApproval
<1> HIDE DEF reg
<1> QED BY <1>1, <1>2, <1>4, <1>5, PublishOK

LEMMA PublishByTokenOK ==
  ASSUME IInv, NEW m \in Merchants, NEW d \in DraftIds, NEW a \in ApprovalIds,
         PublishByToken(m, d, a)
  PROVE  StepOK
<1>1. /\ TableOf(registry.approvals, ApprovalIds, Approval)
      /\ \A x \in DOMAIN registry.approvals :
           registry.approvals[x] =
             [registry.approvals[x] EXCEPT !.status = registry.approvals[x].status]
  BY DEF IInv, RegistryTypeOK, TableOf, Approval
<1> QED BY <1>1, PublishOK DEF PublishByToken

-----------------------------------------------------------------------------
(***************************************************************************)
(* Pausing, resuming, expiring: each sets the status of some policies of   *)
(* one merchant and edits its list.                                        *)
(***************************************************************************)
LEMMA StatusOK ==
  ASSUME IInv, NEW m \in Merchants, NEW ps, NEW list,
         NEW status \in {"PUBLISHED", "PAUSED", "EXPIRED"},
         \A p \in ps :
           /\ p \in DOMAIN registry.policies
           /\ registry.policies[p].merchantId = m
           /\ registry.policies[p].status # "EXPIRED"
           /\ status = "PUBLISHED" => registry.policies[p].expiresAt > now,
         list = IF status = "PUBLISHED" THEN registry.publishedByMerchant[m] \cup ps
                                        ELSE registry.publishedByMerchant[m] \ ps,
         registry' = [SetPolicyStatus(registry, ps, status)
                       EXCEPT !.publishedByMerchant[m] = list],
         now' = now, served' \in [policies : SUBSET PolicyIds, at : Nat]
  PROVE  StepOK
<1> DEFINE updated == [p \in DOMAIN registry.policies |->
                        [registry.policies[p] EXCEPT !.status = status]]
<1>1. /\ DOMAIN registry' = DOMAIN registry
      /\ registry'.drafts = registry.drafts
      /\ registry'.approvals = registry.approvals
      /\ registry'.policies = [p \in DOMAIN registry.policies |->
                                 IF p \in ps THEN updated[p] ELSE registry.policies[p]]
      /\ registry'.publishedByMerchant = [registry.publishedByMerchant EXCEPT ![m] = list]
  BY DEF SetPolicyStatus, IInv, RegistryTypeOK
<1>2. \A p \in DOMAIN registry.policies : p \in PolicyIds /\ registry.policies[p] \in Policy
  BY DEF IInv, RegistryTypeOK, TableOf
<1>3. \A p \in DOMAIN registry.policies :
        /\ updated[p] \in Policy
        /\ updated[p].status = status
        /\ updated[p].merchantId = registry.policies[p].merchantId
        /\ updated[p] = [registry.policies[p] EXCEPT !.status = updated[p].status]
  BY <1>2 DEF Policy
<1> HIDE DEF updated
<1>4. /\ DOMAIN registry'.policies = DOMAIN registry.policies
      /\ \A p \in ps : registry'.policies[p] = updated[p]
      /\ \A p \in DOMAIN registry.policies \ ps : registry'.policies[p] = registry.policies[p]
  BY <1>1
<1>5. PoliciesStay
  BY <1>2, <1>3, <1>4 DEF PoliciesStay, Policy
<1>6. RegistryTypeOK'
  <2>1. registry'.publishedByMerchant \in [Merchants -> SUBSET PolicyIds]
    <3>1. /\ registry.publishedByMerchant \in [Merchants -> SUBSET PolicyIds]
          /\ list \in SUBSET PolicyIds
      BY <1>2 DEF IInv, RegistryTypeOK
    <3>2. [registry.publishedByMerchant EXCEPT ![m] = list] \in [Merchants -> SUBSET PolicyIds]
      BY <3>1, ExceptInRange
    <3> QED BY <1>1, <3>2
  <2>2. \A p \in DOMAIN registry'.policies : registry'.policies[p] \in Policy
    BY <1>2, <1>3, <1>4
  <2> QED BY <1>1, <1>4, <2>1, <2>2 DEF IInv, RegistryTypeOK, TableOf
<1>7. ListsAreExact'
  <2>1. \A p \in DOMAIN registry.policies :
          /\ registry'.policies[p].merchantId = registry.policies[p].merchantId
          /\ p \in ps => registry'.policies[p].status = status /\ registry.policies[p].merchantId = m
          /\ p \notin ps => registry'.policies[p].status = registry.policies[p].status
    BY <1>3, <1>4
  <2>2. /\ registry'.publishedByMerchant[m] = list
        /\ \A x \in Merchants \ {m} :
             registry'.publishedByMerchant[x] = registry.publishedByMerchant[x]
    BY <1>1 DEF IInv, RegistryTypeOK
  <2>3. \A x \in Merchants : \A p : p \in registry.publishedByMerchant[x] <=>
          /\ p \in DOMAIN registry.policies
          /\ registry.policies[p].merchantId = x
          /\ registry.policies[p].status = "PUBLISHED"
    BY DEF IInv, ListsAreExact
  <2>4. \A p : p \in list <=> IF p \in ps THEN status = "PUBLISHED"
                                         ELSE p \in registry.publishedByMerchant[m]
    BY <2>3
  <2>5. \A x \in Merchants : \A p : p \in registry'.publishedByMerchant[x] <=>
          /\ p \in DOMAIN registry'.policies
          /\ registry'.policies[p].merchantId = x
          /\ registry'.policies[p].status = "PUBLISHED"
    <3> TAKE x \in Merchants
    <3> TAKE p
    <3>1. CASE x = m
      BY <1>4, <2>1, <2>2, <2>3, <2>4, <3>1
    <3>2. CASE x # m
      BY <1>4, <2>1, <2>2, <2>3, <3>2
    <3> QED BY <3>1, <3>2
  <2> QED BY <2>5 DEF ListsAreExact
<1>8. ApprovalsArePast' /\ VersionsHaveNoGaps'
  BY <1>1, <1>4, VersionsStay DEF IInv, ApprovalsArePast
<1>9. ApprovalsGrow /\ PublishedDraftsStay /\ NewPoliciesApproved
  BY <1>1, <1>4 DEF ApprovalsGrow, PublishedDraftsStay, NewPoliciesApproved
<1> QED BY <1>5, <1>6, <1>7, <1>8, <1>9 DEF StepOK, Shape

LEMMA PauseOK ==
  ASSUME IInv, NEW m \in Merchants, NEW p \in DOMAIN registry.policies, Pause(m, p)
  PROVE  StepOK
<1> DEFINE list == registry.publishedByMerchant[m] \ {p}
<1>1. /\ registry.policies[p].merchantId = m
      /\ registry.policies[p].status # "EXPIRED"
      /\ now' = now /\ served' = served
  BY DEF Pause, PolicyIn
<1>2. registry' = [SetPolicyStatus(registry, {p}, "PAUSED")
                    EXCEPT !.publishedByMerchant[m] = list]
  BY DEF Pause, PausePolicy, SetPolicyStatus, IInv, RegistryTypeOK
<1>3. served' \in [policies : SUBSET PolicyIds, at : Nat]
  BY <1>1 DEF IInv, RegistryTypeOK
<1> DEFINE ps == {p}
           status == "PAUSED"
<1>4. \A q \in ps :
        /\ q \in DOMAIN registry.policies
        /\ registry.policies[q].merchantId = m
        /\ registry.policies[q].status # "EXPIRED"
        /\ status = "PUBLISHED" => registry.policies[q].expiresAt > now
  BY <1>1
<1>5. list = IF status = "PUBLISHED" THEN registry.publishedByMerchant[m] \cup ps
                                     ELSE registry.publishedByMerchant[m] \ ps
  OBVIOUS
<1> QED BY <1>1, <1>2, <1>3, <1>4, <1>5, StatusOK

LEMMA ResumeOK ==
  ASSUME IInv, NEW m \in Merchants, NEW p \in DOMAIN registry.policies, Resume(m, p)
  PROVE  StepOK
<1>1. /\ registry.policies[p].merchantId = m
      /\ registry.policies[p].status = "PAUSED"
      /\ now' = now /\ served' = served
      /\ registry' = ResumePolicy(registry, m, p, now)
  BY DEF Resume, PolicyIn
<1>2. served' \in [policies : SUBSET PolicyIds, at : Nat]
  BY <1>1 DEF IInv, RegistryTypeOK
<1>3. registry.policies[p].expiresAt \in Nat /\ now \in Nat
  BY DEF IInv, RegistryTypeOK, TableOf, Policy
<1>4. CASE registry.policies[p].expiresAt <= now
  <2> DEFINE list == registry.publishedByMerchant[m] \ {p}
  <2>1. registry' = SetPolicyStatus(registry, {p}, "EXPIRED")
    BY <1>1, <1>4 DEF ResumePolicy
  <2>2. registry.publishedByMerchant[m] = list
    BY <1>1 DEF IInv, ListsAreExact
  <2>3. registry' = [SetPolicyStatus(registry, {p}, "EXPIRED")
                      EXCEPT !.publishedByMerchant[m] = list]
    BY <2>1, <2>2 DEF SetPolicyStatus, IInv, RegistryTypeOK
  <2> DEFINE ps == {p}
             status == "EXPIRED"
  <2>4. \A q \in ps :
          /\ q \in DOMAIN registry.policies
          /\ registry.policies[q].merchantId = m
          /\ registry.policies[q].status # "EXPIRED"
          /\ status = "PUBLISHED" => registry.policies[q].expiresAt > now
    BY <1>1
  <2>5. list = IF status = "PUBLISHED" THEN registry.publishedByMerchant[m] \cup ps
                                       ELSE registry.publishedByMerchant[m] \ ps
    OBVIOUS
  <2> QED BY <1>1, <1>2, <2>3, <2>4, <2>5, StatusOK
<1>5. CASE ~(registry.policies[p].expiresAt <= now)
  <2> DEFINE list == registry.publishedByMerchant[m] \cup {p}
  <2>1. registry' = [SetPolicyStatus(registry, {p}, "PUBLISHED")
                      EXCEPT !.publishedByMerchant[m] = list]
    BY <1>1, <1>5 DEF ResumePolicy, SetPolicyStatus, IInv, RegistryTypeOK
  <2>2. registry.policies[p].expiresAt > now
    BY <1>3, <1>5
  <2> DEFINE ps == {p}
             status == "PUBLISHED"
  <2>3. \A q \in ps :
          /\ q \in DOMAIN registry.policies
          /\ registry.policies[q].merchantId = m
          /\ registry.policies[q].status # "EXPIRED"
          /\ status = "PUBLISHED" => registry.policies[q].expiresAt > now
    BY <1>1, <2>2
  <2>4. list = IF status = "PUBLISHED" THEN registry.publishedByMerchant[m] \cup ps
                                       ELSE registry.publishedByMerchant[m] \ ps
    OBVIOUS
  <2>5. registry' = [SetPolicyStatus(registry, ps, status)
                      EXCEPT !.publishedByMerchant[m] = list]
    BY <2>1
  <2>6. status \in {"PUBLISHED", "PAUSED", "EXPIRED"}
    OBVIOUS
  <2> HIDE DEF ps, list, status
  <2>7. now' = now
    BY <1>1
  <2> QED BY <1>2, <2>3, <2>4, <2>5, <2>6, <2>7, StatusOK, Zenon
<1> QED BY <1>4, <1>5

\* Besides the step, that what it serves is known and alive.
LEMMA ListActiveOK ==
  ASSUME IInv, NEW m \in Merchants, ListActive(m)
  PROVE  StepOK /\ ServedKnown' /\ ServedAlive'
<1> DEFINE ps == ExpiredPolicies(registry, m, now)
           list == registry.publishedByMerchant[m] \ ps
<1>1. /\ registry' = ExpirePolicies(registry, m, now)
      /\ served' = [policies |-> registry'.publishedByMerchant[m], at |-> now]
      /\ now' = now
  BY DEF ListActive
<1>2. \A p \in registry.publishedByMerchant[m] :
        /\ p \in DOMAIN registry.policies
        /\ p \in PolicyIds
        /\ registry.policies[p].merchantId = m
        /\ registry.policies[p].status = "PUBLISHED"
        /\ registry.policies[p].expiresAt \in Nat
  BY DEF IInv, ListsAreExact, RegistryTypeOK, TableOf, Policy
<1>3. \A p \in ps : /\ p \in DOMAIN registry.policies
                   /\ registry.policies[p].merchantId = m
                   /\ registry.policies[p].status # "EXPIRED"
  BY <1>2 DEF ExpiredPolicies
<1>4. registry' = [SetPolicyStatus(registry, ps, "EXPIRED")
                    EXCEPT !.publishedByMerchant[m] = list]
  <2>1. list = {p \in registry.publishedByMerchant[m] \ ps :
                  registry.policies[p].status = "PUBLISHED"}
    BY <1>2
  <2> QED BY <1>1, <2>1 DEF ExpirePolicies
<1>5. registry'.publishedByMerchant[m] = list
  BY <1>4 DEF SetPolicyStatus, IInv, RegistryTypeOK
<1>6. now \in Nat
  BY DEF IInv, RegistryTypeOK
<1>7. served' \in [policies : SUBSET PolicyIds, at : Nat]
  <2>1. list \in SUBSET PolicyIds
    BY <1>2
  <2> HIDE DEF list
  <2> QED BY <1>1, <1>5, <1>6, <2>1
<1>8. \A p \in list : registry.policies[p].expiresAt > now
  BY <1>2, <1>6 DEF ExpiredPolicies
<1> HIDE DEF ps
<1>9. StepOK
  <2> DEFINE status == "EXPIRED"
  <2>1. \A p \in ps :
          /\ p \in DOMAIN registry.policies
          /\ registry.policies[p].merchantId = m
          /\ registry.policies[p].status # "EXPIRED"
          /\ status = "PUBLISHED" => registry.policies[p].expiresAt > now
    BY <1>3
  <2>2. list = IF status = "PUBLISHED" THEN registry.publishedByMerchant[m] \cup ps
                                       ELSE registry.publishedByMerchant[m] \ ps
    OBVIOUS
  <2>3. registry' = [SetPolicyStatus(registry, ps, status)
                      EXCEPT !.publishedByMerchant[m] = list]
    BY <1>4
  <2>4. status \in {"PUBLISHED", "PAUSED", "EXPIRED"}
    OBVIOUS
  <2> HIDE DEF list, status
  <2>5. now' = now
    BY <1>1
  <2> QED BY <1>7, <2>1, <2>2, <2>3, <2>4, <2>5, StatusOK, Zenon
<1>10. \A p \in list : /\ p \in DOMAIN registry'.policies
                      /\ registry'.policies[p].expiresAt = registry.policies[p].expiresAt
  <2>1. \A p \in list : p \in DOMAIN registry.policies /\ registry.policies[p] \in Policy
    BY <1>2 DEF IInv, RegistryTypeOK, TableOf
  <2> QED BY <1>9, <2>1 DEF StepOK, Shape, PoliciesStay, Policy
<1> HIDE DEF list
<1> QED BY <1>1, <1>5, <1>8, <1>9, <1>10 DEF ServedKnown, ServedAlive

LEMMA TickOK ==
  ASSUME IInv, Tick
  PROVE  StepOK
<1>1. registry' = registry /\ served' = served /\ now \in Nat /\ now' = now + 1
  BY DEF Tick, IInv, RegistryTypeOK
<1>2. RegistryTypeOK'
  BY <1>1 DEF IInv, RegistryTypeOK
<1>3. ListsAreExact' /\ VersionsHaveNoGaps'
  BY <1>1 DEF IInv, ListsAreExact, VersionsHaveNoGaps
<1>4. ApprovalsArePast'
  BY <1>1 DEF IInv, ApprovalsArePast, RegistryTypeOK, TableOf, Approval
<1>5. Shape
  BY <1>1 DEF IInv, RegistryTypeOK, TableOf, Policy, Shape, ApprovalsGrow, PublishedDraftsStay,
              PoliciesStay, NewPoliciesApproved
<1> QED BY <1>2, <1>3, <1>4, <1>5 DEF StepOK

-----------------------------------------------------------------------------
(***************************************************************************)
(* The invariant.                                                          *)
(***************************************************************************)
LEMMA ActionOK ==
  ASSUME IInv, RegistryNext
  PROVE  /\ StepOK
         /\ served' = served \/ (ServedKnown' /\ ServedAlive')
<1>1. CASE \E m \in Merchants : \E d \in DraftIds : \E spec \in Specs : Create(m, d, spec)
  BY <1>1, CreateOK DEF Create
<1>2. CASE \E m \in Merchants : \E d \in DraftIds : Submit(m, d)
  BY <1>2, SubmitOK DEF Submit
<1>3. CASE \E m \in Merchants : \E d \in DraftIds : \E a \in ApprovalIds : Approve(m, d, a)
  BY <1>3, ApproveOK DEF Approve
<1>4. CASE \E m \in Merchants : \E d \in DraftIds : \E a \in ApprovalIds : PublishByApproval(m, d, a)
  BY <1>4, PublishByApprovalOK DEF PublishByApproval
<1>5. CASE \E m \in Merchants : \E d \in DraftIds : \E a \in ApprovalIds : PublishByToken(m, d, a)
  BY <1>5, PublishByTokenOK DEF PublishByToken
<1>6. CASE \E m \in Merchants : \E p \in DOMAIN registry.policies : Pause(m, p)
  BY <1>6, PauseOK DEF Pause
<1>7. CASE \E m \in Merchants : \E p \in DOMAIN registry.policies : Resume(m, p)
  BY <1>7, ResumeOK DEF Resume
<1>8. CASE \E m \in Merchants : ListActive(m)
  BY <1>8, ListActiveOK
<1>9. CASE Tick
  BY <1>9, TickOK DEF Tick
<1> QED BY <1>1, <1>2, <1>3, <1>4, <1>5, <1>6, <1>7, <1>8, <1>9 DEF RegistryNext

\* ApprovedFor in the next state.
ApprovedNext(policy) ==
  \E a \in DOMAIN registry'.approvals :
    /\ registry'.approvals[a].draftId = policy.draftId
    /\ registry'.approvals[a].merchantId = policy.merchantId
    /\ registry'.approvals[a].approvedAt <= policy.publishedAt
    /\ policy.publishedAt <= registry'.approvals[a].expiresAt

LEMMA ApprovedStays ==
  ASSUME IInv, StepOK
  PROVE  PoliciesApproved'
<1> SUFFICES ASSUME NEW p \in DOMAIN registry'.policies
             PROVE  /\ ApprovedNext(registry'.policies[p])
                    /\ registry'.policies[p].draftId \in DOMAIN registry'.drafts
                    /\ registry'.drafts[registry'.policies[p].draftId].status = "PUBLISHED"
                    /\ registry'.drafts[registry'.policies[p].draftId].policyId = p
  BY DEF PoliciesApproved, ApprovedFor, ApprovedNext
<1>1. CASE p \in DOMAIN registry.policies
  <2>1. registry.policies[p] \in Policy
    BY <1>1 DEF IInv, RegistryTypeOK, TableOf
  <2>2. /\ registry'.policies[p].draftId = registry.policies[p].draftId
        /\ registry'.policies[p].merchantId = registry.policies[p].merchantId
        /\ registry'.policies[p].publishedAt = registry.policies[p].publishedAt
    BY <1>1, <2>1 DEF StepOK, Shape, PoliciesStay, Policy
  <2>3. ApprovedFor(registry.policies[p])
    BY <1>1 DEF IInv, PoliciesApproved
  <2>4. ApprovedNext(registry'.policies[p])
    BY <2>2, <2>3 DEF ApprovedFor, ApprovedNext, StepOK, Shape, ApprovalsGrow
  <2> QED BY <1>1, <2>2, <2>4 DEF IInv, PoliciesApproved, StepOK, Shape, PublishedDraftsStay
<1>2. CASE p \notin DOMAIN registry.policies
  BY <1>2 DEF StepOK, Shape, NewPoliciesApproved, ApprovalsGrow, ApprovedNext
<1> QED BY <1>1, <1>2

LEMMA ServedStays ==
  ASSUME IInv, StepOK, served' = served
  PROVE  ServedKnown' /\ ServedAlive'
<1>1. \A p \in DOMAIN registry.policies :
        /\ p \in DOMAIN registry'.policies
        /\ registry'.policies[p].expiresAt = registry.policies[p].expiresAt
  <2> TAKE p \in DOMAIN registry.policies
  <2>1. registry.policies[p] \in Policy
    BY DEF IInv, RegistryTypeOK, TableOf
  <2> QED BY <2>1 DEF StepOK, Shape, PoliciesStay, Policy
<1> QED BY <1>1 DEF IInv, ServedKnown, ServedAlive

LEMMA RegistryInvariance == RegistrySpec => []IInv
<1>1. RegistryInit => IInv
  <2> SUFFICES ASSUME RegistryInit PROVE IInv
    OBVIOUS
  <2>1. /\ now = 0 /\ served = [policies |-> {}, at |-> 0]
        /\ DOMAIN registry = {"drafts", "approvals", "policies", "publishedByMerchant"}
        /\ DOMAIN registry.drafts = {} /\ DOMAIN registry.approvals = {}
        /\ DOMAIN registry.policies = {}
        /\ registry.publishedByMerchant = [m \in Merchants |-> {}]
    BY DEF RegistryInit, EmptyRegistry, EmptyTable, Unserved
  <2>2. \A key \in PolicyKeys : Versions(registry, key) = 1 .. 0
    BY <2>1 DEF Versions
  <2>3. VersionsHaveNoGaps
    BY <2>2 DEF VersionsHaveNoGaps
  <2>4. RegistryTypeOK
    BY <2>1 DEF RegistryTypeOK, TableOf
  <2> QED BY <2>1, <2>3, <2>4 DEF IInv, ListsAreExact, PoliciesApproved, ServedAlive,
                                  ApprovalsArePast, ServedKnown
<1>2. IInv /\ [RegistryNext]_registryVars => IInv'
  <2> SUFFICES ASSUME IInv, [RegistryNext]_registryVars PROVE IInv'
    OBVIOUS
  <2>1. CASE RegistryNext
    <3>1. StepOK /\ (served' = served \/ (ServedKnown' /\ ServedAlive'))
      BY <2>1, ActionOK
    <3> QED BY <3>1, ApprovedStays, ServedStays DEF IInv, StepOK
  <2>2. CASE UNCHANGED registryVars
    BY <2>2 DEF registryVars, IInv, RegistryTypeOK, ListsAreExact, PoliciesApproved, ApprovedFor, ServedAlive,
                VersionsHaveNoGaps, ApprovalsArePast, ServedKnown
  <2> QED BY <2>1, <2>2
<1> QED BY <1>1, <1>2, PTL DEF RegistrySpec

-----------------------------------------------------------------------------
(***************************************************************************)
(* Theorems.                                                               *)
(***************************************************************************)
\* Every operation of policyRegistry.ts keeps the records of the registry in their types.
THEOREM RegistryTypes == RegistrySpec => []RegistryTypeOK
<1>1. IInv => RegistryTypeOK
  BY DEF IInv
<1> QED BY <1>1, RegistryInvariance, PTL

\* A merchant's list holds exactly its published policies, whatever sequence of
\* publish, pause, resume and expiry edited it.
THEOREM ListsAreExactHolds == RegistrySpec => []ListsAreExact
<1>1. IInv => ListsAreExact
  BY DEF IInv
<1> QED BY <1>1, RegistryInvariance, PTL

\* Every policy was published once, from its own draft, under an approval of that
\* draft that was alive then.
THEOREM PoliciesApprovedHolds == RegistrySpec => []PoliciesApproved
<1>1. IInv => PoliciesApproved
  BY DEF IInv
<1> QED BY <1>1, RegistryInvariance, PTL

\* listActivePolicies never serves a policy past its time.
THEOREM ServedAliveHolds == RegistrySpec => []ServedAlive
<1>1. IInv => ServedAlive
  BY DEF IInv
<1> QED BY <1>1, RegistryInvariance, PTL

\* No publication replaces a policy, and no policy comes back after its time.
THEOREM PolicyHistoryHolds == RegistrySpec => PolicyHistory
<1>1. IInv /\ RegistryNext => PoliciesStay
  BY ActionOK DEF StepOK, Shape
<1>2. IInv /\ [RegistryNext]_registryVars => [PoliciesStay]_registryVars
  BY <1>1
<1> QED BY <1>2, RegistryInvariance, PTL DEF RegistrySpec, PolicyHistory, PoliciesStay

-----------------------------------------------------------------------------
(***************************************************************************)
(* The merchant service.                                                   *)
(***************************************************************************)
\* Types: RegistryTypeOK, of any registry.
Types(reg) ==
  /\ DOMAIN reg = {"drafts", "approvals", "policies", "publishedByMerchant"}
  /\ TableOf(reg.drafts, DraftIds, Draft)
  /\ TableOf(reg.approvals, ApprovalIds, Approval)
  /\ TableOf(reg.policies, PolicyIds, Policy)
  /\ reg.publishedByMerchant \in [Merchants -> SUBSET PolicyIds]

\* ListsAreExact, of any registry.
Lists(reg) ==
  \A m \in Merchants : \A p :
    p \in reg.publishedByMerchant[m] <=>
      /\ p \in DOMAIN reg.policies
      /\ reg.policies[p].merchantId = m
      /\ reg.policies[p].status = "PUBLISHED"

\* PoliciesApproved, of any registry.
ApprovedBy(reg, a, policy) ==
  /\ reg.approvals[a].draftId = policy.draftId
  /\ reg.approvals[a].merchantId = policy.merchantId
  /\ reg.approvals[a].approvedAt <= policy.publishedAt
  /\ policy.publishedAt <= reg.approvals[a].expiresAt

OfDraft(reg, p, policy) ==
  /\ policy.draftId \in DOMAIN reg.drafts
  /\ reg.drafts[policy.draftId].status = "PUBLISHED"
  /\ reg.drafts[policy.draftId].policyId = p

Approvals(reg) ==
  \A p \in DOMAIN reg.policies :
    /\ \E a \in DOMAIN reg.approvals : ApprovedBy(reg, a, reg.policies[p])
    /\ OfDraft(reg, p, reg.policies[p])

\* The next version of a key is new, and no approval is from the future.
NoGaps(reg) == \A key \in PolicyKeys : \E n \in Nat : Versions(reg, key) = 1 .. n
Past(reg, t) == \A a \in DOMAIN reg.approvals : reg.approvals[a].approvedAt <= t

Sound(reg, t) == Types(reg) /\ Lists(reg) /\ Approvals(reg) /\ NoGaps(reg) /\ Past(reg, t)

\* Nothing goes: drafts, approvals of the same draft that stay used, and policies of the
\* same draft.
Keeps(reg, new) ==
  /\ DOMAIN reg.drafts \subseteq DOMAIN new.drafts
  /\ \A a \in DOMAIN reg.approvals :
       /\ a \in DOMAIN new.approvals
       /\ new.approvals[a].draftId = reg.approvals[a].draftId
       /\ reg.approvals[a].status = "PUBLISHED" => new.approvals[a].status = "PUBLISHED"
  /\ \A p \in DOMAIN reg.policies :
       /\ p \in DOMAIN new.policies
       /\ new.policies[p].draftId = reg.policies[p].draftId
       /\ new.policies[p].merchantId = reg.policies[p].merchantId

LEMMA KeepsOn ==
  ASSUME NEW r, NEW s, NEW t, Keeps(r, s), Keeps(s, t)
  PROVE  Keeps(r, t)
BY DEF Keeps

LEMMA KeepsSame ==
  ASSUME NEW r
  PROVE  Keeps(r, r)
BY DEF Keeps

\* Only the tables count.
LEMMA SoundLater ==
  ASSUME NEW reg, NEW t \in Nat, NEW u \in Nat, t <= u, Sound(reg, t)
  PROVE  Sound(reg, u)
<1>1. \A a \in DOMAIN reg.approvals : reg.approvals[a].approvedAt \in Nat
  BY DEF Sound, Types, TableOf, Approval
<1> QED BY <1>1 DEF Sound, Past

-----------------------------------------------------------------------------
(***************************************************************************)
(* Drafts and approvals.                                                   *)
(***************************************************************************)
\* A change of drafts that publishes none and unpublishes none.
LEMMA DraftsSound ==
  ASSUME NEW reg, NEW t \in Nat, Sound(reg, t), NEW drafts, NEW approvals, NEW new,
         DOMAIN new = DOMAIN reg, new.drafts = drafts, new.approvals = approvals,
         new.policies = reg.policies, new.publishedByMerchant = reg.publishedByMerchant,
         TableOf(drafts, DraftIds, Draft), TableOf(approvals, ApprovalIds, Approval),
         DOMAIN reg.drafts \subseteq DOMAIN drafts,
         \A d \in DOMAIN reg.drafts : reg.drafts[d].status = "PUBLISHED" => drafts[d] = reg.drafts[d],
         \A a \in DOMAIN reg.approvals :
           /\ a \in DOMAIN approvals
           /\ approvals[a].draftId = reg.approvals[a].draftId
           /\ approvals[a].merchantId = reg.approvals[a].merchantId
           /\ approvals[a].approvedAt = reg.approvals[a].approvedAt
           /\ approvals[a].expiresAt = reg.approvals[a].expiresAt
           /\ reg.approvals[a].status = "PUBLISHED" => approvals[a].status = "PUBLISHED",
         \A a \in DOMAIN approvals : approvals[a].approvedAt <= t
  PROVE  Sound(new, t) /\ Keeps(reg, new)
<1>1. Types(new) /\ Lists(new) /\ Past(new, t)
  BY DEF Sound, Types, Lists, Past
<1>2. Approvals(new)
  <2> SUFFICES ASSUME NEW p \in DOMAIN reg.policies
               PROVE  /\ \E a \in DOMAIN new.approvals : ApprovedBy(new, a, reg.policies[p])
                      /\ OfDraft(new, p, reg.policies[p])
    BY DEF Approvals
  <2>1. PICK a \in DOMAIN reg.approvals : ApprovedBy(reg, a, reg.policies[p])
    BY DEF Sound, Approvals
  <2>2. a \in DOMAIN new.approvals /\ ApprovedBy(new, a, reg.policies[p])
    BY <2>1 DEF ApprovedBy
  <2>3. OfDraft(new, p, reg.policies[p])
    BY DEF Sound, Approvals, OfDraft
  <2> QED BY <2>2, <2>3
<1>3. NoGaps(new)
  BY DEF Sound, NoGaps, Versions
<1>4. Keeps(reg, new)
  BY DEF Keeps
<1> QED BY <1>1, <1>2, <1>3, <1>4 DEF Sound

LEMMA CreateSound ==
  ASSUME NEW reg, NEW t \in Nat, Sound(reg, t), NEW m \in Merchants, NEW d \in DraftIds,
         NEW spec \in Specs, d \notin DOMAIN reg.drafts
  PROVE  LET new == CreateDraft(reg, m, d, spec)
         IN  /\ Sound(new, t) /\ Keeps(reg, new)
             /\ d \in DOMAIN new.drafts /\ new.drafts[d].status = "DRAFT"
             /\ new.drafts[d].merchantId = m /\ new.drafts[d].spec = spec
             /\ new.policies = reg.policies /\ new.approvals = reg.approvals
<1> DEFINE draft == [merchantId |-> m, spec |-> spec, status |-> "DRAFT",
                     approvalId |-> NoApproval, policyId |-> NoPolicy]
           new == CreateDraft(reg, m, d, spec)
<1>1. /\ DOMAIN new = DOMAIN reg
      /\ new.drafts = Put(reg.drafts, d, draft)
      /\ new.approvals = reg.approvals /\ new.policies = reg.policies
      /\ new.publishedByMerchant = reg.publishedByMerchant
  BY DEF CreateDraft, Sound, Types
<1>2. draft \in Draft
  BY DEF Draft, DraftStatus
<1>3. /\ DOMAIN new.drafts = DOMAIN reg.drafts \cup {d} /\ new.drafts[d] = draft
      /\ \A x \in DOMAIN reg.drafts : new.drafts[x] = reg.drafts[x]
  BY <1>1 DEF Put
<1>4. draft.status = "DRAFT" /\ draft.merchantId = m /\ draft.spec = spec
  OBVIOUS
<1> HIDE DEF draft, new
<1>5. TableOf(new.drafts, DraftIds, Draft) /\ TableOf(new.approvals, ApprovalIds, Approval)
  BY <1>1, <1>2, <1>3 DEF Sound, Types, TableOf
<1>6. \A a \in DOMAIN reg.approvals : reg.approvals[a].approvedAt <= t
  BY DEF Sound, Past
<1>7. Sound(new, t) /\ Keeps(reg, new)
  BY <1>1, <1>3, <1>5, <1>6, DraftsSound
<1> QED BY <1>1, <1>3, <1>4, <1>7 DEF new

LEMMA SubmitSound ==
  ASSUME NEW reg, NEW t \in Nat, Sound(reg, t), NEW d \in DOMAIN reg.drafts,
         reg.drafts[d].status # "PUBLISHED"
  PROVE  LET new == SubmitDraft(reg, d)
         IN  /\ Sound(new, t) /\ Keeps(reg, new)
             /\ d \in DOMAIN new.drafts
             /\ new.drafts[d] = [reg.drafts[d] EXCEPT !.status = "SUBMITTED"]
             /\ new.policies = reg.policies /\ new.approvals = reg.approvals
<1> DEFINE draft == [reg.drafts[d] EXCEPT !.status = "SUBMITTED"]
           new == SubmitDraft(reg, d)
<1>1. /\ DOMAIN new = DOMAIN reg
      /\ new.drafts = [reg.drafts EXCEPT ![d] = draft]
      /\ new.approvals = reg.approvals /\ new.policies = reg.policies
      /\ new.publishedByMerchant = reg.publishedByMerchant
  BY DEF SubmitDraft, Sound, Types
<1>2. draft \in Draft
  BY DEF Draft, DraftStatus, Sound, Types, TableOf
<1>3. /\ DOMAIN new.drafts = DOMAIN reg.drafts /\ new.drafts[d] = draft
      /\ \A x \in DOMAIN reg.drafts \ {d} : new.drafts[x] = reg.drafts[x]
  BY <1>1
<1> HIDE DEF draft, new
<1>5. TableOf(new.drafts, DraftIds, Draft) /\ TableOf(new.approvals, ApprovalIds, Approval)
  BY <1>1, <1>2, <1>3 DEF Sound, Types, TableOf
<1>6. \A a \in DOMAIN reg.approvals : reg.approvals[a].approvedAt <= t
  BY DEF Sound, Past
<1>7. Sound(new, t) /\ Keeps(reg, new)
  BY <1>1, <1>3, <1>5, <1>6, DraftsSound
<1> QED BY <1>1, <1>3, <1>7 DEF new, draft

LEMMA ApproveSound ==
  ASSUME NEW reg, NEW t \in Nat, Sound(reg, t), NEW d \in DOMAIN reg.drafts,
         reg.drafts[d].status # "PUBLISHED",
         NEW a \in ApprovalIds, a \notin DOMAIN reg.approvals
  PROVE  LET new == ApproveDraft(reg, d, a, t)
         IN  /\ Sound(new, t) /\ Keeps(reg, new)
             /\ d \in DOMAIN new.drafts
             /\ new.drafts[d].status = "APPROVED"
             /\ new.drafts[d].merchantId = reg.drafts[d].merchantId
             /\ new.drafts[d].spec = reg.drafts[d].spec
             /\ a \in DOMAIN new.approvals
             /\ new.approvals[a].merchantId = reg.drafts[d].merchantId
             /\ new.approvals[a].draftId = d
             /\ new.approvals[a].expiresAt >= t
             /\ new.approvals[a].status = "APPROVED"
             /\ new.policies = reg.policies
<1> DEFINE old == reg.drafts[d]
           draft == [old EXCEPT !.status = "APPROVED", !.approvalId = a]
           approval == [merchantId |-> old.merchantId, draftId |-> d, approvedAt |-> t,
                        expiresAt |-> t + Later(MinApprovalTtl, old.spec.approvalTtl),
                        status |-> "APPROVED"]
           new == ApproveDraft(reg, d, a, t)
<1>1. /\ DOMAIN new = DOMAIN reg
      /\ new.drafts = [reg.drafts EXCEPT ![d] = draft]
      /\ new.approvals = Put(reg.approvals, a, approval) /\ new.policies = reg.policies
      /\ new.publishedByMerchant = reg.publishedByMerchant
  BY DEF ApproveDraft, Sound, Types
<1>2. old \in Draft /\ d \in DraftIds
  BY DEF Sound, Types, TableOf
<1>3. /\ draft \in Draft /\ draft.status = "APPROVED"
      /\ draft.merchantId = old.merchantId /\ draft.spec = old.spec
  BY <1>2 DEF Draft, DraftStatus
<1>4. approval \in Approval /\ approval.approvedAt <= t /\ approval.expiresAt >= t
      /\ approval.draftId = d /\ approval.merchantId = old.merchantId
      /\ approval.status = "APPROVED"
  <2>1. old.spec.approvalTtl \in Nat /\ old.merchantId \in Merchants
    BY <1>2, RegistryAssumption DEF Draft
  <2>2. Later(MinApprovalTtl, old.spec.approvalTtl) \in Nat
    BY <2>1, RegistryAssumption DEF Later
  <2> QED BY <1>2, <2>1, <2>2 DEF Approval
<1>5. /\ DOMAIN new.drafts = DOMAIN reg.drafts /\ new.drafts[d] = draft
      /\ \A x \in DOMAIN reg.drafts \ {d} : new.drafts[x] = reg.drafts[x]
  BY <1>1
<1>6. /\ DOMAIN new.approvals = DOMAIN reg.approvals \cup {a} /\ new.approvals[a] = approval
      /\ \A x \in DOMAIN reg.approvals : new.approvals[x] = reg.approvals[x]
  BY <1>1 DEF Put
<1> HIDE DEF draft, approval, new
<1>7. TableOf(new.drafts, DraftIds, Draft) /\ TableOf(new.approvals, ApprovalIds, Approval)
  BY <1>1, <1>2, <1>3, <1>4, <1>5, <1>6 DEF Sound, Types, TableOf
<1>8. \A x \in DOMAIN new.approvals : new.approvals[x].approvedAt <= t
  BY <1>4, <1>6 DEF Sound, Past
<1>9. Sound(new, t) /\ Keeps(reg, new)
  BY <1>1, <1>5, <1>6, <1>7, <1>8, DraftsSound
<1> QED BY <1>1, <1>3, <1>4, <1>5, <1>6, <1>9 DEF new

LEMMA UseSound ==
  ASSUME NEW reg, NEW t \in Nat, Sound(reg, t), NEW a \in DOMAIN reg.approvals
  PROVE  LET new == UseApproval(reg, a)
         IN  /\ Sound(new, t) /\ Keeps(reg, new)
             /\ new.drafts = reg.drafts /\ new.policies = reg.policies
             /\ a \in DOMAIN new.approvals
             /\ new.approvals[a] = [reg.approvals[a] EXCEPT !.status = "PUBLISHED"]
<1> DEFINE approval == [reg.approvals[a] EXCEPT !.status = "PUBLISHED"]
           new == UseApproval(reg, a)
<1>1. /\ DOMAIN new = DOMAIN reg
      /\ new.drafts = reg.drafts
      /\ new.approvals = [reg.approvals EXCEPT ![a] = approval] /\ new.policies = reg.policies
      /\ new.publishedByMerchant = reg.publishedByMerchant
  BY DEF UseApproval, Sound, Types
<1>2. \A x \in DOMAIN reg.approvals : reg.approvals[x] \in Approval /\ reg.approvals[x].approvedAt <= t
  BY DEF Sound, Types, TableOf, Past
<1>3. /\ approval \in Approval /\ approval.status = "PUBLISHED"
      /\ approval.draftId = reg.approvals[a].draftId
      /\ approval.merchantId = reg.approvals[a].merchantId
      /\ approval.approvedAt = reg.approvals[a].approvedAt
      /\ approval.expiresAt = reg.approvals[a].expiresAt
  BY <1>2 DEF Approval
<1>4. /\ DOMAIN new.approvals = DOMAIN reg.approvals /\ new.approvals[a] = approval
      /\ \A x \in DOMAIN reg.approvals \ {a} : new.approvals[x] = reg.approvals[x]
  BY <1>1
<1> HIDE DEF approval, new
<1>5. TableOf(new.drafts, DraftIds, Draft) /\ TableOf(new.approvals, ApprovalIds, Approval)
  BY <1>1, <1>3, <1>4 DEF Sound, Types, TableOf
<1>6. \A x \in DOMAIN new.approvals : new.approvals[x].approvedAt <= t
  BY <1>2, <1>3, <1>4
<1>7. Sound(new, t) /\ Keeps(reg, new)
  BY <1>1, <1>3, <1>4, <1>5, <1>6, DraftsSound
<1> QED BY <1>1, <1>4, <1>7 DEF new, approval

-----------------------------------------------------------------------------
(***************************************************************************)
(* Policies.                                                               *)
(***************************************************************************)
\* The next version of a key is one more than its last.
LEMMA NextVersionIsFree ==
  ASSUME NEW reg, NEW key, NEW n \in Nat, Versions(reg, key) = 1 .. n
  PROVE  NextVersion(reg, key) = n + 1
<1>1. CASE n = 0
  BY <1>1 DEF NextVersion
<1>2. CASE n # 0
  <2> DEFINE last == CHOOSE k \in 1 .. n : \A j \in 1 .. n : j <= k
  <2>1. n \in 1 .. n /\ \A k \in 1 .. n : k <= n
    BY <1>2
  <2>2. last = n
    BY <2>1
  <2>3. NextVersion(reg, key) = 1 + last
    BY <2>1 DEF NextVersion
  <2> HIDE DEF last
  <2> QED BY <2>2, <2>3
<1> QED BY <1>1, <1>2

\* publishDraft, of an approved draft with an approval that is alive.
LEMMA PublishSound ==
  ASSUME NEW reg, NEW t \in Nat, Sound(reg, t), NEW d \in DOMAIN reg.drafts,
         reg.drafts[d].status = "APPROVED",
         NEW a \in DOMAIN reg.approvals, reg.approvals[a].draftId = d,
         reg.approvals[a].merchantId = reg.drafts[d].merchantId,
         reg.approvals[a].expiresAt >= t
  PROVE  LET new == PublishDraft(reg, d, t)
             p == NextPolicyId(reg, d)
         IN  /\ Sound(new, t) /\ Keeps(reg, new)
             /\ p \in PolicyIds /\ p[1] = reg.drafts[d].spec.key
             /\ p \notin DOMAIN reg.policies
             /\ DOMAIN new.policies = DOMAIN reg.policies \cup {p}
             /\ new.policies[p].merchantId = reg.drafts[d].merchantId
             /\ new.policies[p].draftId = d
             /\ new.policies[p].status = "PUBLISHED"
             /\ new.drafts[d].policyId = p
             /\ new.approvals = reg.approvals
<1> DEFINE old == reg.drafts[d]
           m == old.merchantId
           p == NextPolicyId(reg, d)
           draft == [old EXCEPT !.status = "PUBLISHED", !.policyId = p]
           policy == [merchantId |-> m, draftId |-> d, publishedAt |-> t,
                      expiresAt |-> t + old.spec.ttl, status |-> "PUBLISHED"]
           new == PublishDraft(reg, d, t)
<1>1. /\ DOMAIN new = DOMAIN reg
      /\ new.drafts = [reg.drafts EXCEPT ![d] = draft]
      /\ new.approvals = reg.approvals
      /\ new.policies = Put(reg.policies, p, policy)
      /\ new.publishedByMerchant = [reg.publishedByMerchant EXCEPT ![m] = @ \cup {p}]
  BY DEF PublishDraft, Sound, Types
<1>2. old \in Draft /\ d \in DraftIds /\ m \in Merchants
  BY DEF Sound, Types, TableOf, Draft
<1>3. old.spec.key \in PolicyKeys /\ old.spec.ttl \in Nat
  BY <1>2, RegistryAssumption DEF Draft
<1>4. PICK n \in Nat : Versions(reg, old.spec.key) = 1 .. n
  BY <1>3 DEF Sound, NoGaps
<1>5. p = <<old.spec.key, n + 1>>
  BY <1>4, NextVersionIsFree DEF NextPolicyId
<1>6. p \in PolicyIds /\ p[1] = old.spec.key /\ p \notin DOMAIN reg.policies
  <2>1. p[1] = old.spec.key /\ p[2] \notin Versions(reg, old.spec.key)
    BY <1>4, <1>5
  <2> QED BY <1>3, <1>5, <2>1 DEF PolicyIds, Versions
<1>7. draft \in Draft /\ policy \in Policy
  <2>1. draft \in Draft
    BY <1>2, <1>6 DEF Draft, DraftStatus
  <2>2. t + old.spec.ttl \in Nat
    BY <1>3
  <2> QED BY <1>2, <2>1, <2>2 DEF Policy
<1>8. /\ DOMAIN new.policies = DOMAIN reg.policies \cup {p}
      /\ new.policies[p] = policy
      /\ \A x \in DOMAIN reg.policies : new.policies[x] = reg.policies[x]
  BY <1>1, <1>6 DEF Put
<1>9. /\ policy.merchantId = m /\ policy.draftId = d /\ policy.publishedAt = t
      /\ policy.status = "PUBLISHED"
      /\ draft.status = "PUBLISHED" /\ draft.policyId = p
  BY <1>2 DEF Draft
<1>10. /\ DOMAIN new.drafts = DOMAIN reg.drafts /\ new.drafts[d] = draft
       /\ \A x \in DOMAIN reg.drafts \ {d} : new.drafts[x] = reg.drafts[x]
  BY <1>1
<1> HIDE DEF p, draft, policy, new, m
<1>11. Types(new)
  <2>1. new.publishedByMerchant \in [Merchants -> SUBSET PolicyIds]
    <3>1. /\ reg.publishedByMerchant \in [Merchants -> SUBSET PolicyIds]
          /\ reg.publishedByMerchant[m] \cup {p} \in SUBSET PolicyIds
      BY <1>2, <1>6 DEF Sound, Types
    <3> QED BY <1>1, <1>2, <3>1
  <2> QED BY <1>1, <1>2, <1>6, <1>7, <1>8, <1>10, <2>1 DEF Sound, Types, TableOf
<1>12. Lists(new)
  <2> SUFFICES ASSUME NEW x \in Merchants, NEW q
               PROVE  q \in new.publishedByMerchant[x] <=>
                        /\ q \in DOMAIN new.policies
                        /\ new.policies[q].merchantId = x
                        /\ new.policies[q].status = "PUBLISHED"
    BY DEF Lists
  <2>1. new.publishedByMerchant[x] = IF x = m THEN reg.publishedByMerchant[m] \cup {p}
                                             ELSE reg.publishedByMerchant[x]
    BY <1>1 DEF Sound, Types
  <2>2. q \in reg.publishedByMerchant[x] <=>
          /\ q \in DOMAIN reg.policies
          /\ reg.policies[q].merchantId = x
          /\ reg.policies[q].status = "PUBLISHED"
    BY DEF Sound, Lists
  <2>3. CASE q = p
    BY <1>6, <1>8, <1>9, <2>1, <2>2, <2>3
  <2>4. CASE q # p
    BY <1>8, <2>1, <2>2, <2>4
  <2> QED BY <2>3, <2>4
<1>13. NoGaps(new)
  <2> SUFFICES ASSUME NEW key \in PolicyKeys
               PROVE  \E k \in Nat : Versions(new, key) = 1 .. k
    BY DEF NoGaps
  <2>1. CASE key = old.spec.key
    <3>1. Versions(new, key) = Versions(reg, key) \cup {n + 1}
      BY <1>5, <1>8, <2>1 DEF Versions
    <3>2. 1 .. (n + 1) = (1 .. n) \cup {n + 1}
      BY <1>4
    <3> QED BY <1>4, <2>1, <3>1, <3>2
  <2>2. CASE key # old.spec.key
    <3>1. Versions(new, key) = Versions(reg, key)
      BY <1>5, <1>8, <2>2 DEF Versions
    <3> QED BY <3>1 DEF Sound, NoGaps
  <2> QED BY <2>1, <2>2
<1>14. Approvals(new)
  <2> SUFFICES ASSUME NEW q \in DOMAIN new.policies
               PROVE  /\ \E x \in DOMAIN reg.approvals : ApprovedBy(reg, x, new.policies[q])
                      /\ OfDraft(new, q, new.policies[q])
    BY <1>1 DEF Approvals, ApprovedBy
  <2>1. CASE q = p
    <3>1. ApprovedBy(reg, a, policy)
      BY <1>9 DEF ApprovedBy, Sound, Past, m
    <3>2. OfDraft(new, p, policy)
      BY <1>9, <1>10 DEF OfDraft
    <3> QED BY <1>8, <2>1, <3>1, <3>2
  <2>2. CASE q # p
    <3>1. q \in DOMAIN reg.policies /\ new.policies[q] = reg.policies[q]
      BY <1>8, <2>2
    <3>2. OfDraft(reg, q, reg.policies[q])
          /\ \E x \in DOMAIN reg.approvals : ApprovedBy(reg, x, reg.policies[q])
      BY <3>1 DEF Sound, Approvals
    <3>3. reg.policies[q].draftId # d
      BY <3>2 DEF OfDraft
    <3>4. OfDraft(new, q, reg.policies[q])
      BY <1>10, <3>2, <3>3 DEF OfDraft
    <3> QED BY <3>1, <3>2, <3>4
  <2> QED BY <2>1, <2>2
<1>15. Past(new, t)
  BY <1>1 DEF Sound, Past
<1>16. Keeps(reg, new)
  BY <1>1, <1>8, <1>10 DEF Keeps
<1>17. Sound(new, t)
  BY <1>11, <1>12, <1>13, <1>14, <1>15 DEF Sound
<1> QED BY <1>1, <1>6, <1>8, <1>9, <1>10, <1>16, <1>17 DEF new, p, m

\* Pausing, resuming and expiring: the status of some policies of one merchant and its
\* list.
WithStatus(reg, m, ps, status, list) ==
  [SetPolicyStatus(reg, ps, status) EXCEPT !.publishedByMerchant[m] = list]

LEMMA StatusSound ==
  ASSUME NEW reg, NEW t \in Nat, Sound(reg, t), NEW m \in Merchants, NEW ps, NEW list,
         NEW status \in {"PUBLISHED", "PAUSED", "EXPIRED"},
         \A p \in ps : p \in DOMAIN reg.policies /\ reg.policies[p].merchantId = m,
         list = IF status = "PUBLISHED" THEN reg.publishedByMerchant[m] \cup ps
                                        ELSE reg.publishedByMerchant[m] \ ps
  PROVE  LET new == WithStatus(reg, m, ps, status, list)
         IN  /\ Sound(new, t) /\ Keeps(reg, new)
             /\ DOMAIN new.policies = DOMAIN reg.policies
             /\ \A p \in DOMAIN reg.policies :
                  /\ new.policies[p].merchantId = reg.policies[p].merchantId
                  /\ new.policies[p].status = IF p \in ps THEN status ELSE reg.policies[p].status
             /\ new.publishedByMerchant[m] = list
             /\ new.drafts = reg.drafts
<1> DEFINE updated == [p \in DOMAIN reg.policies |-> [reg.policies[p] EXCEPT !.status = status]]
           new == WithStatus(reg, m, ps, status, list)
<1>1. /\ DOMAIN new = DOMAIN reg
      /\ new.drafts = reg.drafts /\ new.approvals = reg.approvals
      /\ new.policies = [p \in DOMAIN reg.policies |->
                           IF p \in ps THEN updated[p] ELSE reg.policies[p]]
      /\ new.publishedByMerchant = [reg.publishedByMerchant EXCEPT ![m] = list]
  BY DEF WithStatus, SetPolicyStatus, Sound, Types
<1>2. \A p \in DOMAIN reg.policies : p \in PolicyIds /\ reg.policies[p] \in Policy
  BY DEF Sound, Types, TableOf
<1>3. \A p \in DOMAIN reg.policies :
        /\ updated[p] \in Policy /\ updated[p].status = status
        /\ updated[p].merchantId = reg.policies[p].merchantId
        /\ updated[p].draftId = reg.policies[p].draftId
        /\ updated[p].publishedAt = reg.policies[p].publishedAt
  BY <1>2 DEF Policy
<1> HIDE DEF updated, new
<1>4. /\ DOMAIN new.policies = DOMAIN reg.policies
      /\ \A p \in DOMAIN reg.policies :
           /\ new.policies[p] \in Policy
           /\ new.policies[p].merchantId = reg.policies[p].merchantId
           /\ new.policies[p].draftId = reg.policies[p].draftId
           /\ new.policies[p].publishedAt = reg.policies[p].publishedAt
           /\ new.policies[p].status = IF p \in ps THEN status ELSE reg.policies[p].status
  BY <1>1, <1>2, <1>3
<1>5. /\ new.publishedByMerchant \in [Merchants -> SUBSET PolicyIds]
      /\ new.publishedByMerchant[m] = list
      /\ \A x \in Merchants \ {m} : new.publishedByMerchant[x] = reg.publishedByMerchant[x]
  <2>1. /\ reg.publishedByMerchant \in [Merchants -> SUBSET PolicyIds]
        /\ list \in SUBSET PolicyIds
    BY <1>2 DEF Sound, Types
  <2> QED BY <1>1, <2>1
<1>6. Types(new)
  BY <1>1, <1>2, <1>4, <1>5 DEF Sound, Types, TableOf
<1>7. Lists(new)
  <2> SUFFICES ASSUME NEW x \in Merchants, NEW q
               PROVE  q \in new.publishedByMerchant[x] <=>
                        /\ q \in DOMAIN new.policies
                        /\ new.policies[q].merchantId = x
                        /\ new.policies[q].status = "PUBLISHED"
    BY DEF Lists
  <2>1. q \in reg.publishedByMerchant[x] <=>
          /\ q \in DOMAIN reg.policies
          /\ reg.policies[q].merchantId = x
          /\ reg.policies[q].status = "PUBLISHED"
    BY DEF Sound, Lists
  <2>2. CASE x = m
    BY <1>4, <1>5, <2>1, <2>2
  <2>3. CASE x # m
    BY <1>4, <1>5, <2>1, <2>3
  <2> QED BY <2>2, <2>3
<1>8. Approvals(new)
  <2> SUFFICES ASSUME NEW q \in DOMAIN new.policies
               PROVE  /\ \E x \in DOMAIN reg.approvals : ApprovedBy(reg, x, new.policies[q])
                      /\ OfDraft(reg, q, new.policies[q])
    BY <1>1 DEF Approvals, ApprovedBy, OfDraft
  <2>1. OfDraft(reg, q, reg.policies[q])
        /\ \E x \in DOMAIN reg.approvals : ApprovedBy(reg, x, reg.policies[q])
    BY <1>4 DEF Sound, Approvals
  <2> QED BY <1>4, <2>1 DEF ApprovedBy, OfDraft
<1>9. NoGaps(new) /\ Past(new, t)
  BY <1>1, <1>4 DEF Sound, NoGaps, Past, Versions
<1>10. Keeps(reg, new)
  BY <1>1, <1>4 DEF Keeps
<1>11. Sound(new, t)
  BY <1>6, <1>7, <1>8, <1>9 DEF Sound
<1> QED BY <1>1, <1>4, <1>5, <1>10, <1>11 DEF new

-----------------------------------------------------------------------------
(***************************************************************************)
(* What the handlers make of operations one after the other.               *)
(***************************************************************************)
\* resolveApprovalForPublish with an id, and publishDraft.
LEMMA UseThenPublish ==
  ASSUME NEW reg, NEW t \in Nat, Sound(reg, t), NEW m, NEW d, NEW a,
         CanPublish(reg, m, d), ApprovalServes(reg, m, d, a, t)
  PROVE  LET new == PublishDraft(UseApproval(reg, a), d, t)
             p == NextPolicyId(reg, d)
         IN  /\ Sound(new, t) /\ Keeps(reg, new)
             /\ p \in PolicyIds /\ p \notin DOMAIN reg.policies
             /\ p[1] = reg.drafts[d].spec.key
             /\ DOMAIN new.policies = DOMAIN reg.policies \cup {p}
             /\ new.policies[p].merchantId = m
             /\ new.policies[p].draftId = d
             /\ new.policies[p].status = "PUBLISHED"
             /\ new.drafts[d].policyId = p
             /\ a \in DOMAIN new.approvals
             /\ new.approvals[a].draftId = d
             /\ new.approvals[a].status = "PUBLISHED"
<1> DEFINE used == UseApproval(reg, a)
           new == PublishDraft(used, d, t)
           p == NextPolicyId(reg, d)
<1>1. /\ d \in DOMAIN reg.drafts /\ reg.drafts[d].merchantId = m
      /\ reg.drafts[d].status = "APPROVED"
      /\ a \in DOMAIN reg.approvals /\ reg.approvals[a].merchantId = m
      /\ reg.approvals[a].draftId = d /\ reg.approvals[a].expiresAt >= t
  BY DEF CanPublish, DraftIn, ApprovalServes
<1>2. /\ Sound(used, t) /\ Keeps(reg, used)
      /\ used.drafts = reg.drafts /\ used.policies = reg.policies
      /\ a \in DOMAIN used.approvals
      /\ used.approvals[a] = [reg.approvals[a] EXCEPT !.status = "PUBLISHED"]
  BY <1>1, UseSound
<1>3. reg.approvals[a] \in Approval
  BY <1>1 DEF Sound, Types, TableOf
<1>4. /\ used.approvals[a].merchantId = m /\ used.approvals[a].draftId = d
      /\ used.approvals[a].expiresAt >= t /\ used.approvals[a].status = "PUBLISHED"
  BY <1>1, <1>2, <1>3 DEF Approval
<1>5. NextPolicyId(used, d) = p
  BY <1>2 DEF NextPolicyId, NextVersion, Versions
<1> HIDE DEF used, p
<1>6. /\ Sound(new, t) /\ Keeps(used, new)
      /\ p \in PolicyIds /\ p[1] = reg.drafts[d].spec.key
      /\ p \notin DOMAIN reg.policies
      /\ DOMAIN new.policies = DOMAIN reg.policies \cup {p}
      /\ new.policies[p].merchantId = m
      /\ new.policies[p].draftId = d
      /\ new.policies[p].status = "PUBLISHED"
      /\ new.drafts[d].policyId = p
      /\ new.approvals = used.approvals
  <2>1. /\ Sound(used, t) /\ d \in DOMAIN used.drafts /\ used.drafts[d].status = "APPROVED"
        /\ a \in DOMAIN used.approvals /\ used.approvals[a].draftId = d
        /\ used.approvals[a].merchantId = used.drafts[d].merchantId
        /\ used.approvals[a].expiresAt >= t
    BY <1>1, <1>2, <1>4
  <2>2. /\ Sound(new, t) /\ Keeps(used, new)
        /\ p \in PolicyIds /\ p[1] = used.drafts[d].spec.key
        /\ p \notin DOMAIN used.policies
        /\ DOMAIN new.policies = DOMAIN used.policies \cup {p}
        /\ new.policies[p].merchantId = used.drafts[d].merchantId
        /\ new.policies[p].draftId = d
        /\ new.policies[p].status = "PUBLISHED"
        /\ new.drafts[d].policyId = p
        /\ new.approvals = used.approvals
    BY <1>5, <2>1, PublishSound
  <2> QED BY <1>1, <1>2, <2>2
<1> HIDE DEF new
<1>7. Keeps(reg, new)
  BY <1>2, <1>6, KeepsOn
<1> QED BY <1>2, <1>4, <1>6, <1>7 DEF new, used, p

\* approveProposalPolicy.
LEMMA ApprovedSound ==
  ASSUME now \in Nat, NEW reg, Sound(reg, now), NEW d \in DOMAIN reg.drafts,
         NEW a \in ApprovalIds, a \notin DOMAIN reg.approvals
  PROVE  LET new == ApprovedRegistry(reg, d, a)
         IN  /\ Sound(new, now) /\ Keeps(reg, new)
             /\ d \in DOMAIN new.drafts /\ new.policies = reg.policies
<1> DEFINE status == reg.drafts[d].status
           submitted == SubmitDraft(reg, d)
           approved == ApproveDraft(submitted, d, a, now)
           direct == ApproveDraft(reg, d, a, now)
<1>1. reg.drafts[d] \in Draft
  BY DEF Sound, Types, TableOf
<1>2. CASE status \in {"DRAFT", "REJECTED"}
  <2>1. /\ Sound(submitted, now) /\ Keeps(reg, submitted)
        /\ d \in DOMAIN submitted.drafts
        /\ submitted.drafts[d] = [reg.drafts[d] EXCEPT !.status = "SUBMITTED"]
        /\ submitted.policies = reg.policies /\ submitted.approvals = reg.approvals
    BY <1>2, SubmitSound
  <2>2. submitted.drafts[d].status # "PUBLISHED" /\ a \notin DOMAIN submitted.approvals
    BY <1>1, <2>1 DEF Draft
  <2> HIDE DEF submitted
  <2>3. /\ Sound(approved, now) /\ Keeps(submitted, approved)
        /\ d \in DOMAIN approved.drafts /\ approved.policies = submitted.policies
    <3>1. Sound(submitted, now) /\ d \in DOMAIN submitted.drafts
      BY <2>1
    <3> QED BY <2>2, <3>1, ApproveSound
  <2> HIDE DEF approved
  <2>4. Keeps(reg, approved)
    BY <2>1, <2>3, KeepsOn
  <2>5. ApprovedRegistry(reg, d, a) = approved
    BY <1>2 DEF ApprovedRegistry, approved, submitted
  <2> QED BY <2>1, <2>3, <2>4, <2>5
<1>3. CASE status = "SUBMITTED"
  <2>1. /\ Sound(direct, now) /\ Keeps(reg, direct)
        /\ d \in DOMAIN direct.drafts /\ direct.policies = reg.policies
    <3>1. reg.drafts[d].status # "PUBLISHED"
      BY <1>3
    <3> QED BY <3>1, ApproveSound
  <2>2. ApprovedRegistry(reg, d, a) = direct
    BY <1>3 DEF ApprovedRegistry
  <2> QED BY <2>1, <2>2
<1>4. CASE status \notin {"DRAFT", "REJECTED", "SUBMITTED"}
  <2>1. ApprovedRegistry(reg, d, a) = reg
    BY <1>4 DEF ApprovedRegistry
  <2> QED BY <2>1, KeepsSame
<1> QED BY <1>2, <1>3, <1>4

\* enableLifecycleStrategy up to the publication.
LEMMA PublishAtOnceSound ==
  ASSUME now \in Nat, Sound(registry, now), NEW m \in Merchants, NEW t \in Templates,
         NEW d \in DraftIds, NEW a \in ApprovalIds,
         d \notin DOMAIN registry.drafts, a \notin DOMAIN registry.approvals
  PROVE  LET new == PublishAtOnce(m, t, d, a)
             p == new.drafts[d].policyId
         IN  /\ Sound(new, now) /\ Keeps(registry, new)
             /\ p \in PolicyIds /\ p[1] = TemplateSpec[t].key
             /\ p \in DOMAIN new.policies
             /\ new.policies[p].merchantId = m
             /\ new.policies[p].status = "PUBLISHED"
<1> DEFINE spec == TemplateSpec[t]
           draft == CreateDraft(registry, m, d, spec)
           created == SubmitDraft(draft, d)
           approved == ApproveDraft(created, d, a, now)
           new == PublishDraft(UseApproval(approved, a), d, now)
           p == NextPolicyId(approved, d)
<1>1. spec \in Specs
  BY ProposalAssumption
<1>2. new = PublishAtOnce(m, t, d, a)
  BY DEF PublishAtOnce
<1> HIDE DEF spec
<1>3. /\ Sound(draft, now) /\ Keeps(registry, draft)
      /\ d \in DOMAIN draft.drafts /\ draft.drafts[d].status = "DRAFT"
      /\ draft.drafts[d].merchantId = m /\ draft.drafts[d].spec = spec
      /\ draft.approvals = registry.approvals
  BY <1>1, CreateSound
<1> HIDE DEF draft
<1>4. draft.drafts[d] \in Draft
  BY <1>3 DEF Sound, Types, TableOf
<1>5. /\ Sound(created, now) /\ Keeps(draft, created)
      /\ d \in DOMAIN created.drafts
      /\ created.drafts[d] = [draft.drafts[d] EXCEPT !.status = "SUBMITTED"]
      /\ created.approvals = registry.approvals
  BY <1>3, SubmitSound
<1>6. /\ created.drafts[d] \in Draft /\ created.drafts[d].status = "SUBMITTED"
      /\ created.drafts[d].merchantId = m /\ created.drafts[d].spec = spec
  BY <1>3, <1>4, <1>5 DEF Draft, DraftStatus
<1> HIDE DEF created
<1>7. /\ Sound(approved, now) /\ Keeps(created, approved)
      /\ d \in DOMAIN approved.drafts
      /\ approved.drafts[d].status = "APPROVED"
      /\ approved.drafts[d].merchantId = m /\ approved.drafts[d].spec = spec
      /\ a \in DOMAIN approved.approvals /\ approved.approvals[a].status = "APPROVED"
      /\ approved.approvals[a].merchantId = m
      /\ approved.approvals[a].draftId = d
      /\ approved.approvals[a].expiresAt >= now
  <2>1. /\ Sound(created, now) /\ d \in DOMAIN created.drafts
        /\ created.drafts[d].status # "PUBLISHED" /\ a \notin DOMAIN created.approvals
    BY <1>5, <1>6
  <2>2. /\ Sound(approved, now) /\ Keeps(created, approved)
        /\ d \in DOMAIN approved.drafts
        /\ approved.drafts[d].status = "APPROVED"
        /\ approved.drafts[d].merchantId = created.drafts[d].merchantId
        /\ approved.drafts[d].spec = created.drafts[d].spec
        /\ a \in DOMAIN approved.approvals
        /\ approved.approvals[a].status = "APPROVED"
        /\ approved.approvals[a].merchantId = created.drafts[d].merchantId
        /\ approved.approvals[a].draftId = d
        /\ approved.approvals[a].expiresAt >= now
    BY <2>1, ApproveSound
  <2> QED BY <1>6, <2>2
<1> HIDE DEF approved
<1>10. /\ Sound(approved, now)
       /\ CanPublish(approved, m, d) /\ ApprovalServes(approved, m, d, a, now)
  BY <1>7 DEF CanPublish, DraftIn, ApprovalServes
<1>11. /\ Sound(new, now) /\ Keeps(approved, new)
       /\ p \in PolicyIds /\ p[1] = approved.drafts[d].spec.key
       /\ DOMAIN new.policies = DOMAIN approved.policies \cup {p}
       /\ new.policies[p].merchantId = m
       /\ new.policies[p].status = "PUBLISHED"
       /\ new.drafts[d].policyId = p
  BY <1>10, UseThenPublish
<1> HIDE DEF new, p
<1>12. Keeps(registry, new)
  BY <1>3, <1>5, <1>7, <1>11, KeepsOn
<1> QED BY <1>2, <1>7, <1>11, <1>12 DEF spec

\* enableLifecycleStrategy and setRevenueStrategyConfig: the new policy is the only
\* one of the template that is left published.
LEMMA SupersedeSound ==
  ASSUME now \in Nat, Sound(registry, now), NEW m \in Merchants, NEW t \in Templates,
         NEW d \in DraftIds, NEW a \in ApprovalIds,
         d \notin DOMAIN registry.drafts, a \notin DOMAIN registry.approvals,
         PublishAndSupersede(m, t, d, a)
  PROVE  LET p == registry'.drafts[d].policyId
         IN  /\ Sound(registry', now) /\ Keeps(registry, registry')
             /\ p \in PolicyIds
             /\ PublishedOf(registry', m, t) = {p}
             /\ SetActive(m, t, p)
<1> DEFINE reg == PublishAtOnce(m, t, d, a)
           p == reg.drafts[d].policyId
           stale == Stale(reg, m, t, p)
           list == reg.publishedByMerchant[m] \ stale
           status == "PAUSED"
           new == WithStatus(reg, m, stale, status, list)
<1>1. /\ Sound(reg, now) /\ Keeps(registry, reg)
      /\ p \in PolicyIds /\ p[1] = TemplateSpec[t].key
      /\ p \in DOMAIN reg.policies
      /\ reg.policies[p].merchantId = m
      /\ reg.policies[p].status = "PUBLISHED"
  BY PublishAtOnceSound
<1>2. registry' = PauseAll(reg, m, stale) /\ SetActive(m, t, p)
  BY DEF PublishAndSupersede
<1> HIDE DEF reg, p
<1>3. PauseAll(reg, m, stale) = new
  BY DEF PauseAll, WithStatus, SetPolicyStatus, Sound, Types
<1>4. \A x : x \in stale <=> /\ x \in DOMAIN reg.policies /\ reg.policies[x].merchantId = m
                             /\ reg.policies[x].status = "PUBLISHED"
                             /\ x[1] = TemplateSpec[t].key /\ x # p
  BY DEF Stale, PublishedOf, PolicyIn
<1> HIDE DEF stale, list
<1>5. /\ status \in {"PUBLISHED", "PAUSED", "EXPIRED"} /\ status # "PUBLISHED"
      /\ list = IF status = "PUBLISHED" THEN reg.publishedByMerchant[m] \cup stale
                                        ELSE reg.publishedByMerchant[m] \ stale
  BY DEF list
<1>6. status = "PAUSED"
  OBVIOUS
<1> HIDE DEF status
<1>7. /\ Sound(new, now) /\ Keeps(reg, new)
      /\ DOMAIN new.policies = DOMAIN reg.policies
      /\ \A x \in DOMAIN reg.policies :
           /\ new.policies[x].merchantId = reg.policies[x].merchantId
           /\ new.policies[x].status = IF x \in stale THEN status ELSE reg.policies[x].status
      /\ new.drafts = reg.drafts
  <2>1. /\ Sound(reg, now)
        /\ \A x \in stale : x \in DOMAIN reg.policies /\ reg.policies[x].merchantId = m
    BY <1>1, <1>4
  <2> QED BY <1>5, <2>1, StatusSound
<1> HIDE DEF new
<1>8. new = registry'
  BY <1>2, <1>3
<1>9. PublishedOf(new, m, t) = {p}
  BY <1>1, <1>4, <1>5, <1>7 DEF PublishedOf, PolicyIn
<1>10. new.drafts[d].policyId = p
  BY <1>7 DEF p
<1>11. Keeps(registry, new)
  BY <1>1, <1>7, KeepsOn
<1> QED BY <1>1, <1>2, <1>7, <1>8, <1>9, <1>10, <1>11

-----------------------------------------------------------------------------
(***************************************************************************)
(* The owner's routes, the events and time keep the registry sound.        *)
(***************************************************************************)
Served == [policies : SUBSET PolicyIds, at : Nat]

RegistryInv == now \in Nat /\ served \in Served /\ Sound(registry, now)

LEMMA DraftRoutesSound ==
  ASSUME RegistryInv, NEW m \in Merchants, NEW d \in DraftIds,
         DraftRoutes(m, d) \/ \E s \in Specs : Create(m, d, s)
  PROVE  /\ now' = now /\ served' = served
         /\ Sound(registry', now) /\ Keeps(registry, registry')
<1> USE DEF RegistryInv
<1>1. CASE \E s \in Specs : Create(m, d, s)
  <2>1. PICK s \in Specs : Create(m, d, s)
    BY <1>1
  <2>2. /\ d \notin DOMAIN registry.drafts /\ registry' = CreateDraft(registry, m, d, s)
        /\ now' = now /\ served' = served
    BY <2>1 DEF Create
  <2>3. Sound(CreateDraft(registry, m, d, s), now) /\ Keeps(registry, CreateDraft(registry, m, d, s))
    BY <2>2, CreateSound
  <2> QED BY <2>2, <2>3
<1>2. CASE Submit(m, d)
  <2>1. /\ CanSubmit(registry, m, d) /\ registry' = SubmitDraft(registry, d)
        /\ now' = now /\ served' = served
    BY <1>2 DEF Submit
  <2>2. d \in DOMAIN registry.drafts /\ registry.drafts[d].status # "PUBLISHED"
    BY <2>1 DEF CanSubmit, DraftIn
  <2>3. Sound(SubmitDraft(registry, d), now) /\ Keeps(registry, SubmitDraft(registry, d))
    BY <2>2, SubmitSound
  <2> QED BY <2>1, <2>3
<1>3. ASSUME NEW a \in ApprovalIds, Approve(m, d, a)
      PROVE  /\ now' = now /\ served' = served
             /\ Sound(registry', now) /\ Keeps(registry, registry')
  <2>1. /\ CanApprove(registry, m, d) /\ a \notin DOMAIN registry.approvals
        /\ registry' = ApproveDraft(registry, d, a, now)
        /\ now' = now /\ served' = served
    BY <1>3 DEF Approve
  <2>2. d \in DOMAIN registry.drafts /\ registry.drafts[d].status # "PUBLISHED"
    BY <2>1 DEF CanApprove, DraftIn
  <2>3. /\ Sound(ApproveDraft(registry, d, a, now), now)
        /\ Keeps(registry, ApproveDraft(registry, d, a, now))
    <3>1. a \notin DOMAIN registry.approvals
      BY <2>1
    <3> QED BY <2>2, <3>1, ApproveSound
  <2> QED BY <2>1, <2>3
<1>4. ASSUME NEW a \in ApprovalIds, PublishByApproval(m, d, a)
      PROVE  /\ now' = now /\ served' = served
             /\ Sound(registry', now) /\ Keeps(registry, registry')
  <2> DEFINE new == PublishDraft(UseApproval(registry, a), d, now)
  <2>1. /\ CanPublish(registry, m, d) /\ ApprovalServes(registry, m, d, a, now)
        /\ registry' = new
        /\ now' = now /\ served' = served
    BY <1>4 DEF PublishByApproval
  <2>2. Sound(new, now) /\ Keeps(registry, new)
    BY <2>1, UseThenPublish
  <2> QED BY <2>1, <2>2
<1>5. ASSUME NEW a \in ApprovalIds, PublishByToken(m, d, a)
      PROVE  /\ now' = now /\ served' = served
             /\ Sound(registry', now) /\ Keeps(registry, registry')
  <2> DEFINE new == PublishDraft(registry, d, now)
  <2>1. /\ CanPublish(registry, m, d) /\ TokenServes(registry, m, d, a, now)
        /\ registry' = new
        /\ now' = now /\ served' = served
    BY <1>5 DEF PublishByToken
  <2>2. /\ d \in DOMAIN registry.drafts /\ registry.drafts[d].status = "APPROVED"
        /\ a \in DOMAIN registry.approvals /\ registry.approvals[a].draftId = d
        /\ registry.approvals[a].merchantId = registry.drafts[d].merchantId
        /\ registry.approvals[a].expiresAt >= now
    BY <2>1 DEF CanPublish, DraftIn, TokenServes
  <2>3. Sound(new, now) /\ Keeps(registry, new)
    BY <2>2, PublishSound
  <2> QED BY <2>1, <2>3
<1> QED BY <1>1, <1>2, <1>3, <1>4, <1>5 DEF DraftRoutes

LEMMA PolicyRoutesSound ==
  ASSUME RegistryInv, NEW m \in Merchants, PolicyRoutes(m)
  PROVE  /\ now' = now /\ served' \in Served
         /\ Sound(registry', now) /\ Keeps(registry, registry')
<1> DEFINE list == registry.publishedByMerchant[m]
<1>a. \A p : p \in list <=> /\ p \in DOMAIN registry.policies
                            /\ registry.policies[p].merchantId = m
                            /\ registry.policies[p].status = "PUBLISHED"
  BY DEF RegistryInv, Sound, Lists
<1>1. ASSUME NEW p \in DOMAIN registry.policies, Pause(m, p)
      PROVE  /\ now' = now /\ served' \in Served
             /\ Sound(registry', now) /\ Keeps(registry, registry')
  <2> DEFINE ps == {p}
             rest == list \ ps
             status == "PAUSED"
             new == WithStatus(registry, m, ps, status, rest)
  <2>1. /\ PolicyIn(registry, m, p, "PUBLISHED") /\ registry' = PausePolicy(registry, m, p)
        /\ now' = now /\ served' = served
    BY <1>1 DEF Pause
  <2>2. registry' = new
    BY <2>1 DEF PausePolicy, WithStatus, SetPolicyStatus, RegistryInv, Sound, Types
  <2>3. \A q \in ps : q \in DOMAIN registry.policies /\ registry.policies[q].merchantId = m
    BY <2>1 DEF PolicyIn
  <2>4. /\ status \in {"PUBLISHED", "PAUSED", "EXPIRED"}
        /\ rest = IF status = "PUBLISHED" THEN registry.publishedByMerchant[m] \cup ps
                                         ELSE registry.publishedByMerchant[m] \ ps
    OBVIOUS
  <2> HIDE DEF ps, rest, status
  <2>5. Sound(new, now) /\ Keeps(registry, new)
    BY <2>3, <2>4, StatusSound DEF RegistryInv
  <2> QED BY <2>1, <2>2, <2>5 DEF RegistryInv
<1>2. ASSUME NEW p \in DOMAIN registry.policies, Resume(m, p)
      PROVE  /\ now' = now /\ served' \in Served
             /\ Sound(registry', now) /\ Keeps(registry, registry')
  <2> DEFINE expired == registry.policies[p].expiresAt <= now
             ps == {p}
             rest == IF expired THEN list \ ps ELSE list \cup ps
             status == IF expired THEN "EXPIRED" ELSE "PUBLISHED"
             new == WithStatus(registry, m, ps, status, rest)
  <2>1. /\ PolicyIn(registry, m, p, "PAUSED") /\ registry' = ResumePolicy(registry, m, p, now)
        /\ now' = now /\ served' = served
    BY <1>2 DEF Resume
  <2>2. registry' = new
    <3>1. CASE expired
      <4>1. rest = list
        BY <1>a, <2>1, <3>1 DEF PolicyIn
      <4>2. registry' = SetPolicyStatus(registry, ps, status)
        BY <2>1, <3>1 DEF ResumePolicy
      <4> HIDE DEF rest, status, ps
      <4> QED BY <4>1, <4>2 DEF WithStatus, SetPolicyStatus, RegistryInv, Sound, Types
    <3>2. CASE ~expired
      BY <2>1, <3>2 DEF ResumePolicy, WithStatus, SetPolicyStatus, RegistryInv, Sound, Types
    <3> QED BY <3>1, <3>2
  <2>3. \A q \in ps : q \in DOMAIN registry.policies /\ registry.policies[q].merchantId = m
    BY <2>1 DEF PolicyIn
  <2>4. /\ status \in {"PUBLISHED", "PAUSED", "EXPIRED"}
        /\ rest = IF status = "PUBLISHED" THEN registry.publishedByMerchant[m] \cup ps
                                         ELSE registry.publishedByMerchant[m] \ ps
    OBVIOUS
  <2> HIDE DEF ps, rest, status
  <2>5. Sound(new, now) /\ Keeps(registry, new)
    BY <2>3, <2>4, StatusSound DEF RegistryInv
  <2> QED BY <2>1, <2>2, <2>5 DEF RegistryInv
<1>3. CASE ListActive(m)
  <2> DEFINE ps == ExpiredPolicies(registry, m, now)
             rest == list \ ps
             status == "EXPIRED"
             new == WithStatus(registry, m, ps, status, rest)
  <2>1. /\ registry' = ExpirePolicies(registry, m, now)
        /\ served' = [policies |-> registry'.publishedByMerchant[m], at |-> now]
        /\ now' = now
    BY <1>3 DEF ListActive
  <2>2. rest = {p \in list \ ps : registry.policies[p].status = "PUBLISHED"}
    BY <1>a
  <2>3. registry' = new
    BY <2>1, <2>2 DEF ExpirePolicies, WithStatus
  <2>4. \A q \in ps : q \in DOMAIN registry.policies /\ registry.policies[q].merchantId = m
    BY <1>a DEF ExpiredPolicies
  <2>5. /\ status \in {"PUBLISHED", "PAUSED", "EXPIRED"}
        /\ rest = IF status = "PUBLISHED" THEN registry.publishedByMerchant[m] \cup ps
                                         ELSE registry.publishedByMerchant[m] \ ps
    OBVIOUS
  <2> HIDE DEF ps, rest, status
  <2>6. Sound(new, now) /\ Keeps(registry, new)
    BY <2>4, <2>5, StatusSound DEF RegistryInv
  <2> HIDE DEF new
  <2>7. new.publishedByMerchant[m] \in SUBSET PolicyIds
    BY <2>6 DEF Sound, Types
  <2> QED BY <2>1, <2>3, <2>6, <2>7 DEF RegistryInv, Served
<1> QED BY <1>1, <1>2, <1>3 DEF PolicyRoutes

LEMMA RegistryStepSound ==
  ASSUME RegistryInv, RegistryStep
  PROVE  RegistryInv' /\ Keeps(registry, registry')
<1>1. ASSUME NEW m \in Merchants, NEW d \in DraftIds,
             DraftRoutes(m, d) \/ \E s \in Specs : Create(m, d, s)
      PROVE  RegistryInv' /\ Keeps(registry, registry')
  <2>1. /\ now' = now /\ served' = served
        /\ Sound(registry', now) /\ Keeps(registry, registry')
    BY <1>1, DraftRoutesSound
  <2>2. Sound(registry, now)'
    BY <2>1
  <2> QED BY <2>1, <2>2 DEF RegistryInv, Served
<1>2. ASSUME NEW m \in Merchants, PolicyRoutes(m)
      PROVE  RegistryInv' /\ Keeps(registry, registry')
  <2>1. /\ now' = now /\ served' \in Served
        /\ Sound(registry', now) /\ Keeps(registry, registry')
    BY <1>2, PolicyRoutesSound
  <2>2. Sound(registry, now)'
    BY <2>1
  <2> QED BY <2>1, <2>2 DEF RegistryInv, Served
<1>3. CASE Tick
  <2>1. now' = now + 1 /\ registry' = registry /\ served' = served
    BY <1>3 DEF Tick
  <2>2. now \in Nat /\ now + 1 \in Nat /\ now <= now + 1 /\ Sound(registry, now)
    BY DEF RegistryInv
  <2>3. Sound(registry, now + 1)
    BY <2>2, SoundLater
  <2>4. Sound(registry, now)'
    BY <2>1, <2>3
  <2> QED BY <2>1, <2>2, <2>4, KeepsSame DEF RegistryInv, Served
<1> QED BY <1>1, <1>2, <1>3 DEF RegistryStep

-----------------------------------------------------------------------------
(***************************************************************************)
(* Proposals and the registry they work on.                                *)
(***************************************************************************)
\* A proposal's draft exists; it names a policy when it is PUBLISHED, and only then.
Linked(p, reg) ==
  /\ p.draftId \in DOMAIN reg.drafts
  /\ IF p.status = "PUBLISHED"
     THEN /\ p.policyId \in DOMAIN reg.policies
          /\ reg.policies[p.policyId].draftId = p.draftId
          /\ reg.policies[p.policyId].merchantId = p.merchantId
          /\ p.approvalId \in DOMAIN reg.approvals
          /\ reg.approvals[p.approvalId].draftId = p.draftId
          /\ reg.approvals[p.approvalId].status = "PUBLISHED"
     ELSE p.policyId = NoPolicy

Distinct(props) ==
  \A i, j \in DOMAIN props :
    i # j /\ props[i].status = "PUBLISHED" => props[j].policyId # props[i].policyId

Consistent(props, reg) ==
  /\ TableOf(props, ProposalIds, Proposal)
  /\ \A i \in DOMAIN props : Linked(props[i], reg)
  /\ Distinct(props)

LEMMA ConsistentKept ==
  ASSUME NEW props, NEW reg, NEW new, Consistent(props, reg), Keeps(reg, new)
  PROVE  Consistent(props, new)
<1> SUFFICES ASSUME NEW i \in DOMAIN props, Linked(props[i], reg)
             PROVE  Linked(props[i], new)
  BY DEF Consistent
<1> QED BY DEF Linked, Keeps

\* Policies are named with a key and a version, and "no policy" is none of them.
LEMMA NoPolicyIsNone ==
  ASSUME NEW reg, NEW t, Sound(reg, t)
  PROVE  NoPolicy \notin DOMAIN reg.policies
BY RegistryAssumption DEF Sound, Types, TableOf, PolicyIds

\* A new policy is named by no proposal.
LEMMA NewIsUnnamed ==
  ASSUME NEW props, NEW reg, NEW t, Sound(reg, t), Consistent(props, reg),
         NEW p \in PolicyIds, p \notin DOMAIN reg.policies
  PROVE  \A j \in DOMAIN props : props[j].policyId # p
BY RegistryAssumption DEF Consistent, Linked, PolicyIds

\* One proposal is new or changes.
LEMMA ProposalChanges ==
  ASSUME NEW props, NEW new, NEW reg, NEW t, Sound(reg, t), Consistent(props, reg),
         NEW i \in ProposalIds, NEW p \in Proposal,
         DOMAIN new = DOMAIN props \cup {i}, new[i] = p,
         \A j \in DOMAIN props \ {i} : new[j] = props[j],
         Linked(p, reg),
         p.status = "PUBLISHED" => \A j \in DOMAIN props \ {i} : props[j].policyId # p.policyId
  PROVE  Consistent(new, reg)
<1>1. TableOf(new, ProposalIds, Proposal)
  BY DEF Consistent, TableOf
<1>2. \A j \in DOMAIN new : Linked(new[j], reg)
  BY DEF Consistent
<1>3. Distinct(new)
  <2> SUFFICES ASSUME NEW j \in DOMAIN new, NEW k \in DOMAIN new, j # k,
                      new[j].status = "PUBLISHED"
               PROVE  new[k].policyId # new[j].policyId
    BY DEF Distinct
  <2>1. CASE j = i
    BY <2>1
  <2>2. CASE k = i
    <3>1. new[j].policyId \in DOMAIN reg.policies
      BY <1>2 DEF Linked
    <3>2. j \in DOMAIN props /\ new[j] = props[j]
      BY <2>2
    <3>3. CASE p.status = "PUBLISHED"
      BY <2>2, <3>2, <3>3
    <3>4. CASE p.status # "PUBLISHED"
      BY <2>2, <3>1, <3>4, NoPolicyIsNone DEF Linked
    <3> QED BY <3>3, <3>4
  <2>3. CASE j # i /\ k # i
    BY <2>3 DEF Consistent, Distinct
  <2> QED BY <2>1, <2>2, <2>3
<1> QED BY <1>1, <1>2, <1>3 DEF Consistent

Strategies(st) == DOMAIN st = Merchants /\ \A m \in Merchants : TableOf(st[m], Templates, Strategy)

LEMMA SetStatusTyped ==
  ASSUME Strategies(strategies), NEW m \in Merchants, NEW t \in Templates,
         NEW status \in {"DRAFT", "PENDING_APPROVAL", "APPROVED", "REJECTED", "ACTIVE"},
         SetStatus(m, t, status)
  PROVE  Strategies(strategies')
<1> DEFINE new == [StrategyOf(m, t) EXCEPT !.status = status]
<1>1. StrategyOf(m, t) \in Strategy
  BY DEF StrategyOf, Strategy, Strategies, TableOf
<1>2. new \in Strategy
  BY <1>1 DEF Strategy
<1>3. strategies' = [strategies EXCEPT ![m] = Put(@, t, new)]
  BY DEF SetStatus
<1> HIDE DEF new
<1> QED BY <1>2, <1>3 DEF Strategies, TableOf, Put

LEMMA SetActiveTyped ==
  ASSUME Strategies(strategies), NEW m \in Merchants, NEW t \in Templates,
         NEW p \in PolicyIds, SetActive(m, t, p)
  PROVE  Strategies(strategies')
<1> DEFINE new == [status |-> "ACTIVE", lastPolicyId |-> p]
<1>1. new \in Strategy
  BY DEF Strategy
<1>2. strategies' = [strategies EXCEPT ![m] = Put(@, t, new)]
  BY DEF SetActive
<1> HIDE DEF new
<1> QED BY <1>1, <1>2 DEF Strategies, TableOf, Put

-----------------------------------------------------------------------------
(***************************************************************************)
(* The inductive invariant.                                                *)
(***************************************************************************)
EnabledTyped ==
  enabled = NotEnabled \/
  enabled \in [merchantId : Merchants, template : Templates, policyId : PolicyIds,
               already : BOOLEAN]

Inv ==
  /\ RegistryInv
  /\ Consistent(proposals, registry)
  /\ Strategies(strategies)
  /\ EnabledTyped

\* It gives the invariant the run checks.
LEMMA InvTypes == Inv => RegistryTypeOK
BY DEF Inv, RegistryInv, Served, Sound, Types, RegistryTypeOK, Draft, DraftStatus,
       Approval, Policy, PolicyIds

LEMMA InvRegistryKept == Inv => RegistryKept
<1> SUFFICES ASSUME Sound(registry, now)
             PROVE  ListsAreExact /\ PoliciesApproved
  BY DEF Inv, RegistryInv, RegistryKept
<1>1. ListsAreExact
  <2> SUFFICES ASSUME NEW m \in Merchants
               PROVE  registry.publishedByMerchant[m] =
                        {p \in DOMAIN registry.policies :
                           /\ registry.policies[p].merchantId = m
                           /\ registry.policies[p].status = "PUBLISHED"}
    BY DEF ListsAreExact
  <2> QED BY DEF Sound, Lists
<1>2. PoliciesApproved
  <2> SUFFICES ASSUME NEW p \in DOMAIN registry.policies
               PROVE  /\ ApprovedFor(registry.policies[p])
                      /\ OfDraft(registry, p, registry.policies[p])
    BY DEF PoliciesApproved, OfDraft
  <2> QED BY DEF Sound, Approvals, ApprovedBy, ApprovedFor
<1> QED BY <1>1, <1>2

LEMMA InvProposals == Inv => PublishedProposalsExact
<1> SUFFICES ASSUME Inv, NEW i \in DOMAIN proposals, proposals[i].status = "PUBLISHED"
             PROVE  LET p == proposals[i]
                    IN  /\ Linked(p, registry)
                        /\ \A j \in DOMAIN proposals \ {i} : proposals[j].policyId # p.policyId
  BY DEF PublishedProposalsExact, Linked
<1> QED BY DEF Inv, Consistent, Distinct

LEMMA InvInvariant == Inv => ProposalInvariant
BY InvTypes, InvRegistryKept, InvProposals
   DEF ProposalInvariant, TypeOK, Inv, Consistent, Strategies, EnabledTyped

LEMMA InvInit == Init => Inv
<1> SUFFICES ASSUME Init PROVE Inv
  OBVIOUS
<1>1. /\ now = 0 /\ served = [policies |-> {}, at |-> 0] /\ registry = EmptyRegistry
      /\ proposals = EmptyTable /\ strategies = [m \in Merchants |-> EmptyTable]
      /\ enabled = NotEnabled
  BY DEF Init, RegistryInit, Unserved, EmptyRegistry, EmptyTable
<1>2. Types(registry) /\ Lists(registry) /\ Approvals(registry) /\ Past(registry, now)
  BY <1>1 DEF EmptyRegistry, EmptyTable, Types, Lists, Approvals, Past, TableOf
<1>3. NoGaps(registry)
  <2>1. \A key \in PolicyKeys : Versions(registry, key) = 1 .. 0
    BY <1>1 DEF Versions, EmptyRegistry, EmptyTable
  <2> QED BY <2>1 DEF NoGaps
<1>4. Consistent(proposals, registry) /\ Strategies(strategies)
  BY <1>1 DEF Consistent, Strategies, Distinct, TableOf, EmptyTable
<1> QED BY <1>1, <1>2, <1>3, <1>4 DEF Inv, RegistryInv, Served, Sound, EnabledTyped

\* A step that leaves the clock and the answer of listActivePolicies alone.
LEMMA RegistryMoves ==
  ASSUME RegistryInv, UNCHANGED <<now, served>>, Sound(registry', now)
  PROVE  RegistryInv'
<1>1. Sound(registry, now)'
  OBVIOUS
<1> QED BY <1>1 DEF RegistryInv, Served

-----------------------------------------------------------------------------
(***************************************************************************)
(* Every step preserves it.                                                *)
(***************************************************************************)
LEMMA GeneratePreserves ==
  ASSUME Inv, NEW m \in Merchants, NEW t \in Templates, NEW i \in ProposalIds,
         NEW d \in DraftIds, Generate(m, t, i, d)
  PROVE  Inv'
<1> DEFINE spec == TemplateSpec[t]
           new == CreateDraft(registry, m, d, spec)
           p == [merchantId |-> m, template |-> t, status |-> "PENDING", draftId |-> d,
                 approvalId |-> NoApproval, policyId |-> NoPolicy,
                 evaluatedAt |-> NeverEvaluated]
<1>1. /\ i \notin DOMAIN proposals /\ d \notin DOMAIN registry.drafts
      /\ registry' = new /\ proposals' = Put(proposals, i, p)
      /\ SetStatus(m, t, "PENDING_APPROVAL") /\ UNCHANGED <<now, served, enabled>>
  BY DEF Generate
<1>2. spec \in Specs /\ Sound(registry, now) /\ now \in Nat /\ Consistent(proposals, registry)
  BY ProposalAssumption DEF Inv, RegistryInv
<1> HIDE DEF spec
<1>3. Sound(new, now) /\ Keeps(registry, new) /\ d \in DOMAIN new.drafts
  BY <1>1, <1>2, CreateSound
<1>4. p \in Proposal
  BY DEF Proposal, ProposalStatus
<1> HIDE DEF new
<1>5. Linked(p, new) /\ p.status # "PUBLISHED"
  BY <1>3 DEF Linked
<1>6. /\ DOMAIN proposals' = DOMAIN proposals \cup {i} /\ proposals'[i] = p
      /\ \A j \in DOMAIN proposals \ {i} : proposals'[j] = proposals[j]
  BY <1>1 DEF Put
<1> HIDE DEF p
<1>7. Consistent(proposals, new)
  BY <1>2, <1>3, ConsistentKept
<1>8. Consistent(proposals', new)
  BY <1>3, <1>4, <1>5, <1>6, <1>7, ProposalChanges
<1>9. Consistent(proposals, registry)' /\ RegistryInv'
  BY <1>1, <1>3, <1>8, RegistryMoves DEF Inv
<1>10. Strategies(strategies)'
  BY <1>1, SetStatusTyped DEF Inv
<1> QED BY <1>1, <1>9, <1>10 DEF Inv, EnabledTyped

LEMMA EvaluatePreserves ==
  ASSUME Inv, NEW i \in ProposalIds, Evaluate(i)
  PROVE  Inv'
<1>1. PICK at \in EvaluationTimes(proposals[i]) : proposals' = [proposals EXCEPT ![i].evaluatedAt = at]
  BY DEF Evaluate
<1>2. i \in DOMAIN proposals /\ UNCHANGED <<now, registry, served, strategies, enabled>>
  BY DEF Evaluate
<1> DEFINE p == [proposals[i] EXCEPT !.evaluatedAt = at]
<1>3. proposals[i] \in Proposal /\ Linked(proposals[i], registry)
  BY <1>2 DEF Inv, Consistent, TableOf
<1>4. at \in Nat
  BY <1>1, <1>3 DEF EvaluationTimes, Proposal, Inv, RegistryInv
<1>5. /\ p \in Proposal /\ p.status = proposals[i].status /\ p.policyId = proposals[i].policyId
      /\ Linked(p, registry)
  BY <1>3, <1>4 DEF Proposal, Linked
<1>6. /\ DOMAIN proposals' = DOMAIN proposals \cup {i} /\ proposals'[i] = p
      /\ \A j \in DOMAIN proposals \ {i} : proposals'[j] = proposals[j]
  BY <1>1, <1>2
<1> HIDE DEF p
<1>7. p.status = "PUBLISHED" => \A j \in DOMAIN proposals \ {i} : proposals[j].policyId # p.policyId
  BY <1>2, <1>5 DEF Inv, Consistent, Distinct
<1>8. Consistent(proposals', registry)
  BY <1>5, <1>6, <1>7, ProposalChanges DEF Inv, RegistryInv
<1> QED BY <1>2, <1>8 DEF Inv, RegistryInv, Served, EnabledTyped

LEMMA RejectPreserves ==
  ASSUME Inv, NEW i \in ProposalIds, Reject(i)
  PROVE  Inv'
<1> DEFINE p == [proposals[i] EXCEPT !.status = "REJECTED"]
<1>1. /\ i \in DOMAIN proposals /\ proposals[i].status \in {"PENDING", "APPROVED"}
      /\ proposals' = [proposals EXCEPT ![i].status = "REJECTED"]
      /\ SetStatus(proposals[i].merchantId, proposals[i].template, "REJECTED")
      /\ UNCHANGED <<now, registry, served, enabled>>
  BY DEF Reject, Rejectable
<1>2. proposals[i] \in Proposal /\ Linked(proposals[i], registry)
  BY <1>1 DEF Inv, Consistent, TableOf
<1>3. p \in Proposal /\ p.status # "PUBLISHED" /\ Linked(p, registry)
  BY <1>1, <1>2 DEF Proposal, ProposalStatus, Linked
<1>4. /\ DOMAIN proposals' = DOMAIN proposals \cup {i} /\ proposals'[i] = p
      /\ \A j \in DOMAIN proposals \ {i} : proposals'[j] = proposals[j]
  BY <1>1
<1> HIDE DEF p
<1>5. Consistent(proposals', registry)
  BY <1>3, <1>4, ProposalChanges DEF Inv, RegistryInv
<1>6. proposals[i].merchantId \in Merchants /\ proposals[i].template \in Templates
  BY <1>2 DEF Proposal
<1>7. Strategies(strategies')
  BY <1>1, <1>6, SetStatusTyped DEF Inv
<1> QED BY <1>1, <1>5, <1>7 DEF Inv, RegistryInv, Served, EnabledTyped

LEMMA EnableAgainPreserves ==
  ASSUME Inv, NEW m \in Merchants, NEW t \in Templates, EnableAgain(m, t)
  PROVE  Inv'
<1>1. PICK p \in PublishedOf(registry, m, t) :
        /\ enabled' = [merchantId |-> m, template |-> t, policyId |-> p, already |-> TRUE]
        /\ IF t = RevenueTemplate THEN UNCHANGED strategies ELSE SetActive(m, t, p)
  BY DEF EnableAgain
<1>2. UNCHANGED <<now, registry, served, proposals>>
  BY DEF EnableAgain
<1>3. p \in PolicyIds
  BY <1>1 DEF PublishedOf, Inv, RegistryInv, Sound, Types, TableOf
<1>4. Strategies(strategies')
  BY <1>1, <1>3, SetActiveTyped DEF Inv
<1> QED BY <1>1, <1>2, <1>3, <1>4 DEF Inv, RegistryInv, Served, EnabledTyped

\* Enable and SetRevenueConfig, but for the answer.
LEMMA SupersedePreserves ==
  ASSUME Inv, NEW m \in Merchants, NEW t \in Templates, NEW d \in DraftIds,
         NEW a \in ApprovalIds, d \notin DOMAIN registry.drafts, a \notin DOMAIN registry.approvals,
         PublishAndSupersede(m, t, d, a), UNCHANGED <<now, served, proposals>>
  PROVE  /\ RegistryInv' /\ Consistent(proposals, registry)' /\ Strategies(strategies)'
         /\ registry'.drafts[d].policyId \in PolicyIds
         /\ PublishedOf(registry', m, t) = {registry'.drafts[d].policyId}
<1> DEFINE p == registry'.drafts[d].policyId
<1>1. /\ Sound(registry', now) /\ Keeps(registry, registry')
      /\ p \in PolicyIds /\ PublishedOf(registry', m, t) = {p}
      /\ SetActive(m, t, p)
  BY SupersedeSound DEF Inv, RegistryInv
<1> HIDE DEF p
<1>2. Strategies(strategies')
  BY <1>1, SetActiveTyped DEF Inv
<1>3. Consistent(proposals, registry')
  BY <1>1, ConsistentKept DEF Inv
<1>4. RegistryInv'
  BY <1>1, RegistryMoves DEF Inv
<1> QED BY <1>1, <1>2, <1>3, <1>4 DEF p

LEMMA EnablePreserves ==
  ASSUME Inv, NEW m \in Merchants, NEW t \in Templates, NEW d \in DraftIds,
         NEW a \in ApprovalIds, Enable(m, t, d, a)
  PROVE  Inv' /\ PublishedOf(registry', m, t) = {enabled'.policyId}
<1>1. /\ d \notin DOMAIN registry.drafts /\ a \notin DOMAIN registry.approvals
      /\ PublishAndSupersede(m, t, d, a)
      /\ enabled' = [merchantId |-> m, template |-> t, already |-> FALSE,
                     policyId |-> registry'.drafts[d].policyId]
      /\ UNCHANGED <<now, served, proposals>>
  BY DEF Enable
<1>2. /\ RegistryInv' /\ Consistent(proposals, registry)' /\ Strategies(strategies)'
      /\ registry'.drafts[d].policyId \in PolicyIds
      /\ PublishedOf(registry', m, t) = {registry'.drafts[d].policyId}
  BY <1>1, SupersedePreserves
<1>3. EnabledTyped'
  BY <1>1, <1>2 DEF EnabledTyped
<1> QED BY <1>1, <1>2, <1>3 DEF Inv

LEMMA SetRevenueConfigPreserves ==
  ASSUME Inv, NEW m \in Merchants, NEW d \in DraftIds, NEW a \in ApprovalIds,
         SetRevenueConfig(m, d, a)
  PROVE  Inv'
<1>1. /\ RevenueTemplate \in Templates
      /\ d \notin DOMAIN registry.drafts /\ a \notin DOMAIN registry.approvals
      /\ PublishAndSupersede(m, RevenueTemplate, d, a)
      /\ UNCHANGED <<now, served, proposals, enabled>>
  BY DEF SetRevenueConfig
<1>2. RegistryInv' /\ Consistent(proposals, registry)' /\ Strategies(strategies)'
  BY <1>1, SupersedePreserves
<1> QED BY <1>1, <1>2 DEF Inv, EnabledTyped

\* The three outcomes of a decision to approve: already published by other hands, not
\* publishable, published.
LEMMA DecideApprovePreserves ==
  ASSUME Inv, NEW i \in ProposalIds, NEW a \in ApprovalIds, DecideApprove(i, a)
  PROVE  Inv'
<1> DEFINE old == proposals[i]
           reg == IF old.status = "PENDING" THEN ApprovedRegistry(registry, old.draftId, a)
                                            ELSE registry
<1>1. PICK at \in EvaluationTimes(proposals[i]) :
        LET p == ApprovedProposal(old, reg, at)
        IN  IF CannotApprove(old)
            THEN /\ proposals' = [proposals EXCEPT ![i].evaluatedAt = at]
                 /\ UNCHANGED <<registry, strategies>>
            ELSE IF ~Publishable(p, reg)
            THEN /\ proposals' = [proposals EXCEPT ![i] = p]
                 /\ registry' = reg
                 /\ IF old.status = "PENDING" THEN SetStatus(p.merchantId, p.template, "APPROVED")
                                              ELSE UNCHANGED strategies
            ELSE /\ proposals' = [proposals EXCEPT
                      ![i] = [p EXCEPT !.status = "PUBLISHED",
                                       !.policyId = NextPolicyId(reg, p.draftId)]]
                 /\ registry' = PublishDraft(UseApproval(reg, p.approvalId), p.draftId, now)
                 /\ SetActive(p.merchantId, p.template, NextPolicyId(reg, p.draftId))
  BY DEF DecideApprove
<1>2. /\ i \in DOMAIN proposals /\ old.status \in {"PENDING", "APPROVED"}
      /\ a \notin DOMAIN registry.approvals /\ UNCHANGED <<now, served, enabled>>
  BY DEF DecideApprove
<1>3. /\ Sound(registry, now) /\ now \in Nat /\ Consistent(proposals, registry)
      /\ old \in Proposal /\ Linked(old, registry)
  BY <1>2 DEF Inv, RegistryInv, Consistent, TableOf
<1>4. at \in Nat
  BY <1>1, <1>3 DEF EvaluationTimes, Proposal
<1>5. Sound(reg, now) /\ Keeps(registry, reg) /\ reg.policies = registry.policies
  <2>1. old.draftId \in DOMAIN registry.drafts
    BY <1>3 DEF Linked
  <2>2. LET new == ApprovedRegistry(registry, old.draftId, a)
        IN  Sound(new, now) /\ Keeps(registry, new) /\ new.policies = registry.policies
    BY <1>2, <1>3, <2>1, ApprovedSound
  <2> QED BY <1>3, <2>2, KeepsSame
<1> HIDE DEF reg
<1> DEFINE p == ApprovedProposal(old, reg, at)
<1>6. Linked(old, reg) /\ Consistent(proposals, reg)
  <2>1. Consistent(proposals, reg)
    BY <1>3, <1>5, ConsistentKept
  <2> QED BY <1>2, <2>1 DEF Consistent
<1>7. /\ p \in Proposal /\ p.status \in {"PENDING", "APPROVED"} /\ p.draftId = old.draftId
      /\ p.merchantId = old.merchantId /\ p.template = old.template /\ p.policyId = NoPolicy
  <2>1. CASE old.status = "PENDING"
    <3>1. reg.drafts[old.draftId] \in Draft
      BY <1>5, <1>6 DEF Sound, Types, TableOf, Linked
    <3>2. reg.drafts[old.draftId].approvalId \in ApprovalIds \cup {NoApproval}
      BY <3>1 DEF Draft
    <3> DEFINE approval == reg.drafts[old.draftId].approvalId
    <3>3. p = [old EXCEPT !.status = "APPROVED", !.approvalId = approval, !.policyId = NoPolicy,
                          !.evaluatedAt = at]
      BY <2>1 DEF ApprovedProposal
    <3> HIDE DEF p, approval
    <3> QED BY <1>3, <1>4, <3>2, <3>3 DEF Proposal, ProposalStatus, approval
  <2>2. CASE old.status # "PENDING"
    <3>1. p = [old EXCEPT !.evaluatedAt = at]
      BY <2>2 DEF ApprovedProposal
    <3>2. old.policyId = NoPolicy
      BY <1>2, <1>3 DEF Linked
    <3> HIDE DEF p
    <3> QED BY <1>2, <1>3, <1>4, <3>1, <3>2 DEF Proposal
  <2> QED BY <2>1, <2>2
<1>8. p.merchantId \in Merchants /\ p.template \in Templates
  BY <1>7 DEF Proposal
<1>9. CASE CannotApprove(old)
  <2> DEFINE q == [old EXCEPT !.evaluatedAt = at]
  <2>1. proposals' = [proposals EXCEPT ![i].evaluatedAt = at] /\ UNCHANGED <<registry, strategies>>
    BY <1>1, <1>9
  <2>2. q \in Proposal /\ Linked(q, registry) /\ q.status # "PUBLISHED"
    BY <1>2, <1>3, <1>4 DEF Proposal, Linked
  <2>3. /\ DOMAIN proposals' = DOMAIN proposals \cup {i} /\ proposals'[i] = q
        /\ \A j \in DOMAIN proposals \ {i} : proposals'[j] = proposals[j]
    BY <1>2, <2>1
  <2> HIDE DEF q
  <2>4. Consistent(proposals', registry)
    BY <1>3, <2>2, <2>3, ProposalChanges
  <2> QED BY <1>2, <2>1, <2>4 DEF Inv, RegistryInv, Served, EnabledTyped
<1>10. CASE ~CannotApprove(old) /\ ~Publishable(p, reg)
  <2>1. /\ proposals' = [proposals EXCEPT ![i] = p] /\ registry' = reg
        /\ IF old.status = "PENDING" THEN SetStatus(p.merchantId, p.template, "APPROVED")
                                     ELSE UNCHANGED strategies
    BY <1>1, <1>10
  <2>2. p.status # "PUBLISHED" /\ Linked(p, reg)
    BY <1>6, <1>7 DEF Linked
  <2>3. /\ DOMAIN proposals' = DOMAIN proposals \cup {i} /\ proposals'[i] = p
        /\ \A j \in DOMAIN proposals \ {i} : proposals'[j] = proposals[j]
    BY <1>2, <2>1
  <2> HIDE DEF p, old
  <2>4. Consistent(proposals', reg)
    BY <1>5, <1>6, <1>7, <2>2, <2>3, ProposalChanges
  <2>5. Strategies(strategies')
    BY <1>8, <2>1, SetStatusTyped DEF Inv
  <2>6. RegistryInv'
    BY <1>2, <1>5, <2>1, RegistryMoves DEF Inv
  <2> QED BY <1>2, <2>1, <2>4, <2>5, <2>6 DEF Inv, EnabledTyped
<1>11. CASE ~CannotApprove(old) /\ Publishable(p, reg)
  <2> DEFINE id == NextPolicyId(reg, p.draftId)
             q == [p EXCEPT !.status = "PUBLISHED", !.policyId = id]
             new == PublishDraft(UseApproval(reg, p.approvalId), p.draftId, now)
  <2>1. /\ proposals' = [proposals EXCEPT ![i] = q] /\ registry' = new
        /\ SetActive(p.merchantId, p.template, id)
    BY <1>1, <1>11
  <2>2. /\ CanPublish(reg, p.merchantId, p.draftId)
        /\ ApprovalServes(reg, p.merchantId, p.draftId, p.approvalId, now)
    BY <1>11 DEF Publishable
  <2>3. /\ Sound(new, now) /\ Keeps(reg, new)
        /\ id \in PolicyIds /\ id \notin DOMAIN reg.policies
        /\ DOMAIN new.policies = DOMAIN reg.policies \cup {id}
        /\ new.policies[id].merchantId = p.merchantId
        /\ new.policies[id].draftId = p.draftId
        /\ p.approvalId \in DOMAIN new.approvals
        /\ new.approvals[p.approvalId].draftId = p.draftId
        /\ new.approvals[p.approvalId].status = "PUBLISHED"
    <3> HIDE DEF p
    <3> QED BY <1>3, <1>5, <2>2, UseThenPublish
  <2> HIDE DEF id, new
  <2>4. p.draftId \in DOMAIN new.drafts
    BY <1>6, <1>7, <2>3 DEF Linked, Keeps
  <2>5. /\ DOMAIN proposals' = DOMAIN proposals \cup {i} /\ proposals'[i] = q
        /\ \A j \in DOMAIN proposals \ {i} : proposals'[j] = proposals[j]
    BY <1>2, <2>1
  <2> HIDE DEF p, old
  <2>6. /\ q \in Proposal /\ q.status = "PUBLISHED" /\ q.policyId = id
        /\ q.draftId = p.draftId /\ q.merchantId = p.merchantId /\ q.approvalId = p.approvalId
    BY <1>7, <2>3 DEF Proposal, ProposalStatus
  <2> HIDE DEF q
  <2>7. Linked(q, new)
    BY <2>3, <2>4, <2>6 DEF Linked
  <2>8. \A j \in DOMAIN proposals : proposals[j].policyId # id
    BY <1>5, <1>6, <2>3, NewIsUnnamed
  <2>9. Consistent(proposals, new)
    BY <1>6, <2>3, ConsistentKept
  <2>10. Consistent(proposals', new)
    BY <2>3, <2>5, <2>6, <2>7, <2>8, <2>9, ProposalChanges
  <2>11. Strategies(strategies')
    BY <1>8, <2>1, <2>3, SetActiveTyped DEF Inv
  <2>12. RegistryInv'
    BY <1>2, <2>1, <2>3, RegistryMoves DEF Inv
  <2> QED BY <1>2, <2>1, <2>10, <2>11, <2>12 DEF Inv, EnabledTyped
<1> QED BY <1>9, <1>10, <1>11

LEMMA RegistryStepPreserves ==
  ASSUME Inv, RegistryStep
  PROVE  Inv'
<1>1. RegistryInv' /\ Keeps(registry, registry')
  BY RegistryStepSound DEF Inv
<1>2. UNCHANGED <<proposals, strategies, enabled>>
  BY DEF RegistryStep
<1>3. Consistent(proposals, registry')
  BY <1>1, ConsistentKept DEF Inv
<1> QED BY <1>1, <1>2, <1>3 DEF Inv, EnabledTyped

LEMMA InvNext == Inv /\ [Next]_vars => Inv'
<1> SUFFICES ASSUME Inv, [Next]_vars PROVE Inv'
  OBVIOUS
<1>1. ASSUME NEW m \in Merchants, NEW t \in Templates, NEW i \in ProposalIds, NEW d \in DraftIds,
             Generate(m, t, i, d)
      PROVE  Inv'
  BY <1>1, GeneratePreserves
<1>2. ASSUME NEW m \in Merchants, NEW t \in Templates, NEW d \in DraftIds, NEW a \in ApprovalIds,
             Enable(m, t, d, a)
      PROVE  Inv'
  BY <1>2, EnablePreserves
<1>3. ASSUME NEW m \in Merchants, NEW d \in DraftIds, NEW a \in ApprovalIds,
             SetRevenueConfig(m, d, a)
      PROVE  Inv'
  BY <1>3, SetRevenueConfigPreserves
<1>4. ASSUME NEW m \in Merchants, NEW t \in Templates, EnableAgain(m, t)
      PROVE  Inv'
  BY <1>4, EnableAgainPreserves
<1>5. ASSUME NEW i \in ProposalIds, Evaluate(i)
      PROVE  Inv'
  BY <1>5, EvaluatePreserves
<1>6. ASSUME NEW i \in ProposalIds, Reject(i)
      PROVE  Inv'
  BY <1>6, RejectPreserves
<1>7. ASSUME NEW i \in ProposalIds, NEW a \in ApprovalIds, DecideApprove(i, a)
      PROVE  Inv'
  BY <1>7, DecideApprovePreserves
<1>8. CASE RegistryStep
  BY <1>8, RegistryStepPreserves
<1>9. CASE UNCHANGED vars
  BY <1>9 DEF vars, Inv, RegistryInv, Served, EnabledTyped
<1> QED BY <1>1, <1>2, <1>3, <1>4, <1>5, <1>6, <1>7, <1>8, <1>9 DEF Next

LEMMA Invariance == Spec => []Inv
BY InvInit, InvNext, PTL DEF Spec

-----------------------------------------------------------------------------
(***************************************************************************)
(* The theorems.                                                           *)
(***************************************************************************)
\* Whatever the proposals, the owner's routes, the strategy library and time do one
\* after the other: records keep their types, a merchant's list is exactly its
\* PUBLISHED policies, every policy was made under an approval of its own draft that was
\* alive, and a PUBLISHED proposal names the policy of its own draft and nobody else's.
THEOREM ProposalInvariantHolds == Spec => []ProposalInvariant
BY Invariance, InvInvariant, PTL

\* Neither a publication nor a rejection of a proposal is ever taken back.
THEOREM DecisionsFinalHolds == Spec => DecisionsFinal
<1> DEFINE Final ==
      \A i \in DOMAIN proposals :
        /\ i \in DOMAIN proposals'
        /\ proposals[i].status \in {"PUBLISHED", "REJECTED"} => proposals'[i] = proposals[i]
<1>1. ASSUME [Next]_vars
      PROVE  Final
  <2>1. ASSUME NEW m \in Merchants, NEW t \in Templates, NEW i \in ProposalIds,
               NEW d \in DraftIds, Generate(m, t, i, d)
        PROVE  Final
    BY <2>1 DEF Generate, Put
  <2>2. ASSUME NEW m \in Merchants, NEW t \in Templates, NEW d \in DraftIds, NEW a \in ApprovalIds,
               Enable(m, t, d, a)
        PROVE  Final
    BY <2>2 DEF Enable
  <2>3. ASSUME NEW m \in Merchants, NEW d \in DraftIds, NEW a \in ApprovalIds,
               SetRevenueConfig(m, d, a)
        PROVE  Final
    BY <2>3 DEF SetRevenueConfig
  <2>4. ASSUME NEW m \in Merchants, NEW t \in Templates, EnableAgain(m, t)
        PROVE  Final
    BY <2>4 DEF EnableAgain
  <2>5. ASSUME NEW i \in ProposalIds, Evaluate(i)
        PROVE  Final
    BY <2>5 DEF Evaluate
  <2>6. ASSUME NEW i \in ProposalIds, Reject(i)
        PROVE  Final
    BY <2>6 DEF Reject, Rejectable
  <2>7. ASSUME NEW i \in ProposalIds, NEW a \in ApprovalIds, DecideApprove(i, a)
        PROVE  Final
    <3>1. /\ proposals[i].status \in {"PENDING", "APPROVED"}
          /\ DOMAIN proposals' = DOMAIN proposals
          /\ \A j \in DOMAIN proposals \ {i} : proposals'[j] = proposals[j]
      BY <2>7 DEF DecideApprove
    <3> QED BY <3>1
  <2>8. CASE RegistryStep
    BY <2>8 DEF RegistryStep
  <2>9. CASE UNCHANGED vars
    BY <2>9 DEF vars
  <2> QED BY <1>1, <2>1, <2>2, <2>3, <2>4, <2>5, <2>6, <2>7, <2>8, <2>9 DEF Next
<1>2. [Next]_vars => [Final]_vars
  BY <1>1
<1> QED BY <1>2, PTL DEF Spec, DecisionsFinal

\* What an owner's decision publishes was evaluated within the cache's age: an old
\* evaluation is made anew, never published on.
THEOREM PublishedOnFreshEvaluationHolds == Spec => PublishedOnFreshEvaluation
<1> DEFINE Fresh ==
      \A i \in DOMAIN proposals :
        proposals[i].status # "PUBLISHED" /\ proposals'[i].status = "PUBLISHED" =>
          /\ proposals'[i].evaluatedAt # NeverEvaluated
          /\ now - proposals'[i].evaluatedAt <= EvaluationMaxAge
<1>1. ASSUME Inv, [Next]_vars
      PROVE  Fresh
  <2>1. ASSUME NEW m \in Merchants, NEW t \in Templates, NEW i \in ProposalIds,
               NEW d \in DraftIds, Generate(m, t, i, d)
        PROVE  Fresh
    BY <2>1 DEF Generate, Put
  <2>2. ASSUME UNCHANGED proposals
        PROVE  Fresh
    BY <2>2
  <2>3. ASSUME NEW i \in ProposalIds, Evaluate(i) \/ Reject(i)
        PROVE  Fresh
    <3> SUFFICES ASSUME NEW j \in DOMAIN proposals, proposals'[j].status = "PUBLISHED"
                 PROVE  proposals[j].status = "PUBLISHED"
      OBVIOUS
    <3>1. proposals[j] \in Proposal
      BY <1>1 DEF Inv, Consistent, TableOf
    <3> QED BY <2>3, <3>1 DEF Evaluate, Reject, Proposal
  <2>4. ASSUME NEW i \in ProposalIds, NEW a \in ApprovalIds, DecideApprove(i, a)
        PROVE  Fresh
    <3> SUFFICES ASSUME NEW j \in DOMAIN proposals, proposals[j].status # "PUBLISHED",
                        proposals'[j].status = "PUBLISHED"
                 PROVE  /\ proposals'[j].evaluatedAt # NeverEvaluated
                        /\ now - proposals'[j].evaluatedAt <= EvaluationMaxAge
      OBVIOUS
    <3> DEFINE old == proposals[i]
               reg == IF old.status = "PENDING" THEN ApprovedRegistry(registry, old.draftId, a)
                                                ELSE registry
               Published(p) == [p EXCEPT !.status = "PUBLISHED",
                                         !.policyId = NextPolicyId(reg, p.draftId)]
    <3>1. PICK at \in EvaluationTimes(old) :
            \/ proposals' = [proposals EXCEPT ![i].evaluatedAt = at]
            \/ proposals' = [proposals EXCEPT ![i] = ApprovedProposal(old, reg, at)]
            \/ proposals' = [proposals EXCEPT ![i] = Published(ApprovedProposal(old, reg, at))]
      BY <2>4 DEF DecideApprove
    <3>2. i \in DOMAIN proposals /\ old.status \in {"PENDING", "APPROVED"}
      BY <2>4 DEF DecideApprove
    <3>3. old \in Proposal /\ now \in Nat
      BY <1>1, <3>2 DEF Inv, RegistryInv, Consistent, TableOf
    <3>4. at \in Nat /\ now - at <= EvaluationMaxAge
      BY <3>1, <3>3, ProposalAssumption DEF EvaluationTimes, Proposal
    <3> HIDE DEF reg
    <3>5. /\ [old EXCEPT !.evaluatedAt = at].evaluatedAt = at
          /\ ApprovedProposal(old, reg, at).evaluatedAt = at
          /\ Published(ApprovedProposal(old, reg, at)).evaluatedAt = at
      BY <3>3 DEF ApprovedProposal, Proposal
    <3> HIDE DEF Published
    <3>6. j = i
      BY <3>1
    <3>7. proposals'[i].evaluatedAt = at
      BY <3>1, <3>2, <3>5
    <3> QED BY <3>4, <3>6, <3>7, ProposalAssumption
  <2> QED
    BY <1>1, <2>1, <2>2, <2>3, <2>4
       DEF Next, Enable, SetRevenueConfig, EnableAgain, RegistryStep, vars
<1>2. Inv /\ [Next]_vars => [Fresh]_vars
  BY <1>1
<1> QED BY <1>2, Invariance, PTL DEF Spec, PublishedOnFreshEvaluation

\* When the strategy library answers that it published a template, the policy it answers
\* is the only one of the merchant and template that is PUBLISHED, whoever published
\* the others.
THEOREM EnabledAloneHolds == Spec => EnabledAlone
<1> DEFINE Alone ==
      enabled' # enabled /\ ~enabled'.already =>
        PublishedOf(registry', enabled'.merchantId, enabled'.template) = {enabled'.policyId}
<1>1. ASSUME Inv, [Next]_vars
      PROVE  Alone
  <2>1. ASSUME UNCHANGED enabled
        PROVE  Alone
    BY <2>1
  <2>2. ASSUME NEW m \in Merchants, NEW t \in Templates, NEW d \in DraftIds, NEW a \in ApprovalIds,
               Enable(m, t, d, a)
        PROVE  Alone
    <3>1. PublishedOf(registry', m, t) = {enabled'.policyId}
      BY <1>1, <2>2, EnablePreserves
    <3>2. enabled'.merchantId = m /\ enabled'.template = t
      BY <2>2 DEF Enable
    <3> QED BY <3>1, <3>2
  <2>3. ASSUME NEW m \in Merchants, NEW t \in Templates, EnableAgain(m, t)
        PROVE  Alone
    BY <2>3 DEF EnableAgain
  <2> QED
    BY <1>1, <2>1, <2>2, <2>3
       DEF Next, Generate, SetRevenueConfig, Evaluate, Reject, DecideApprove, RegistryStep, vars
<1>2. Inv /\ [Next]_vars => [Alone]_vars
  BY <1>1
<1> QED BY <1>2, Invariance, PTL DEF Spec, EnabledAlone
=============================================================================
