-------------------------- MODULE ProposalWorkflow --------------------------
(***************************************************************************)
(* services/merchantService.ts: proposals, from generation to decision,    *)
(* and the strategy library that enables templates directly, next to the   *)
(* owner's own routes on drafts and policies (PolicyRegistry).             *)
(*                                                                         *)
(* All of them work on one registry.  Each is a write of the merchant and  *)
(* holds the tenant lock throughout, so over the in-memory database it is  *)
(* one step; a handler that throws halfway keeps what it already wrote.    *)
(***************************************************************************)
EXTENDS PolicyRegistry

CONSTANTS
  Templates,        \* one usable branch each, with a policy key of its own
  TemplateSpec,     \* buildPolicySpecFromTemplate
  RevenueTemplate,  \* enabled through its configuration
  ProposalIds,
  EvaluationMaxAge, \* EVALUATION_CACHE_MAX_AGE_MS
  NeverEvaluated

ASSUME ProposalAssumption ==
  /\ TemplateSpec \in [Templates -> Specs]
  /\ \A s, t \in Templates : TemplateSpec[s].key = TemplateSpec[t].key => s = t
  /\ EvaluationMaxAge \in Nat
  /\ NeverEvaluated \notin Nat

VARIABLES                  \* and now, registry, served of PolicyRegistry
  proposals,               \* db.policyOs.proposalsByMerchant, by id
  strategies,              \* db.strategyConfigs[merchant][template]
  enabled                  \* the last answer of enableLifecycleStrategy

vars == <<now, registry, served, proposals, strategies, enabled>>

ProposalStatus == {"PENDING", "APPROVED", "PUBLISHED", "REJECTED"}

Proposal ==
  [merchantId : Merchants, template : Templates, status : ProposalStatus,
   draftId : DraftIds, approvalId : ApprovalIds \cup {NoApproval},
   policyId : PolicyIds \cup {NoPolicy}, evaluatedAt : Nat \cup {NeverEvaluated}]

\* setStrategyConfig's default is status DRAFT and no policy.
Strategy ==
  [status : {"DRAFT", "PENDING_APPROVAL", "APPROVED", "REJECTED", "ACTIVE"},
   lastPolicyId : PolicyIds \cup {NoPolicy}]

NotEnabled == [merchantId |-> "", template |-> "", policyId |-> NoPolicy, already |-> FALSE]

Init ==
  /\ RegistryInit
  /\ proposals = EmptyTable
  /\ strategies = [m \in Merchants |-> EmptyTable]
  /\ enabled = NotEnabled

-----------------------------------------------------------------------------
(***************************************************************************)
(* Strategy records.                                                       *)
(***************************************************************************)
StrategyOf(m, t) ==
  IF t \in DOMAIN strategies[m] THEN strategies[m][t]
  ELSE [status |-> "DRAFT", lastPolicyId |-> NoPolicy]

\* setStrategyConfig with a patch of the status only
SetStatus(m, t, status) ==
  strategies' = [strategies EXCEPT ![m] = Put(@, t, [StrategyOf(m, t) EXCEPT !.status = status])]

\* setStrategyConfig with the policy as well
SetActive(m, t, p) ==
  strategies' = [strategies EXCEPT ![m] = Put(@, t, [status |-> "ACTIVE", lastPolicyId |-> p])]

-----------------------------------------------------------------------------
(***************************************************************************)
(* Proposals.                                                              *)
(***************************************************************************)
Generate(m, t, i, d) ==
  /\ i \notin DOMAIN proposals
  /\ d \notin DOMAIN registry.drafts
  /\ registry' = CreateDraft(registry, m, d, TemplateSpec[t])
  /\ proposals' = Put(proposals, i,
       [merchantId |-> m, template |-> t, status |-> "PENDING", draftId |-> d,
        approvalId |-> NoApproval, policyId |-> NoPolicy, evaluatedAt |-> NeverEvaluated])
  /\ SetStatus(m, t, "PENDING_APPROVAL")
  /\ UNCHANGED <<now, served, enabled>>

\* Mutant: a cached evaluation is good for ever.
EvaluationTimesForever(p) == {now} \cup ({p.evaluatedAt} \ {NeverEvaluated})

\* A new evaluation, or, unless a refresh is forced or the event or user differ, the
\* cached one while it is fresh.
EvaluationTimes(p) ==
  {now} \cup {at \in {p.evaluatedAt} \ {NeverEvaluated} : now - at <= EvaluationMaxAge}

Evaluate(i) ==
  /\ i \in DOMAIN proposals
  /\ proposals[i].status \in {"PENDING", "APPROVED"}
  /\ \E at \in EvaluationTimes(proposals[i]) : proposals' = [proposals EXCEPT ![i].evaluatedAt = at]
  /\ UNCHANGED <<now, registry, served, strategies, enabled>>

\* Mutant: the published are not spared.
RejectableAny == ProposalStatus \ {"REJECTED"}

\* A rejected one is answered again, without a change.
Rejectable == {"PENDING", "APPROVED"}

Reject(i) ==
  /\ i \in DOMAIN proposals
  /\ proposals[i].status \in Rejectable
  /\ proposals' = [proposals EXCEPT ![i].status = "REJECTED"]
  /\ SetStatus(proposals[i].merchantId, proposals[i].template, "REJECTED")
  /\ UNCHANGED <<now, registry, served, enabled>>

-----------------------------------------------------------------------------
(***************************************************************************)
(* decideProposalReview with APPROVE evaluates, approves if still pending, *)
(* and publishes.                                                          *)
(***************************************************************************)
\* approveProposalPolicy: what is missing of submission and approval is made up for
ApprovedRegistry(reg, d, a) ==
  LET status == reg.drafts[d].status
  IN  CASE status \in {"DRAFT", "REJECTED"} -> ApproveDraft(SubmitDraft(reg, d), d, a, now)
        [] status = "SUBMITTED" -> ApproveDraft(reg, d, a, now)
        [] OTHER -> reg

\* The proposal as it stands before its draft is published.
ApprovedProposal(p, reg, at) ==
  IF p.status = "PENDING"
  THEN [p EXCEPT !.status = "APPROVED", !.approvalId = reg.drafts[p.draftId].approvalId,
                 !.policyId = NoPolicy, !.evaluatedAt = at]
  ELSE [p EXCEPT !.evaluatedAt = at]

\* "policy already published": only the evaluation is kept
CannotApprove(p) == p.status = "PENDING" /\ registry.drafts[p.draftId].status = "PUBLISHED"

\* Mutant: any policy of the draft will do, even one published by other hands.
PublishableOrPublished(p, reg) ==
  \/ CanPublish(reg, p.merchantId, p.draftId)
  \/ reg.drafts[p.draftId].status = "PUBLISHED"

\* publishDraft accepts the proposal's draft under the proposal's approval
Publishable(p, reg) ==
  /\ CanPublish(reg, p.merchantId, p.draftId)
  /\ ApprovalServes(reg, p.merchantId, p.draftId, p.approvalId, now)

DecideApprove(i, a) ==
  /\ i \in DOMAIN proposals
  /\ proposals[i].status \in {"PENDING", "APPROVED"}
  /\ a \notin DOMAIN registry.approvals
  /\ \E at \in EvaluationTimes(proposals[i]) :
       LET old == proposals[i]
           reg == IF old.status = "PENDING" THEN ApprovedRegistry(registry, old.draftId, a)
                                            ELSE registry
           p == ApprovedProposal(old, reg, at)
       IN  IF CannotApprove(old)
           THEN /\ proposals' = [proposals EXCEPT ![i].evaluatedAt = at]
                /\ UNCHANGED <<registry, strategies>>
           ELSE IF ~Publishable(p, reg)
           THEN /\ proposals' = [proposals EXCEPT ![i] = p]
                /\ registry' = reg
                /\ IF old.status = "PENDING" THEN SetStatus(p.merchantId, p.template, "APPROVED")
                                             ELSE UNCHANGED strategies
           ELSE LET id == NextPolicyId(reg, p.draftId)
                IN  /\ proposals' = [proposals EXCEPT
                         ![i] = [p EXCEPT !.status = "PUBLISHED", !.policyId = id]]
                    /\ registry' = PublishDraft(UseApproval(reg, p.approvalId), p.draftId, now)
                    /\ SetActive(p.merchantId, p.template, id)
  /\ UNCHANGED <<now, served, enabled>>

-----------------------------------------------------------------------------
(***************************************************************************)
(* The strategy library.                                                   *)
(***************************************************************************)
\* listPoliciesByTemplateId, those PUBLISHED by their record; no expiry is swept.  A
\* draft of the owner's routes names the template of its key or none.
PublishedOf(reg, m, t) ==
  {p \in DOMAIN reg.policies : PolicyIn(reg, m, p, "PUBLISHED") /\ p[1] = TemplateSpec[t].key}

PublishAtOnce(m, t, d, a) ==
  LET created == SubmitDraft(CreateDraft(registry, m, d, TemplateSpec[t]), d)
  IN  PublishDraft(UseApproval(ApproveDraft(created, d, a, now), a), d, now)

\* Mutant: only the policy the strategy record names is stale.
StaleOfRecord(reg, m, t, p) == ({StrategyOf(m, t).lastPolicyId} \cap PublishedOf(reg, m, t)) \ {p}

Stale(reg, m, t, p) == PublishedOf(reg, m, t) \ {p}

PauseAll(reg, m, ps) ==
  [SetPolicyStatus(reg, ps, "PAUSED") EXCEPT !.publishedByMerchant[m] = @ \ ps]

\* enableLifecycleStrategy when it publishes, and setRevenueStrategyConfig
PublishAndSupersede(m, t, d, a) ==
  LET reg == PublishAtOnce(m, t, d, a)
      p == reg.drafts[d].policyId
  IN  /\ registry' = PauseAll(reg, m, Stale(reg, m, t, p))
      /\ SetActive(m, t, p)

\* No record counts as ACTIVE.
AlreadyEnabled(m, t) ==
  /\ PublishedOf(registry, m, t) # {}
  /\ t \in DOMAIN strategies[m] => strategies[m][t].status = "ACTIVE"

\* The policy answered is the last updated of those published: one of them.
EnableAgain(m, t) ==
  /\ AlreadyEnabled(m, t)
  /\ \E p \in PublishedOf(registry, m, t) :
       /\ enabled' = [merchantId |-> m, template |-> t, policyId |-> p, already |-> TRUE]
       /\ IF t = RevenueTemplate THEN UNCHANGED strategies ELSE SetActive(m, t, p)
  /\ UNCHANGED <<now, registry, served, proposals>>

Enable(m, t, d, a) ==
  /\ ~AlreadyEnabled(m, t)
  /\ d \notin DOMAIN registry.drafts
  /\ a \notin DOMAIN registry.approvals
  /\ PublishAndSupersede(m, t, d, a)
  /\ enabled' = [merchantId |-> m, template |-> t, already |-> FALSE,
                 policyId |-> registry'.drafts[d].policyId]
  /\ UNCHANGED <<now, served, proposals>>

SetRevenueConfig(m, d, a) ==
  /\ RevenueTemplate \in Templates
  /\ d \notin DOMAIN registry.drafts
  /\ a \notin DOMAIN registry.approvals
  /\ PublishAndSupersede(m, RevenueTemplate, d, a)
  /\ UNCHANGED <<now, served, proposals, enabled>>

-----------------------------------------------------------------------------
\* The owner's routes on drafts and policies, the events, and time.
DraftRoutes(m, d) ==
  \/ Submit(m, d)
  \/ \E a \in ApprovalIds :
       Approve(m, d, a) \/ PublishByApproval(m, d, a) \/ PublishByToken(m, d, a)

PolicyRoutes(m) ==
  \/ \E p \in DOMAIN registry.policies : Pause(m, p) \/ Resume(m, p)
  \/ ListActive(m)

RegistryStep ==
  /\ \/ \E m \in Merchants :
          \/ \E d \in DraftIds : DraftRoutes(m, d) \/ \E s \in Specs : Create(m, d, s)
          \/ PolicyRoutes(m)
     \/ Tick
  /\ UNCHANGED <<proposals, strategies, enabled>>

Next ==
  \/ \E m \in Merchants, d \in DraftIds :
       \/ \E t \in Templates, i \in ProposalIds : Generate(m, t, i, d)
       \/ \E t \in Templates, a \in ApprovalIds : Enable(m, t, d, a)
       \/ \E a \in ApprovalIds : SetRevenueConfig(m, d, a)
  \/ \E m \in Merchants, t \in Templates : EnableAgain(m, t)
  \/ \E i \in ProposalIds :
       \/ Evaluate(i)
       \/ Reject(i)
       \/ \E a \in ApprovalIds : DecideApprove(i, a)
  \/ RegistryStep

Spec == Init /\ [][Next]_vars

-----------------------------------------------------------------------------
(***************************************************************************)
(* Properties.                                                             *)
(***************************************************************************)
\* Types: proposals, strategy records and answers are records of their kinds.
TypeOK ==
  /\ RegistryTypeOK
  /\ TableOf(proposals, ProposalIds, Proposal)
  /\ DOMAIN strategies = Merchants
  /\ \A m \in Merchants : TableOf(strategies[m], Templates, Strategy)
  /\ enabled = NotEnabled \/
     enabled \in [merchantId : Merchants, template : Templates, policyId : PolicyIds,
                  already : BOOLEAN]

\* The handlers that chain registry operations and edit lists themselves leave the
\* lists exact and every policy approved, as the routes do one by one.
RegistryKept == ListsAreExact /\ PoliciesApproved

\* A PUBLISHED proposal names the policy made of its own draft, under the approval
\* the proposal names, used up; two proposals never claim one policy.
PublishedProposalsExact ==
  \A i \in DOMAIN proposals : proposals[i].status = "PUBLISHED" =>
    LET p == proposals[i]
    IN  /\ p.policyId \in DOMAIN registry.policies
        /\ registry.policies[p.policyId].draftId = p.draftId
        /\ registry.policies[p.policyId].merchantId = p.merchantId
        /\ p.approvalId \in DOMAIN registry.approvals
        /\ registry.approvals[p.approvalId].draftId = p.draftId
        /\ registry.approvals[p.approvalId].status = "PUBLISHED"
        /\ \A j \in DOMAIN proposals \ {i} : proposals[j].policyId # p.policyId

\* The proposals and the registry they work on stay consistent with each other and in
\* themselves, however their handlers and the owner's routes alternate.
ProposalInvariant == TypeOK /\ RegistryKept /\ PublishedProposalsExact

\* A decision is final: neither a publication nor a rejection is taken back, by any
\* later evaluation, decision or route.
DecisionsFinal ==
  [][\A i \in DOMAIN proposals :
       /\ i \in DOMAIN proposals'
       /\ proposals[i].status \in {"PUBLISHED", "REJECTED"} => proposals'[i] = proposals[i]
    ]_vars

\* What is published on the owner's decision was evaluated within the cache's age.
PublishedOnFreshEvaluation ==
  [][\A i \in DOMAIN proposals :
       proposals[i].status # "PUBLISHED" /\ proposals'[i].status = "PUBLISHED" =>
         /\ proposals'[i].evaluatedAt # NeverEvaluated
         /\ now - proposals'[i].evaluatedAt <= EvaluationMaxAge
    ]_vars

\* docs: once a new version is enabled, the template's older published policies are
\* paused, whether enabling, configuring or a proposal published them.
EnabledAlone ==
  [][enabled' # enabled /\ ~enabled'.already =>
       PublishedOf(registry', enabled'.merchantId, enabled'.template) = {enabled'.policyId}
    ]_vars
=============================================================================
