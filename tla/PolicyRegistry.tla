--------------------------- MODULE PolicyRegistry ---------------------------
(***************************************************************************)
(* The registry in use: the owner's routes (http/routes/policyOsRoutes.ts) *)
(* apply its operations in any order, events ask it for the active         *)
(* policies, and time passes.  A call whose check fails throws before it   *)
(* changes anything, and is no step here.                                  *)
(***************************************************************************)
EXTENDS Registry

CONSTANT MaxNow      \* bound on the clock, for TLC

ASSUME MaxNowAssumption == MaxNow \in Nat

VARIABLES
  now,
  registry,          \* db.policyOs: drafts, approvals, policies, publishedByMerchant
  served             \* the last answer of listActivePolicies

registryVars == <<now, registry, served>>

Unserved == [policies |-> {}, at |-> 0]

RegistryInit ==
  /\ now = 0
  /\ registry = EmptyRegistry
  /\ served = Unserved

-----------------------------------------------------------------------------
Create(m, d, spec) ==
  /\ d \notin DOMAIN registry.drafts
  /\ registry' = CreateDraft(registry, m, d, spec)
  /\ UNCHANGED <<now, served>>

Submit(m, d) ==
  /\ CanSubmit(registry, m, d)
  /\ registry' = SubmitDraft(registry, d)
  /\ UNCHANGED <<now, served>>

Approve(m, d, a) ==
  /\ CanApprove(registry, m, d)
  /\ a \notin DOMAIN registry.approvals
  /\ registry' = ApproveDraft(registry, d, a, now)
  /\ UNCHANGED <<now, served>>

PublishByApproval(m, d, a) ==
  /\ CanPublish(registry, m, d)
  /\ ApprovalServes(registry, m, d, a, now)
  /\ registry' = PublishDraft(UseApproval(registry, a), d, now)
  /\ UNCHANGED <<now, served>>

PublishByToken(m, d, a) ==
  /\ CanPublish(registry, m, d)
  /\ TokenServes(registry, m, d, a, now)
  /\ registry' = PublishDraft(registry, d, now)
  /\ UNCHANGED <<now, served>>

Pause(m, p) ==
  /\ PolicyIn(registry, m, p, "PUBLISHED")
  /\ registry' = PausePolicy(registry, m, p)
  /\ UNCHANGED <<now, served>>

Resume(m, p) ==
  /\ PolicyIn(registry, m, p, "PAUSED")
  /\ registry' = ResumePolicy(registry, m, p, now)
  /\ UNCHANGED <<now, served>>

\* listActivePolicies, first thing in every evaluated event
ListActive(m) ==
  /\ registry' = ExpirePolicies(registry, m, now)
  /\ served' = [policies |-> registry'.publishedByMerchant[m], at |-> now]
  /\ UNCHANGED now

Tick ==
  /\ now < MaxNow
  /\ now' = now + 1
  /\ UNCHANGED <<registry, served>>

RegistryNext ==
  \/ \E m \in Merchants :
       \/ \E d \in DraftIds :
            \/ \E spec \in Specs : Create(m, d, spec)
            \/ Submit(m, d)
            \/ \E a \in ApprovalIds :
                 Approve(m, d, a) \/ PublishByApproval(m, d, a) \/ PublishByToken(m, d, a)
       \/ \E p \in DOMAIN registry.policies : Pause(m, p) \/ Resume(m, p)
       \/ ListActive(m)
  \/ Tick

RegistrySpec == RegistryInit /\ [][RegistryNext]_registryVars

-----------------------------------------------------------------------------
(***************************************************************************)
(* Properties.                                                             *)
(***************************************************************************)
TableOf(table, keys, records) ==
  DOMAIN table \subseteq keys /\ \A k \in DOMAIN table : table[k] \in records

\* Types: every record of the registry, and only ids of its own kinds.
RegistryTypeOK ==
  /\ now \in Nat
  /\ DOMAIN registry = {"drafts", "approvals", "policies", "publishedByMerchant"}
  /\ TableOf(registry.drafts, DraftIds, Draft)
  /\ TableOf(registry.approvals, ApprovalIds, Approval)
  /\ TableOf(registry.policies, PolicyIds, Policy)
  /\ registry.publishedByMerchant \in [Merchants -> SUBSET PolicyIds]
  /\ served \in [policies : SUBSET PolicyIds, at : Nat]

\* The list of a merchant's active policies, which pause, resume, publish and the
\* expiry each edit on their own, holds exactly its policies with status PUBLISHED.
ListsAreExact ==
  \A m \in Merchants :
    registry.publishedByMerchant[m] =
      {p \in DOMAIN registry.policies :
         /\ registry.policies[p].merchantId = m
         /\ registry.policies[p].status = "PUBLISHED"}

ApprovedFor(policy) ==
  \E a \in DOMAIN registry.approvals :
    /\ registry.approvals[a].draftId = policy.draftId
    /\ registry.approvals[a].merchantId = policy.merchantId
    /\ registry.approvals[a].approvedAt <= policy.publishedAt
    /\ policy.publishedAt <= registry.approvals[a].expiresAt

\* No policy without an approval of its own draft, alive when it was published, by
\* whichever of the two ways; and a draft is published once.
PoliciesApproved ==
  \A p \in DOMAIN registry.policies :
    LET policy == registry.policies[p]
    IN  /\ ApprovedFor(policy)
        /\ policy.draftId \in DOMAIN registry.drafts
        /\ registry.drafts[policy.draftId].status = "PUBLISHED"
        /\ registry.drafts[policy.draftId].policyId = p

\* What an event is decided with is never past its time, pauses and resumptions
\* before it notwithstanding.
ServedAlive ==
  \A p \in served.policies : registry.policies[p].expiresAt > served.at

\* Publishing never replaces a policy, and a policy never comes back: neither an
\* expired one, nor a paused one after its time, and no step prolongs its life.
PolicyHistory ==
  [][\A p \in DOMAIN registry.policies :
       LET old == registry.policies[p]
           new == registry'.policies[p]
       IN  /\ p \in DOMAIN registry'.policies
           /\ new = [old EXCEPT !.status = new.status]
           /\ old.status = "EXPIRED" => new.status = "EXPIRED"
           /\ old.status = "PAUSED" /\ new.status = "PUBLISHED" => old.expiresAt > now
    ]_registryVars
=============================================================================
