--------------------------- MODULE MCPersistence ---------------------------
(***************************************************************************)
(* Where a tenant's rows live, as separate behaviours: requests that share *)
(* the rows of one database (MCStore); the migration of a merchant to a    *)
(* database of its own (Tenancy); the quota of one of its operations       *)
(* (TenantQuota).                                                          *)
(***************************************************************************)
EXTENDS MCStore, Tenancy, TenantQuota

VARIABLE part

allVars == <<part, vars, tenantVars, quotaVars>>

PartInit == /\ part \in {"store", "migration", "quota"}
            /\ Init /\ TenantInit /\ QuotaInit
            /\ part # "store" => database = "ready"
            /\ part # "quota" => limit = 0
PartNext == /\ part' = part
            /\ \/ part = "store" /\ Next /\ UNCHANGED <<tenantVars, quotaVars>>
               \/ part = "migration" /\ TenantNext /\ UNCHANGED <<vars, quotaVars>>
               \/ part = "quota" /\ QuotaNext /\ UNCHANGED <<vars, tenantVars>>
PartSpec == PartInit /\ [][PartNext]_allVars /\ (part = "store" => Fairness)

(* A waiting flush returns (PostgresStore).                                 *)
StoreFlushReturns == part = "store" => FlushReturns
=============================================================================
