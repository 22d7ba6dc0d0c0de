------------------------------- MODULE Tenancy -------------------------------
(***************************************************************************)
(* One merchant between the shared database and a dedicated one: the       *)
(* router, the migration steps, the cutover and the requests that are      *)
(* under way meanwhile.                                                    *)
(*                                                                         *)
(* PostgreSQL holds the merchant's slice of either database: the writes    *)
(* that were executed in it and their idempotency records.  Every cutover, *)
(* and every start of the server, opens the dedicated database anew: a     *)
(* database object with a cache and a queue of saves of its own over the   *)
(* same rows.  A queued save is a transaction of its own and replaces the  *)
(* rows; a write's transaction reads them, takes the advisory lock and not *)
(* the queue, and brings the object's cache up to them.  The saves of the  *)
(* shared database are PostgresStore's, and so are the steps within a      *)
(* transaction.                                                            *)
(*                                                                         *)
(* Writes of the merchant's own routes take the merchant's lock and are    *)
(* refused while writeEnabled is false; the callbacks of the payment       *)
(* gateway do neither.                                                     *)
(***************************************************************************)
EXTENDS Naturals, Sequences

CONSTANTS
    Write,          \* the writes a client or the gateway sends, each with its key
    Locked,         \* those that come through the merchant's own routes
    MaxAttempts,    \* bound: writes and migration steps sent
    MaxCutovers,    \* bound: cutovers
    MaxCutoverFailures, \* bound: cutovers, commits or saves that fail
    MaxRestarts,    \* bound: restarts of the server
    MaxQueue        \* bound: saves in a queue when a request adds another

\* What the values of the constants satisfy.
ASSUME TenancyAssumption ==
    /\ Locked \subseteq Write
    /\ {MaxAttempts, MaxCutovers, MaxCutoverFailures, MaxRestarts, MaxQueue} \subseteq Nat

Db == {"root", "dedicated"}

(* The database objects of the process: the shared one, the dedicated one  *)
(* opened at the start, and one for each cutover.                           *)
Root == 0
Startup == 1
Dedicated == 1..MaxCutovers + 1
Place == {Root} \cup Dedicated
Name(place) == IF place = Root THEN "root" ELSE "dedicated"

(* A merchant's slice: whether the merchant is there, its writes, and the   *)
(* idempotency records.                                                     *)
Slice == [known : BOOLEAN, rows : SUBSET Write, keys : SUBSET Write]
NoSlice == [known |-> FALSE, rows |-> {}, keys |-> {}]

Phase == {"IDLE", "RUNNING", "FROZEN", "VERIFYING", "CUTOVER"}
MIGRATION_STEPS == {"FREEZE_WRITE", "UNFREEZE_WRITE", "MARK_VERIFYING", "MARK_CUTOVER"}

VARIABLES
    stored,         \* committed: the merchant's slice of each database
    routeFile,      \* committed: tenantRouteFiles names the dedicated database
    migration,      \* committed: the phase of tenantMigrations
    policy,         \* committed: writeEnabled of tenantPolicies
    override,       \* the router's override for the merchant, Root if none
    cache,          \* what the in-memory state of each dedicated object holds
    saves,          \* its queue of saves: the slice each of them will write
    writeEnabled,   \* what the tenant policy manager answers
    cut,            \* the cutover: "idle", "opening", "opened" or "committing"
    writePc, db,    \* where a write is, and the object it was resolved to
    attempts,       \* writes and migration steps sent so far
    cutovers, cutoverFailures, restarts,
    frozenBy,       \* history: who set writeEnabled to false
    stranded,       \* history: a restart forgot an override that was never stored
    kept            \* history: the writes executed undisturbed, by database

disk == <<stored, routeFile, migration, policy>>
memory == <<override, cache, saves, writeEnabled, cut>>
traffic == <<writePc, db, attempts>>
tenantBounds == <<cutovers, cutoverFailures, restarts>>
history == <<frozenBy, stranded, kept>>
tenantVars == <<disk, memory, traffic, tenantBounds, history>>

TenantTypeOK ==
    /\ stored \in [Db -> Slice] /\ cache \in [Dedicated -> Slice]
    /\ saves \in [Dedicated -> Seq(Slice)]
    /\ override \in Place
    /\ routeFile \in BOOLEAN /\ policy \in BOOLEAN
    /\ writeEnabled \in BOOLEAN /\ stranded \in BOOLEAN
    /\ migration \in Phase
    /\ cut \in {"idle", "opening", "opened", "committing"}
    /\ writePc \in [Write -> {"new", "resolved", "done", "refused", "lost"}]
    /\ db \in [Write -> Place]
    /\ attempts \in 0..MaxAttempts
    /\ cutovers \in 0..MaxCutovers /\ cutoverFailures \in 0..MaxCutoverFailures /\ restarts \in 0..MaxRestarts
    /\ cut # "idle" => cutovers > 0
    /\ frozenBy \in {"nobody", "owner", "cutover"}
    /\ kept \in [Db -> SUBSET Write]

(* getDbForMerchant: the first candidate that has the merchant; the shared  *)
(* database keeps its copy for ever.                                        *)
Route == IF override # Root /\ cache[override].known THEN override ELSE Root

(* What the in-memory state of an object shows of the merchant. *)
Content(place) == IF place = Root THEN stored["root"] ELSE cache[place]

resolveMigrationPhase(previous, step) ==
    CASE step = "FREEZE_WRITE" -> "FROZEN"
      [] step = "UNFREEZE_WRITE" -> IF previous = "CUTOVER" THEN previous ELSE "RUNNING"
      [] step = "MARK_VERIFYING" -> "VERIFYING"
      [] step = "MARK_CUTOVER" -> "CUTOVER"

TenantInit ==
    /\ stored = [b \in Db |-> [NoSlice EXCEPT !.known = (b = "root")]]
    /\ routeFile = FALSE /\ migration = "IDLE" /\ policy = TRUE
    /\ override = Root
    /\ cache = [o \in Dedicated |-> NoSlice] /\ saves = [o \in Dedicated |-> <<>>]
    /\ writeEnabled = TRUE /\ cut = "idle"
    /\ writePc = [w \in Write |-> "new"] /\ db = [w \in Write |-> Root]
    /\ attempts = 0
    /\ cutovers = 0 /\ cutoverFailures = 0 /\ restarts = 0
    /\ frozenBy = "nobody" /\ stranded = FALSE /\ kept = [b \in Db |-> {}]

------------------------------------------------------------------------------
(* Requests. *)

MerchantLockFree == cut = "idle" /\ \A w \in Locked : writePc[w] # "resolved"
RootTransactionOpen == cut # "idle"

(* getServicesForMerchant: the service is bound to the database of this     *)
(* moment, before the transaction it will wait for.                         *)
Arrive(w) ==
    /\ writePc[w] = "new" /\ attempts < MaxAttempts
    /\ w \in Locked => MerchantLockFree
    /\ attempts' = attempts + 1
    /\ IF w \in Locked /\ ~writeEnabled
       THEN writePc' = [writePc EXCEPT ![w] = "refused"] /\ UNCHANGED db
       ELSE writePc' = [writePc EXCEPT ![w] = "resolved"] /\ db' = [db EXCEPT ![w] = Route]
    /\ UNCHANGED <<disk, memory, tenantBounds, history>>

(* Nothing of the dedicated database is being opened or waits to be saved.  *)
Undisturbed == cut = "idle" /\ \A o \in Dedicated : saves[o] = <<>>

(* Mutant: the record is left out. *)
WrittenMutant(slice, w) == [slice EXCEPT !.rows = @ \cup {w}]

(* The write and its idempotency record.                                    *)
Written(slice, w) == [slice EXCEPT !.rows = @ \cup {w}, !.keys = @ \cup {w}]

(* The write in its database's transaction, which waits for no queued save: *)
(* a known key is answered from its record.                                 *)
Execute(w) ==
    LET place == db[w]
        b == Name(place)
        final == IF w \in stored[b].keys THEN stored[b] ELSE Written(stored[b], w)
    IN
    /\ writePc[w] = "resolved"
    /\ place = Root => ~RootTransactionOpen
    /\ stored[b].known
    /\ stored' = [stored EXCEPT ![b] = final]
    /\ cache' = [o \in Dedicated |-> IF o = place THEN final ELSE cache[o]]
    /\ kept' = IF place = Route /\ w \notin stored[b].keys /\ (place # Root => Undisturbed)
               THEN [kept EXCEPT ![b] = @ \cup {w}]
               ELSE kept
    /\ writePc' = [writePc EXCEPT ![w] = "done"]
    /\ UNCHANGED <<routeFile, migration, policy, override, saves, writeEnabled, cut,
                   db, attempts, tenantBounds, frozenBy, stranded>>

(* A dedicated database that has not been written yet has no such merchant. *)
NotFound(w) ==
    /\ writePc[w] = "resolved" /\ ~stored[Name(db[w])].known
    /\ writePc' = [writePc EXCEPT ![w] = "refused"]
    /\ UNCHANGED <<disk, memory, db, attempts, tenantBounds, history>>

(* A client that got no answer, or lost it, sends the same key again. *)
Resend(w) ==
    /\ writePc[w] \in {"done", "refused", "lost"} /\ attempts < MaxAttempts
    /\ writePc' = [writePc EXCEPT ![w] = "new"]
    /\ UNCHANGED <<disk, memory, db, attempts, tenantBounds, history>>

(* appendAuditLog, with any request the merchant's database serves: a row   *)
(* in its cache, and a save of the cache as it is.                          *)
SaveCache ==
    /\ Route # Root /\ Len(saves[Route]) < MaxQueue
    /\ saves' = [saves EXCEPT ![Route] = Append(@, cache[Route])]
    /\ UNCHANGED <<disk, override, cache, writeEnabled, cut, traffic, tenantBounds, history>>

(* A queue's next save in a transaction of its own; one that fails is       *)
(* dropped, and the chain goes on.                                          *)
Save(o, fails) ==
    /\ saves[o] # <<>>
    /\ saves' = [saves EXCEPT ![o] = Tail(@)]
    /\ IF fails
       THEN /\ cutoverFailures < MaxCutoverFailures /\ cutoverFailures' = cutoverFailures + 1
            /\ UNCHANGED stored
       ELSE /\ stored' = [stored EXCEPT !["dedicated"] = Head(saves[o])]
            /\ UNCHANGED cutoverFailures
    /\ UNCHANGED <<routeFile, migration, policy, override, cache, writeEnabled, cut,
                   traffic, cutovers, restarts, history>>

------------------------------------------------------------------------------
(* The owner's migration routes. *)

setMerchantPolicy(enabled, who) ==
    /\ writeEnabled' = enabled
    /\ frozenBy' = IF enabled THEN "nobody" ELSE who

(* POST /api/merchant/migration/step: the manager is changed at once, the   *)
(* records with the transaction, which may not commit.                      *)
MigrationStep(step, commits) ==
    /\ MerchantLockFree /\ attempts < MaxAttempts
    /\ attempts' = attempts + 1
    /\ CASE step = "FREEZE_WRITE" -> setMerchantPolicy(FALSE, "owner")
         [] step = "UNFREEZE_WRITE" -> setMerchantPolicy(TRUE, "owner")
         [] OTHER -> UNCHANGED <<writeEnabled, frozenBy>>
    /\ IF commits
       THEN /\ migration' = resolveMigrationPhase(migration, step)
            /\ policy' = IF step \in {"FREEZE_WRITE", "UNFREEZE_WRITE"} THEN writeEnabled' ELSE policy
            /\ UNCHANGED cutoverFailures
       ELSE /\ cutoverFailures < MaxCutoverFailures /\ cutoverFailures' = cutoverFailures + 1
            /\ UNCHANGED <<migration, policy>>
    /\ UNCHANGED <<stored, routeFile, override, cache, saves, cut, writePc, db,
                   cutovers, restarts, stranded, kept>>

(* POST /api/merchant/migration/cutover: the shared database's transaction  *)
(* opens, writes are frozen, and the dedicated database is awaited.         *)
BeginCutover ==
    /\ MerchantLockFree /\ cutovers < MaxCutovers
    /\ cutovers' = cutovers + 1
    /\ cut' = "opening"
    /\ setMerchantPolicy(FALSE, "cutover")
    /\ UNCHANGED <<disk, override, cache, saves, traffic, cutoverFailures, restarts, stranded, kept>>

(* The object this cutover opens. *)
NewObject == cutovers + 1

(* createPostgresDb reads what the dedicated database holds so far. *)
OpenDedicated ==
    /\ cut = "opening"
    /\ cache' = [cache EXCEPT ![NewObject] = stored["dedicated"]]
    /\ cut' = "opened"
    /\ UNCHANGED <<disk, override, saves, writeEnabled, traffic, tenantBounds, history>>

(* Mutant: the slice is always taken from the shared database. *)
SourceMutant == Root

Source == Route

(* copyMerchantSlice replaces the merchant's part of the target; the        *)
(* idempotency records are not part of it.                                  *)
Copied == [Content(Source) EXCEPT !.keys = cache[NewObject].keys]

(* buildMerchantSnapshotSummary must come out the same on both sides. *)
Verified == Copied.rows = Content(Source).rows

(* Mutant: the queue starts with the state of a database never written. *)
CopySavesMutant == <<NoSlice, Copied, Copied>>

(* createPostgresDb saves what it read, copyMerchantSlice and then the      *)
(* cutover save the copy.                                                   *)
CopySaves == <<cache[NewObject], Copied, Copied>>

AttachDedicated ==
    /\ cut = "opened"
    /\ Verified
    /\ cache' = [cache EXCEPT ![NewObject] = Copied]
    /\ saves' = [saves EXCEPT ![NewObject] = CopySaves]
    /\ override' = NewObject
    /\ setMerchantPolicy(TRUE, "cutover")
    /\ cut' = "committing"
    /\ UNCHANGED <<disk, traffic, tenantBounds, stranded, kept>>

CommitCutover ==
    /\ cut = "committing"
    /\ routeFile' = TRUE
    /\ migration' = "CUTOVER" /\ policy' = TRUE
    /\ cut' = "idle"
    /\ UNCHANGED <<stored, override, cache, saves, writeEnabled, traffic, tenantBounds, history>>

(* The dedicated database cannot be opened: writes are enabled again and    *)
(* the transaction is aborted.                                              *)
(* Mutant: the failure leaves the merchant frozen. *)
CutoverFailsMutant ==
    /\ cut = "opening" /\ cutoverFailures < MaxCutoverFailures
    /\ cutoverFailures' = cutoverFailures + 1
    /\ cut' = "idle"
    /\ UNCHANGED <<disk, override, cache, saves, writeEnabled, frozenBy, traffic,
                   cutovers, restarts, stranded, kept>>

CutoverFails ==
    /\ cut = "opening" /\ cutoverFailures < MaxCutoverFailures
    /\ cutoverFailures' = cutoverFailures + 1
    /\ setMerchantPolicy(TRUE, "cutover")
    /\ cut' = "idle"
    /\ UNCHANGED <<disk, override, cache, saves, traffic, cutovers, restarts, stranded, kept>>

(* COMMIT fails with the override already set. *)
CommitFails ==
    /\ cut = "committing" /\ cutoverFailures < MaxCutoverFailures
    /\ cutoverFailures' = cutoverFailures + 1
    /\ cut' = "idle"
    /\ UNCHANGED <<disk, override, cache, saves, writeEnabled, traffic, cutovers, restarts, history>>

(* The server restarts: createAppServerAsync opens the databases that       *)
(* tenantRouteFiles names, each with a save of what was read, and the       *)
(* policies come from tenantPolicies.                                       *)
Restart ==
    /\ restarts < MaxRestarts
    /\ restarts' = restarts + 1
    /\ override' = IF routeFile THEN Startup ELSE Root
    /\ cache' = [o \in Dedicated |-> IF o = override' THEN stored["dedicated"] ELSE NoSlice]
    /\ saves' = [o \in Dedicated |-> IF o = override' THEN <<stored["dedicated"]>> ELSE <<>>]
    /\ writeEnabled' = policy
    /\ frozenBy' = IF policy THEN "nobody" ELSE "owner"
    /\ cut' = "idle"
    /\ writePc' = [w \in Write |-> IF writePc[w] = "resolved" THEN "lost" ELSE writePc[w]]
    /\ stranded' = (stranded \/ (override # Root /\ ~routeFile))
    /\ UNCHANGED <<disk, db, attempts, cutovers, cutoverFailures, kept>>

------------------------------------------------------------------------------
TenantNext ==
    \/ \E w \in Write : Arrive(w) \/ Execute(w) \/ NotFound(w) \/ Resend(w)
    \/ SaveCache
    \/ \E o \in Dedicated, fails \in BOOLEAN : Save(o, fails)
    \/ \E step \in MIGRATION_STEPS, commits \in BOOLEAN : MigrationStep(step, commits)
    \/ BeginCutover \/ OpenDedicated \/ AttachDedicated \/ CommitCutover \/ CutoverFails \/ CommitFails
    \/ Restart

TenantSpec == TenantInit /\ [][TenantNext]_tenantVars

------------------------------------------------------------------------------
(* A write that was executed undisturbed stays: whenever the database that  *)
(* serves the merchant knows the merchant, it has the write, through        *)
(* cutovers, failed ones, queued saves and restarts.  The code gives no     *)
(* more: a write that is executed while the dedicated database is opened or *)
(* has saves in its queue, or in a database the cutover then left, may be   *)
(* answered and overwritten; and what was written under an override whose   *)
(* transaction did not commit is out of reach after a restart.              *)
AnsweredIsServed ==
    LET serving == stored[Name(Route)] IN
    ~stranded /\ serving.known => kept["root"] \cup kept["dedicated"] \subseteq serving.rows

(* A cutover never leaves the merchant read-only, whether it succeeds,      *)
(* fails or is cut short by a restart.                                      *)
CutoverUnfreezes ==
    (cut = "idle" /\ ~writeEnabled) => frozenBy = "owner"

(* The record of a write that was executed undisturbed stays in its         *)
(* database, whatever is saved there later: a repeat is answered from it    *)
(* and not executed there again.                                            *)
OncePerDatabase == \A b \in Db : kept[b] \subseteq stored[b].keys

(* What a merchant was answered and nothing disturbed is served from then   *)
(* on, no cutover leaves the merchant read-only, and such a write's key is  *)
(* executed once in each database.                                          *)
MigrationInvariant == TenantTypeOK /\ AnsweredIsServed /\ CutoverUnfreezes /\ OncePerDatabase

==============================================================================
