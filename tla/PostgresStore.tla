--------------------------- MODULE PostgresStore ---------------------------
(***************************************************************************)
(* The PostgreSQL driver: one tenant's rows, the in-memory object graph    *)
(* the services work on, the queue of saves and the transactions that      *)
(* read and rewrite the whole tenant.                                      *)
(*                                                                         *)
(* serialize() copies references, so a queued save holds an object graph,  *)
(* not a copy of its contents: it writes what the graph holds when its     *)
(* rows are inserted.  A transaction on fresh state builds a graph of its  *)
(* own and then puts it in the place of the live one.  A request stands    *)
(* for the rows it changes: a part of the state is the set of the requests *)
(* whose changes are in it.                                                *)
(***************************************************************************)
EXTENDS Integers, Sequences, FiniteSets

CONSTANTS
    Request,       \* the requests that change the tenant's state
    Key,           \* the keys of withTenantLock
    KeyOf,         \* the key a request takes
    Part,          \* the parts of the in-memory state
    Tables,        \* the parts that have a table, in the order they are inserted
    Direct,        \* the parts a request changes in the live graph, before a save
    Fresh,         \* the parts it changes on fresh state, within a transaction
    AutoCreate,    \* autoCreateDatabase
    SaveQueue,     \* the save queue as the owner of a transaction
    None,          \* nobody
    MaxFailures,   \* bound: statements PostgreSQL refuses
    MaxCrashes     \* bound: times the process stops

Stored == {Tables[i] : i \in 1..Len(Tables)}
Owner == Request \cup {SaveQueue}

ASSUME StoreAssumption ==
    /\ KeyOf \in [Request -> Key]
    /\ Tables \in Seq(Part)
    /\ Direct \in [Request -> SUBSET Part]
    /\ Fresh \in [Request -> SUBSET Part]
    /\ AutoCreate \in BOOLEAN
    /\ SaveQueue \notin Request /\ None \notin Owner
    /\ MaxFailures \in Nat /\ MaxCrashes \in Nat

VARIABLES
    database,      \* "missing", "bare" (no tables yet) or "ready"
    rows,          \* the committed rows of every table
    lock,          \* who holds pg_advisory_xact_lock
    tx,            \* the open transaction of every owner
    graphs,        \* the object graphs of this process
    live,          \* the graph the services use
    chain,         \* the graphs of the saves not yet settled
    issued,        \* saves put into the chain
    settled,       \* saves that were written or failed
    lastError,     \* the last settled save failed
    up,            \* the server answers requests
    pc,            \* where a request is
    ticket,        \* the save a request's flush waits for
    failures, crashes,
    wrote          \* history: the graph last committed

storage == <<database, rows, lock, tx>>
process == <<graphs, live, chain, issued, settled, lastError, up>>
requests == <<pc, ticket>>
bounds == <<failures, crashes>>
vars == <<storage, process, requests, bounds, wrote>>

DefaultState == [p \in Part |-> {}]
EmptyState == [p \in Stored |-> {}]

(* normalizeState: what the given state lacks takes its default value. *)
InMemory(state) ==
    [p \in Part |-> IF p \in DOMAIN state THEN state[p] ELSE DefaultState[p]]

(* Mutant: the stored rows are not read. *)
ReadStateMutant(tables) == EmptyState

(* readRelationalStateWithClient: every table fills its part of the state. *)
ReadState(tables) == [p \in Stored |-> EmptyState[p] \cup tables[p]]

Changed(graph, parts, r) ==
    [p \in Part |-> IF p \in parts THEN graph[p] \cup {r} ELSE graph[p]]

Closed == [phase |-> "closed", graph |-> 0, left |-> <<>>, new |-> EmptyState]
Phases == {"closed", "running", "inserting", "inserted", "synced"}

TypeOK ==
    /\ database \in {"missing", "bare", "ready"}
    /\ rows \in [Stored -> SUBSET Request]
    /\ lock \in Owner \cup {None}
    /\ DOMAIN tx = Owner
    /\ \A o \in Owner :
         /\ tx[o].phase \in Phases
         /\ tx[o].graph \in 0..Len(graphs)
         /\ tx[o].new \in [Stored -> SUBSET Request]
         /\ \E i \in 0..Len(Tables) : tx[o].left = SubSeq(Tables, i + 1, Len(Tables))
    /\ \A g \in 1..Len(graphs) : graphs[g] \in [Part -> SUBSET Request]
    /\ live \in 0..Len(graphs)
    /\ chain \in Seq(1..Len(graphs))
    /\ issued \in Nat /\ settled \in Nat /\ issued = settled + Len(chain)
    /\ lastError \in BOOLEAN /\ up \in BOOLEAN
    /\ pc \in [Request -> {"new", "handling", "flushing", "done", "refused", "uncommitted", "lost"}]
    /\ ticket \in [Request -> Nat]
    /\ failures \in 0..MaxFailures /\ crashes \in 0..MaxCrashes
    /\ wrote \in 0..Len(graphs)

Init ==
    /\ database \in {"missing", "bare", "ready"}
    /\ rows = EmptyState
    /\ lock = None
    /\ tx = [o \in Owner |-> Closed]
    /\ graphs = <<>> /\ live = 0 /\ chain = <<>>
    /\ issued = 0 /\ settled = 0 /\ lastError = FALSE /\ up = FALSE
    /\ pc = [r \in Request |-> "new"]
    /\ ticket = [r \in Request |-> 0]
    /\ failures = 0 /\ crashes = 0 /\ wrote = 0

------------------------------------------------------------------------------
(* Opening the pool.                                                        *)

(* ensureDatabaseExists: a missing database is created, when configured. *)
CreateDatabase ==
    /\ ~up /\ database = "missing" /\ AutoCreate
    /\ database' = "bare"
    /\ UNCHANGED <<rows, lock, tx, process, requests, bounds, wrote>>

CreateTables ==
    /\ ~up /\ database = "bare"
    /\ database' = "ready"
    /\ UNCHANGED <<rows, lock, tx, process, requests, bounds, wrote>>

(* Mutant: no save is queued while another one waits. *)
EnqueueMutant(graph) ==
    IF chain # <<>> THEN UNCHANGED <<chain, issued>>
    ELSE chain' = Append(chain, graph) /\ issued' = issued + 1

(* createPostgresDb: the stored state becomes the live graph, and it is     *)
(* saved back at once.                                                      *)
Enqueue(graph) ==
    /\ chain' = Append(chain, graph)
    /\ issued' = issued + 1

Open ==
    /\ ~up /\ database = "ready"
    /\ graphs' = <<InMemory(ReadState(rows))>>
    /\ live' = 1
    /\ wrote' = 1
    /\ Enqueue(1)
    /\ up' = TRUE
    /\ UNCHANGED <<storage, settled, lastError, requests, bounds>>

------------------------------------------------------------------------------
(* Requests under withTenantLock.                                           *)

Holding(key) == \E r \in Request : pc[r] = "handling" /\ KeyOf[r] = key

Enter(r) ==
    /\ up /\ pc[r] = "new"
    /\ ~Holding(KeyOf[r])
    /\ pc' = [pc EXCEPT ![r] = "handling"]
    /\ UNCHANGED <<storage, process, ticket, bounds, wrote>>

(* A service that works on the live graph: change it, save, answer.  The    *)
(* tenant lock is released before flushManagedDbs waits for the save.       *)
Handle(r) ==
    /\ pc[r] = "handling" /\ Fresh[r] = {}
    /\ graphs' = [graphs EXCEPT ![live] = Changed(@, Direct[r], r)]
    /\ Enqueue(live)
    /\ pc' = [pc EXCEPT ![r] = "flushing"]
    /\ ticket' = [ticket EXCEPT ![r] = issued + 1]
    /\ UNCHANGED <<storage, live, settled, lastError, up, bounds, wrote>>

Flushed(r) ==
    /\ pc[r] = "flushing" /\ settled >= ticket[r]
    /\ pc' = [pc EXCEPT ![r] = "done"]
    /\ UNCHANGED <<storage, process, ticket, bounds, wrote>>

------------------------------------------------------------------------------
(* Mutant: the transaction does not wait for the advisory lock. *)
LockTenantMutant(o) == lock' = o

(* Transactions: BEGIN and the tenant's advisory lock, COMMIT or ABORT.     *)

LockTenant(o) ==
    /\ lock = None
    /\ lock' = o

(* withFreshTenantState reads the tenant into a graph of its own. *)
BeginFresh(r) ==
    /\ pc[r] = "handling" /\ Fresh[r] # {} /\ tx[r].phase = "closed"
    /\ LockTenant(r)
    /\ graphs' = Append(graphs, InMemory(ReadState(rows)))
    /\ tx' = [tx EXCEPT ![r] = [Closed EXCEPT !.phase = "running", !.graph = Len(graphs) + 1]]
    /\ UNCHANGED <<database, rows, live, chain, issued, settled, lastError, up, requests, bounds, wrote>>

(* Mutant: the runner is handed the live graph. *)
RunFreshMutant(r) ==
    /\ tx[r].phase = "running"
    /\ graphs' = [graphs EXCEPT ![live] = Changed(@, Direct[r] \cup Fresh[r], r)]
    /\ IF Direct[r] = {} THEN UNCHANGED <<chain, issued>> ELSE Enqueue(live)
    /\ tx' = [tx EXCEPT ![r].phase = "inserting", ![r].left = Tables]
    /\ UNCHANGED <<database, rows, lock, live, settled, lastError, up, requests, bounds, wrote>>

(* The runner changes the fresh graph; the policy decision it makes on the  *)
(* way changes the live one and saves it.                                   *)
RunFresh(r) ==
    /\ tx[r].phase = "running"
    /\ LET decided == [graphs EXCEPT ![live] = Changed(@, Direct[r], r)]
       IN  graphs' = [decided EXCEPT ![tx[r].graph] = Changed(@, Fresh[r], r)]
    /\ IF Direct[r] = {} THEN UNCHANGED <<chain, issued>> ELSE Enqueue(live)
    /\ tx' = [tx EXCEPT ![r].phase = "inserting", ![r].left = Tables]
    /\ UNCHANGED <<database, rows, lock, live, settled, lastError, up, requests, bounds, wrote>>

(* The save at the head of the chain opens its transaction. *)
BeginSave ==
    /\ up /\ chain # <<>> /\ tx[SaveQueue].phase = "closed"
    /\ LockTenant(SaveQueue)
    /\ tx' = [tx EXCEPT ![SaveQueue] =
                 [Closed EXCEPT !.phase = "inserting", !.graph = Head(chain), !.left = Tables]]
    /\ UNCHANGED <<database, rows, process, requests, bounds, wrote>>

(* replaceTenantState: all rows of the tenant are deleted, then each part   *)
(* is inserted as the graph holds it at that moment.                        *)
InsertPart(o) ==
    /\ tx[o].phase = "inserting" /\ tx[o].left # <<>>
    /\ LET p == Head(tx[o].left)
       IN  tx' = [tx EXCEPT ![o].new[p] = graphs[tx[o].graph][p], ![o].left = Tail(@)]
    /\ UNCHANGED <<database, rows, lock, process, requests, bounds, wrote>>

Inserted(o) ==
    /\ tx[o].phase = "inserting" /\ tx[o].left = <<>>
    /\ tx' = [tx EXCEPT ![o].phase = "inserted"]
    /\ UNCHANGED <<database, rows, lock, process, requests, bounds, wrote>>

(* syncBack: the live graph is replaced before COMMIT. *)
SyncBack(r) ==
    /\ tx[r].phase = "inserted"
    /\ live' = tx[r].graph
    /\ tx' = [tx EXCEPT ![r].phase = "synced"]
    /\ UNCHANGED <<database, rows, lock, graphs, chain, issued, settled, lastError, up,
                   requests, bounds, wrote>>

(* Mutant: a transaction that is aborted keeps the lock. *)
CloseTxMutant(o) ==
    /\ tx' = [tx EXCEPT ![o] = Closed]
    /\ lock' = IF tx[o].phase \in {"inserted", "synced"} THEN None ELSE lock

CloseTx(o) ==
    /\ tx' = [tx EXCEPT ![o] = Closed]
    /\ lock' = None

CommitFresh(r) ==
    /\ tx[r].phase = "synced"
    /\ rows' = tx[r].new
    /\ wrote' = tx[r].graph
    /\ CloseTx(r)
    /\ pc' = [pc EXCEPT ![r] = "flushing"]
    /\ ticket' = [ticket EXCEPT ![r] = issued]
    /\ UNCHANGED <<database, process, bounds>>

(* Mutant: a failed save is not counted. *)
SettleMutant(failed) ==
    /\ chain' = Tail(chain)
    /\ settled' = IF failed THEN settled ELSE settled + 1
    /\ lastError' = failed

(* The save is settled either way, and the chain goes on with the next. *)
Settle(failed) ==
    /\ chain' = Tail(chain)
    /\ settled' = settled + 1
    /\ lastError' = failed

CommitSave ==
    /\ tx[SaveQueue].phase = "inserted"
    /\ rows' = tx[SaveQueue].new
    /\ wrote' = tx[SaveQueue].graph
    /\ CloseTx(SaveQueue)
    /\ Settle(FALSE)
    /\ UNCHANGED <<database, graphs, live, issued, up, requests, bounds>>

Refused == /\ failures < MaxFailures
           /\ failures' = failures + 1
           /\ UNCHANGED crashes

(* ABORT after a statement, or the runner, threw: the request is answered   *)
(* with the error and nothing is flushed.                                   *)
AbortFresh(r) ==
    /\ Refused
    /\ tx[r].phase # "closed"
    /\ CloseTx(r)
    /\ pc' = [pc EXCEPT ![r] = IF tx[r].phase = "synced" THEN "uncommitted" ELSE "refused"]
    /\ UNCHANGED <<database, rows, process, ticket, wrote>>

AbortSave ==
    /\ Refused
    /\ tx[SaveQueue].phase # "closed"
    /\ CloseTx(SaveQueue)
    /\ Settle(TRUE)
    /\ UNCHANGED <<database, rows, graphs, live, issued, up, requests, wrote>>

(* The process stops: its graphs, its chain and its open transaction are    *)
(* gone, the committed rows stay.                                           *)
Crash ==
    /\ up /\ crashes < MaxCrashes
    /\ crashes' = crashes + 1
    /\ up' = FALSE
    /\ graphs' = <<>> /\ live' = 0 /\ chain' = <<>> /\ wrote' = 0
    /\ issued' = 0 /\ settled' = 0 /\ lastError' = FALSE
    /\ tx' = [o \in Owner |-> Closed] /\ lock' = None
    /\ pc' = [r \in Request |-> IF pc[r] \in {"handling", "flushing"} THEN "lost" ELSE pc[r]]
    /\ ticket' = [r \in Request |-> 0]
    /\ UNCHANGED <<database, rows, failures>>

------------------------------------------------------------------------------
Starting == CreateDatabase \/ CreateTables \/ Open
Serving(r) == Enter(r) \/ Handle(r) \/ Flushed(r)
FreshSteps(r) == \/ BeginFresh(r) \/ RunFresh(r) \/ InsertPart(r) \/ Inserted(r)
                 \/ SyncBack(r) \/ CommitFresh(r)
SaveSteps == BeginSave \/ InsertPart(SaveQueue) \/ Inserted(SaveQueue) \/ CommitSave

Next ==
    \/ Starting
    \/ \E r \in Request : Serving(r) \/ FreshSteps(r) \/ AbortFresh(r)
    \/ SaveSteps \/ AbortSave
    \/ Crash

Spec == Init /\ [][Next]_vars

(* The event loop and PostgreSQL go on; the lock queue is first come, first *)
(* served, and requests are finitely many.                                  *)
Fairness ==
    /\ WF_vars(Starting)
    /\ \A r \in Request : WF_vars(Serving(r)) /\ WF_vars(FreshSteps(r))
    /\ WF_vars(SaveSteps)

FairSpec == Spec /\ Fairness

------------------------------------------------------------------------------
(* While a runner works on fresh state nobody else commits: what it read is *)
(* what it will replace (withFreshTenantState under the advisory lock).     *)
RunnerSeesRows ==
    \A r \in Request : tx[r].phase = "running" =>
        \A p \in Stored : graphs[tx[r].graph][p] = rows[p]

Quiet == up /\ chain = <<>> /\ \A o \in Owner : tx[o].phase = "closed"

(* At rest the rows are the live graph's, even though a save may be torn by *)
(* changes made between its inserts: whoever tore it queued another one.    *)
(* Two cases are left out, a save that failed last and a save of a replaced *)
(* graph that came in last.                                                 *)
QuietRowsAreLive ==
    (Quiet /\ ~lastError /\ wrote = live) => \A p \in Stored : rows[p] = graphs[live][p]

(* A commit takes rows away only when the save queue writes another graph   *)
(* than the one written last: a transaction on fresh state never does.      *)
OnlyOtherGraphsLoseRows ==
    [][ (\E p \in Stored : ~(rows[p] \subseteq rows'[p])) =>
            tx[SaveQueue].phase = "inserted" /\ tx[SaveQueue].graph # wrote ]_vars

(* A request refused before COMMIT leaves none of its fresh changes, in the *)
(* rows or in the live graph.                                               *)
RefusedLeavesNothing ==
    \A r \in Request : pc[r] = "refused" =>
        \A p \in Fresh[r] \ Direct[r] :
            /\ up => r \notin graphs[live][p]
            /\ p \in Stored => r \notin rows[p]

(* A transaction sees and replaces what is committed, leaves nothing when  *)
(* it is refused, and at rest the rows are the live graph's.                *)
StoreInvariant == TypeOK /\ RunnerSeesRows /\ RefusedLeavesNothing /\ QuietRowsAreLive

(* flushManagedDbs always returns: a failed save does not stop the chain,   *)
(* and no transaction waits for a save that waits for it.                   *)
FlushReturns == \A r \in Request : (pc[r] = "flushing") ~> (pc[r] # "flushing")

(* README.md:86 of the server, "Payment write operations execute on fresh   *)
(* tenant state within one PostgreSQL transaction": once a request's        *)
(* transaction is committed its rows stay.                                  *)
CommittedStays ==
    \A r \in Request : (pc[r] = "done" /\ Fresh[r] # {}) =>
        \A p \in Fresh[r] \cap Stored : r \in rows[p]
==============================================================================
