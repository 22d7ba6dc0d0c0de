-------------------------- MODULE PersistenceProofs -------------------------
(***************************************************************************)
(* Theorems about where a tenant's rows live: the rows of one database     *)
(* (PostgresStore), for any requests, keys, parts, tables and bounds; the  *)
(* migration of a merchant (Tenancy), for any writes, attempts, cutovers,  *)
(* failures and restarts; the quota of one operation (TenantQuota), for    *)
(* any limits, window and number of calls.                                 *)
(***************************************************************************)
EXTENDS PostgresStore, Tenancy, TenantQuota, SequenceTheorems, FiniteSetTheorems,
        WellFoundedInduction, TLAPS

(***************************************************************************)
(* Part 1: the store.                                                      *)
(*                                                                         *)
(* The advisory lock admits one transaction at a time (Exclusive).  A      *)
(* transaction on fresh state works on the last graph, which is neither    *)
(* live nor queued for a save before it is synced back (FreshTx), so what  *)
(* it read is committed until it commits.  A save is of the head of the    *)
(* chain (SaveTx); a graph that changes while its parts are inserted is    *)
(* queued once more behind it (Filled), so at rest the rows are the live   *)
(* graph's (Saved).  Graphs only grow, and the rows are never more than    *)
(* the graph written last (Grown): only a save of another graph takes rows *)
(* away.  The fresh changes of a request that has not synced back are in   *)
(* its own graph alone (Untouched).                                        *)
(***************************************************************************)
\* An object graph and a transaction.
Graph == [Part -> SUBSET Request]
Tx == [phase : Phases, graph : Nat, left : Seq(Part), new : [Stored -> SUBSET Request]]

\* An open transaction; one that inserts or has inserted; the parts it has still to insert.
Active(o) == tx[o].phase # "closed"
Filling(o) == tx[o].phase \in {"inserting", "inserted", "synced"}
Pending(o) == {tx[o].left[i] : i \in 1..Len(tx[o].left)}
\* A save of the graph is in the chain; one is behind the head.
Queued(g) == \E i \in 1..Len(chain) : chain[i] = g
Behind(g) == \E i \in 2..Len(chain) : chain[i] = g

\* The types, of the database, of the graphs and of the rest.
StorageTyped ==
    /\ database \in {"missing", "bare", "ready"}
    /\ rows \in [Stored -> SUBSET Request]
    /\ lock \in Owner \cup {None}
    /\ tx \in [Owner -> Tx]
    /\ \A o \in Owner : \E i \in 0..Len(Tables) : tx[o].left = SubSeq(Tables, i + 1, Len(Tables))

GraphsTyped ==
    /\ graphs \in Seq(Graph)
    /\ live \in 0..Len(graphs) /\ wrote \in 0..Len(graphs)
    /\ \A o \in Owner : tx[o].graph \in 0..Len(graphs)
    /\ chain \in Seq(Nat)
    /\ \A i \in 1..Len(chain) : chain[i] \in 1..Len(graphs)

CountsTyped ==
    /\ issued \in Nat /\ settled \in Nat /\ issued = settled + Len(chain)
    /\ lastError \in BOOLEAN
    /\ up \in BOOLEAN
    /\ pc \in [Request -> {"new", "handling", "flushing", "done", "refused", "uncommitted", "lost"}]
    /\ ticket \in [Request -> Nat]
    /\ failures \in 0..MaxFailures /\ crashes \in 0..MaxCrashes

\* A process that is down holds nothing; one that is up has a live graph.
Process ==
    /\ ~up => /\ live = 0 /\ wrote = 0 /\ graphs = <<>> /\ chain = <<>>
              /\ \A r \in Request : pc[r] # "handling"
              /\ \A o \in Owner : ~Active(o)
    /\ up => live >= 1 /\ wrote >= 1

\* Whoever has a transaction open holds the advisory lock.
Exclusive == \A o \in Owner : Active(o) => lock = o

\* A transaction on fresh state works on the last graph, which no save waits for until it is
\* live; while the runner is at work the graph is what is committed, later no less.
FreshTx ==
    \A r \in Request : Active(r) =>
        /\ pc[r] = "handling" /\ Fresh[r] # {}
        /\ tx[r].graph = Len(graphs) /\ wrote # tx[r].graph
        /\ IF tx[r].phase = "synced" THEN live = tx[r].graph
           ELSE live # tx[r].graph /\ ~Queued(tx[r].graph)
        /\ \A p \in Stored :
             IF tx[r].phase = "running" THEN graphs[tx[r].graph][p] = rows[p]
             ELSE rows[p] \subseteq graphs[tx[r].graph][p]

\* The save that is written is the head of the chain.
SaveTx ==
    Active(SaveQueue) =>
        /\ tx[SaveQueue].phase \in {"inserting", "inserted"}
        /\ chain # <<>> /\ chain[1] = tx[SaveQueue].graph

\* A part that was inserted is what the graph holds, or the graph is queued once more; and it
\* is not less than the committed part, unless a save writes another graph than the last one.
Filled ==
    \A o \in Owner : Filling(o) =>
        /\ tx[o].phase # "inserting" => tx[o].left = <<>>
        /\ \A p \in Stored \ Pending(o) :
             /\ tx[o].new[p] \subseteq graphs[tx[o].graph][p]
             /\ \/ tx[o].new[p] = graphs[tx[o].graph][p]
                \/ IF o = SaveQueue THEN Behind(tx[o].graph) ELSE Queued(tx[o].graph)
             /\ o \in Request \/ tx[o].graph = wrote => rows[p] \subseteq tx[o].new[p]

\* The rows of the graph written last are that graph's, or a save will make them so, or the last
\* save failed.
Saved == (up /\ wrote = live) =>
    Queued(live) \/ lastError \/ \A p \in Stored : rows[p] = graphs[live][p]

\* No row is committed that the graph written last does not hold.
Grown == up => \A p \in Stored : rows[p] \subseteq graphs[wrote][p]

\* What a request changes on fresh state alone is nowhere but in its own transaction before
\* it is synced back.
Untouched ==
    \A r \in Request : (pc[r] \in {"new", "handling", "refused"} /\ tx[r].phase # "synced") =>
        \A p \in Fresh[r] \ Direct[r] :
            /\ p \in Stored => r \notin rows[p]
            /\ up => r \notin graphs[live][p]
            /\ \A i \in 1..Len(chain) : r \notin graphs[chain[i]][p]
            /\ \A o \in Owner \ {r} : Active(o) =>
                 r \notin graphs[tx[o].graph][p] /\ (p \in Stored => r \notin tx[o].new[p])

StoreInv ==
    /\ StorageTyped /\ GraphsTyped /\ CountsTyped
    /\ Process /\ Exclusive /\ FreshTx /\ SaveTx /\ Filled /\ Saved /\ Grown /\ Untouched

(***************************************************************************)
(* Parts, graphs and transactions.                                         *)
(***************************************************************************)
\* The parts with a table are parts.
LEMMA StoredParts == Stored \subseteq Part
<1> SUFFICES ASSUME NEW i \in 1..Len(Tables) PROVE Tables[i] \in Part
  BY DEF Stored
<1> QED BY StoreAssumption, ElementOfSeq

\* The save queue is an owner and no request.
LEMMA SaveQueueApart == SaveQueue \in Owner /\ SaveQueue \notin Request /\ Request \subseteq Owner
                        /\ None \notin Owner
BY StoreAssumption DEF Owner

\* What a transaction starts from: no rows.
LEMMA ClosedTyped ==
    /\ Closed \in Tx /\ Closed.phase = "closed" /\ Closed.graph = 0 /\ Closed.left = <<>>
    /\ <<>> = SubSeq(Tables, Len(Tables) + 1, Len(Tables)) /\ Len(Tables) \in Nat
<1>1. EmptyState \in [Stored -> SUBSET Request] BY DEF EmptyState
<1>2. <<>> \in Seq(Part) BY EmptySeq
<1>3. Closed \in Tx BY <1>1, <1>2 DEF Closed, Tx, Phases
<1>4. Len(Tables) \in Nat BY StoreAssumption, LenProperties
<1>5. <<>> = SubSeq(Tables, Len(Tables) + 1, Len(Tables))
  BY <1>4, SubSeqEmpty
<1> QED BY <1>3, <1>4, <1>5 DEF Closed

\* A graph keeps its type and what it holds; only the parts that are changed gain, and only
\* the request.
LEMMA ChangedGrows ==
    ASSUME NEW graph \in Graph, NEW parts, NEW r \in Request
    PROVE  /\ Changed(graph, parts, r) \in Graph
           /\ \A p \in Part : /\ graph[p] \subseteq Changed(graph, parts, r)[p]
                              /\ Changed(graph, parts, r)[p] \subseteq graph[p] \cup {r}
                              /\ p \notin parts => Changed(graph, parts, r)[p] = graph[p]
BY DEF Changed, Graph

\* What is read back from the tables is what they hold, and nothing in the other parts.
LEMMA ReadBack ==
    ASSUME StorageTyped
    PROVE  /\ InMemory(ReadState(rows)) \in Graph
           /\ \A p \in Stored : InMemory(ReadState(rows))[p] = rows[p]
           /\ \A p \in Part \ Stored : InMemory(ReadState(rows))[p] = {}
<1>1. DOMAIN ReadState(rows) = Stored /\ \A p \in Stored : ReadState(rows)[p] = rows[p]
  BY DEF ReadState, EmptyState, StorageTyped
<1>2. \A p \in Part : InMemory(ReadState(rows))[p] = IF p \in Stored THEN rows[p] ELSE {}
  BY <1>1 DEF InMemory, DefaultState
<1>3. InMemory(ReadState(rows)) \in Graph
  BY <1>1 DEF InMemory, DefaultState, Graph, StorageTyped
<1> QED BY <1>2, <1>3, StoredParts

\* With the lock free nobody has a transaction open; with one open nobody else has.
LEMMA OneTransaction ==
    ASSUME Exclusive
    PROVE  /\ lock = None => \A o \in Owner : ~Active(o)
           /\ \A o, q \in Owner : Active(o) /\ q # o => ~Active(q)
BY SaveQueueApart DEF Exclusive

\* What is left to insert is the end of the tables.
LEMMA LeftShrinks ==
    ASSUME NEW left, NEW i \in 0..Len(Tables), left = SubSeq(Tables, i + 1, Len(Tables)),
           left # <<>>
    PROVE  /\ left \in Seq(Part) /\ Head(left) = left[1] /\ Head(left) \in Stored
           /\ Tail(left) \in Seq(Part)
           /\ Len(Tail(left)) = Len(left) - 1 /\ Len(left) \in Nat /\ Len(left) >= 1
           /\ \A j \in 1..Len(Tail(left)) : Tail(left)[j] = left[j + 1]
           /\ \E j \in 0..Len(Tables) : Tail(left) = SubSeq(Tables, j + 1, Len(Tables))
<1>1. Tables \in Seq(Part) /\ Len(Tables) \in Nat BY StoreAssumption, LenProperties
<1>2. i + 1 <= Len(Tables)
  <2>1. i + 1 \in Int /\ Len(Tables) \in Int /\ i \in Nat BY <1>1
  <2>2. CASE Len(Tables) < i + 1 BY <2>1, <2>2, SubSeqEmpty
  <2> QED BY <2>1, <2>2, <1>1
<1>3. i + 1 \in 1..Len(Tables) /\ Len(Tables) \in (i + 1)..Len(Tables) BY <1>1, <1>2
<1>4. Head(left) = Tables[i + 1] /\ Tail(left) = SubSeq(Tables, (i + 1) + 1, Len(Tables))
  BY <1>1, <1>3, HeadTailOfSubSeq
<1>5. left \in Seq(Part)
  <2>1. \A j \in (i + 1)..Len(Tables) : Tables[j] \in Part BY <1>1, ElementOfSeq
  <2> QED BY <1>1, <1>3, <2>1, SubSeqProperties
<1>6. Tail(left) \in Seq(Part) /\ Len(Tail(left)) = Len(left) - 1
      /\ \A j \in 1..Len(Tail(left)) : Tail(left)[j] = left[j + 1]
  BY <1>5, HeadTailProperties
<1>7. Head(left) \in Stored BY <1>3, <1>4 DEF Stored
<1>8. i + 1 \in 0..Len(Tables) BY <1>1, <1>3
<1>9. Len(left) \in Nat /\ Len(left) >= 1 /\ Head(left) = left[1]
  BY <1>5, LenProperties, EmptySeq
<1> QED BY <1>4, <1>5, <1>6, <1>7, <1>8, <1>9

(***************************************************************************)
(* The steps, one after the other.                                         *)
(***************************************************************************)
\* Before the server starts nothing is stored and nothing is open.
LEMMA StoreInit == Init => StoreInv
<1> SUFFICES ASSUME Init PROVE StoreInv
  OBVIOUS
<1> USE DEF Init
<1>1. \A o \in Owner : tx[o] = Closed /\ ~Active(o) /\ ~Filling(o)
  BY ClosedTyped DEF Active, Filling
<1>2. StorageTyped
  <2>1. \A o \in Owner : tx[o].left = SubSeq(Tables, Len(Tables) + 1, Len(Tables))
    BY <1>1, ClosedTyped
  <2>2. Len(Tables) \in 0..Len(Tables) BY ClosedTyped
  <2> QED BY <2>1, <2>2, ClosedTyped DEF StorageTyped, EmptyState
<1>3. GraphsTyped
  BY <1>1, ClosedTyped, EmptySeq DEF GraphsTyped
<1>4. CountsTyped
  <2>1. Len(chain) = 0 BY EmptySeq
  <2>2. issued \in Nat /\ settled \in Nat /\ issued = settled + Len(chain) BY <2>1
  <2>3. failures \in 0..MaxFailures /\ crashes \in 0..MaxCrashes BY StoreAssumption
  <2> QED BY <2>2, <2>3 DEF CountsTyped
<1>5. Process /\ Exclusive /\ FreshTx /\ SaveTx /\ Filled /\ Saved /\ Grown
  BY <1>1, SaveQueueApart DEF Process, Exclusive, FreshTx, SaveTx, Filled, Saved, Grown
<1>6. Untouched
  BY <1>1 DEF Untouched, EmptyState
<1> QED BY <1>2, <1>3, <1>4, <1>5, <1>6 DEF StoreInv

\* Steps that leave the tables, the graphs and the saves alone.
LEMMA QuietKeeps ==
    ASSUME StoreInv, UNCHANGED <<rows, lock, tx, process, ticket, bounds, wrote>>,
           database' \in {"missing", "bare", "ready"},
           pc' \in [Request -> {"new", "handling", "flushing", "done", "refused", "uncommitted", "lost"}],
           \A r \in Request : \/ pc'[r] = pc[r]
                              \/ up /\ pc[r] = "new" /\ pc'[r] = "handling"
                              \/ pc[r] = "flushing" /\ pc'[r] = "done"
    PROVE  StoreInv'
<1>0. /\ UNCHANGED <<rows, lock, tx, graphs, live, chain, issued, settled, lastError, up, ticket,
                     failures, crashes, wrote>>
      /\ \A r \in Request : pc[r] = "handling" => pc'[r] = "handling"
      /\ \A r \in Request : pc'[r] = "handling" => pc[r] = "handling" \/ up
      /\ \A r \in Request : pc'[r] \in {"new", "handling", "refused"}
                              => pc[r] \in {"new", "handling", "refused"}
  BY DEF process, bounds
<1>1. StorageTyped' BY <1>0 DEF StoreInv, StorageTyped
<1>2. GraphsTyped' BY <1>0 DEF StoreInv, GraphsTyped
<1>3. CountsTyped' BY <1>0 DEF StoreInv, CountsTyped
<1>4. Process' BY <1>0 DEF StoreInv, Process, Active
<1>5. Exclusive' BY <1>0 DEF StoreInv, Exclusive, Active
<1>6. FreshTx' BY <1>0 DEF StoreInv, FreshTx, Active, Queued
<1>7. SaveTx' BY <1>0 DEF StoreInv, SaveTx, Active
<1>8. Filled' BY <1>0 DEF StoreInv, Filled, Filling, Pending, Queued, Behind
<1>9. Saved' BY <1>0 DEF StoreInv, Saved, Queued
<1>10. Grown' BY <1>0 DEF StoreInv, Grown
<1>11. Untouched' BY <1>0 DEF StoreInv, Untouched, Active
<1> QED BY <1>1, <1>2, <1>3, <1>4, <1>5, <1>6, <1>7, <1>8, <1>9, <1>10, <1>11 DEF StoreInv

\* Creating the database and its tables stores no rows.
LEMMA StartKeeps ==
    ASSUME StoreInv, CreateDatabase \/ CreateTables
    PROVE  StoreInv'
<1>1. /\ UNCHANGED <<rows, lock, tx, process, ticket, bounds, wrote>> /\ pc' = pc
      /\ database' \in {"missing", "bare", "ready"}
  BY DEF CreateDatabase, CreateTables, requests
<1>2. pc' \in [Request -> {"new", "handling", "flushing", "done", "refused", "uncommitted", "lost"}]
  BY <1>1 DEF StoreInv, CountsTyped
<1> QED BY <1>1, <1>2, QuietKeeps

\* A request enters, or its flush returns.
LEMMA EnterKeeps ==
    ASSUME StoreInv, NEW r \in Request, Enter(r) \/ Flushed(r)
    PROVE  StoreInv'
<1>1. /\ UNCHANGED <<rows, lock, tx, process, ticket, bounds, wrote>> /\ database' = database
      /\ \/ up /\ pc[r] = "new" /\ pc' = [pc EXCEPT ![r] = "handling"]
         \/ pc[r] = "flushing" /\ pc' = [pc EXCEPT ![r] = "done"]
  BY DEF Enter, Flushed, storage
<1>2. pc \in [Request -> {"new", "handling", "flushing", "done", "refused", "uncommitted", "lost"}]
      /\ database \in {"missing", "bare", "ready"}
  BY DEF StoreInv, CountsTyped, StorageTyped
<1>3. /\ pc' \in [Request -> {"new", "handling", "flushing", "done", "refused", "uncommitted", "lost"}]
      /\ \A q \in Request : \/ pc'[q] = pc[q]
                            \/ up /\ pc[q] = "new" /\ pc'[q] = "handling"
                            \/ pc[q] = "flushing" /\ pc'[q] = "done"
  BY <1>1, <1>2
<1> QED BY <1>1, <1>2, <1>3, QuietKeeps

\* The graph of the stored rows is the only one, and its first save is queued.
LEMMA OpenKeeps ==
    ASSUME StoreInv, Open
    PROVE  StoreInv'
<1> DEFINE g == InMemory(ReadState(rows))
<1>1. /\ ~up /\ graphs' = <<g>> /\ live' = 1 /\ wrote' = 1 /\ chain' = Append(chain, 1)
      /\ issued' = issued + 1 /\ up' = TRUE
      /\ UNCHANGED <<database, rows, lock, tx, settled, lastError, pc, ticket, failures, crashes>>
  BY DEF Open, Enqueue, storage, requests, bounds
<1>2. chain = <<>> /\ (\A o \in Owner : ~Active(o)) /\ \A r \in Request : pc[r] # "handling"
  BY <1>1 DEF StoreInv, Process
<1>3. /\ g \in Graph /\ \A p \in Stored : g[p] = rows[p]
      /\ \A p \in Part \ Stored : g[p] = {}
  BY ReadBack DEF StoreInv
<1> HIDE DEF g
<1>4. chain' = <<1>> /\ Len(chain') = 1 /\ chain'[1] = 1 /\ Len(graphs') = 1 /\ graphs'[1] = g
  BY <1>1, <1>2
<1>5. \A o \in Owner : ~Active(o)' /\ ~Filling(o)' /\ tx'[o] = tx[o]
  BY <1>1, <1>2 DEF Active, Filling
<1>6. StorageTyped' BY <1>1 DEF StoreInv, StorageTyped
<1>7. GraphsTyped'
  <2>1. graphs' \in Seq(Graph) BY <1>1, <1>3
  <2>2. \A o \in Owner : tx'[o].graph \in 0..Len(graphs')
    <3>1. \A o \in Owner : tx[o].graph \in 0..Len(graphs) BY DEF StoreInv, GraphsTyped
    <3>2. graphs = <<>> /\ Len(graphs) = 0 BY <1>1 DEF StoreInv, Process
    <3> QED BY <1>4, <1>5, <3>1, <3>2
  <2>3. chain' \in Seq(Nat) BY <1>4
  <2>4. \A i \in 1..Len(chain') : chain'[i] \in 1..Len(graphs') BY <1>4
  <2> QED BY <1>1, <1>4, <2>1, <2>2, <2>3, <2>4 DEF GraphsTyped
<1>8. CountsTyped'
  <2>1. issued' = settled' + Len(chain') /\ issued' \in Nat
    <3>1. Len(chain) = 0 BY <1>2
    <3> QED BY <1>1, <1>4, <3>1 DEF StoreInv, CountsTyped
  <2> QED BY <1>1, <2>1 DEF StoreInv, CountsTyped
<1>9. Process' BY <1>1 DEF Process
<1>10. Exclusive' /\ FreshTx' /\ SaveTx' /\ Filled'
  BY <1>5, SaveQueueApart DEF Exclusive, FreshTx, SaveTx, Filled
<1>11. Saved' /\ Grown'
  BY <1>1, <1>3, <1>4 DEF Saved, Grown
<1>12. Untouched'
  <2> SUFFICES ASSUME NEW r \in Request, pc'[r] \in {"new", "handling", "refused"},
                      tx'[r].phase # "synced", NEW p \in Fresh[r] \ Direct[r]
               PROVE  /\ p \in Stored => r \notin rows'[p]
                      /\ r \notin graphs'[1][p]
    BY <1>1, <1>4, <1>5 DEF Untouched
  <2>1. p \in Stored => r \notin rows[p]
    <3>1. tx[r].phase # "synced" /\ pc[r] \in {"new", "handling", "refused"} BY <1>1
    <3> QED BY <3>1 DEF StoreInv, Untouched
  <2>2. p \in Part BY StoreAssumption
  <2>3. r \notin g[p] BY <1>3, <2>1, <2>2
  <2> QED BY <1>1, <1>4, <2>1, <2>3
<1> QED BY <1>6, <1>7, <1>8, <1>9, <1>10, <1>11, <1>12 DEF StoreInv

\* A transaction works on a graph of this process.
LEMMA ActiveGraphs ==
    ASSUME StoreInv
    PROVE  /\ Len(graphs) \in Nat /\ graphs \in Seq(Graph)
           /\ \A o \in Owner : Active(o) => up /\ tx[o].graph \in 1..Len(graphs)
                                            /\ graphs[tx[o].graph] \in Graph
<1>1. Len(graphs) \in Nat /\ graphs \in Seq(Graph) BY LenProperties DEF StoreInv, GraphsTyped
<1>2. \A o \in Owner : Active(o) => up BY DEF StoreInv, Process
<1>3. up => live \in 1..Len(graphs) BY <1>1 DEF StoreInv, Process, GraphsTyped
<1>4. \A o \in Request : Active(o) => tx[o].graph \in 1..Len(graphs)
  BY <1>1, <1>2, <1>3, SaveQueueApart DEF StoreInv, FreshTx
<1>5. Active(SaveQueue) => tx[SaveQueue].graph \in 1..Len(graphs)
  <2>1. Active(SaveQueue) => chain # <<>> /\ tx[SaveQueue].graph = chain[1]
    BY DEF StoreInv, SaveTx
  <2>2. chain # <<>> => 1 \in 1..Len(chain)
    BY EmptySeq, LenProperties DEF StoreInv, GraphsTyped
  <2> QED BY <2>1, <2>2 DEF StoreInv, GraphsTyped
<1>6. \A o \in Owner : Active(o) => tx[o].graph \in 1..Len(graphs) BY <1>4, <1>5 DEF Owner
<1> QED BY <1>1, <1>2, <1>6, ElementOfSeq

\* A save of a graph is queued behind the others.
LEMMA Enqueued ==
    ASSUME GraphsTyped, NEW g \in Nat, chain' = Append(chain, g)
    PROVE  /\ chain' \in Seq(Nat) /\ Len(chain') = Len(chain) + 1 /\ Len(chain) \in Nat
           /\ \A i \in 1..Len(chain) : chain'[i] = chain[i]
           /\ chain'[Len(chain) + 1] = g
           /\ chain # <<>> => chain'[1] = chain[1] /\ chain' # <<>> /\ Behind(g)'
           /\ \A h : Queued(h)' <=> Queued(h) \/ h = g
           /\ \A h : Behind(h) => Behind(h)'
<1>1. chain \in Seq(Nat) BY DEF GraphsTyped
<1>2. /\ chain' \in Seq(Nat) /\ Len(chain') = Len(chain) + 1 /\ Len(chain) \in Nat /\ chain' # <<>>
      /\ \A i \in 1..Len(chain) : chain'[i] = chain[i]
      /\ chain'[Len(chain) + 1] = g
  BY <1>1, AppendProperties, LenProperties
<1>3. chain # <<>> => Len(chain) >= 1 BY <1>1, EmptySeq
<1>4. chain # <<>> => chain'[1] = chain[1] /\ Behind(g)'
  <2> SUFFICES ASSUME chain # <<>> PROVE chain'[1] = chain[1] /\ Behind(g)'
    OBVIOUS
  <2>1. 1 \in 1..Len(chain) /\ Len(chain) + 1 \in 2..Len(chain') BY <1>2, <1>3
  <2> QED BY <1>2, <2>1 DEF Behind
<1>5. \A h : Queued(h)' <=> Queued(h) \/ h = g
  <2>1. 1..Len(chain') = 1..Len(chain) \cup {Len(chain) + 1} BY <1>2
  <2> QED BY <1>2, <2>1 DEF Queued
<1>6. \A h : Behind(h) => Behind(h)'
  <2>1. 2..Len(chain) \subseteq 1..Len(chain) /\ 2..Len(chain) \subseteq 2..Len(chain') BY <1>2
  <2> QED BY <1>2, <2>1 DEF Behind
<1> QED BY <1>2, <1>4, <1>5, <1>6

\* The graphs once a request has changed the live one.
Decided(r) == [graphs EXCEPT ![live] = Changed(@, Direct[r], r)]

\* A request that changes the live graph changes no other.
LEMMA LiveChanged ==
    ASSUME GraphsTyped, live >= 1, NEW r \in Request
    PROVE  /\ live \in 1..Len(graphs) /\ Len(graphs) \in Nat
           /\ Decided(r) \in Seq(Graph) /\ Len(Decided(r)) = Len(graphs)
           /\ \A g \in 1..Len(graphs) : g # live => Decided(r)[g] = graphs[g]
           /\ \A g \in 1..Len(graphs), p \in Part :
                /\ graphs[g][p] \subseteq Decided(r)[g][p]
                /\ Decided(r)[g][p] \subseteq graphs[g][p] \cup {r}
                /\ p \notin Direct[r] => Decided(r)[g][p] = graphs[g][p]
<1>1. graphs \in Seq(Graph) /\ Len(graphs) \in Nat BY LenProperties DEF GraphsTyped
<1>2. live \in 1..Len(graphs) /\ graphs[live] \in Graph
  <2>1. live \in 1..Len(graphs) BY <1>1 DEF GraphsTyped
  <2> QED BY <1>1, <2>1, ElementOfSeq
<1> DEFINE e == Changed(graphs[live], Direct[r], r)
<1>3. /\ e \in Graph
      /\ \A p \in Part : /\ graphs[live][p] \subseteq e[p] /\ e[p] \subseteq graphs[live][p] \cup {r}
                         /\ p \notin Direct[r] => e[p] = graphs[live][p]
  BY <1>2, ChangedGrows
<1>4. Decided(r) = [graphs EXCEPT ![live] = e] BY DEF Decided
<1> HIDE DEF e
<1>5. /\ Decided(r) \in Seq(Graph) /\ Len(Decided(r)) = Len(graphs)
      /\ \A g \in 1..Len(graphs) : Decided(r)[g] = IF g = live THEN e ELSE graphs[g]
  BY <1>1, <1>2, <1>3, <1>4, ExceptSeq
<1> QED BY <1>1, <1>2, <1>3, <1>5

\* A request that changes the live graph queues a save of it.
LEMMA HandleKeeps ==
    ASSUME StoreInv, NEW r \in Request, Handle(r)
    PROVE  StoreInv'
<1>1. /\ pc[r] = "handling" /\ Fresh[r] = {}
      /\ graphs' = Decided(r)
      /\ chain' = Append(chain, live) /\ issued' = issued + 1
      /\ pc' = [pc EXCEPT ![r] = "flushing"]
      /\ ticket' = [ticket EXCEPT ![r] = issued + 1]
      /\ UNCHANGED <<database, rows, lock, tx, live, settled, lastError, up, failures, crashes, wrote>>
  BY DEF Handle, Enqueue, storage, bounds, Decided
<1>2. up /\ live >= 1 /\ wrote >= 1 BY <1>1 DEF StoreInv, Process
<1>3. /\ live \in 1..Len(graphs) /\ Len(graphs) \in Nat
      /\ graphs' \in Seq(Graph) /\ Len(graphs') = Len(graphs)
      /\ \A g \in 1..Len(graphs) : g # live => graphs'[g] = graphs[g]
      /\ \A g \in 1..Len(graphs), p \in Part :
           /\ graphs[g][p] \subseteq graphs'[g][p] /\ graphs'[g][p] \subseteq graphs[g][p] \cup {r}
           /\ p \notin Direct[r] => graphs'[g][p] = graphs[g][p]
  <2>1. GraphsTyped BY DEF StoreInv
  <2>2. live >= 1 BY <1>2
  <2>3. /\ live \in 1..Len(graphs) /\ Len(graphs) \in Nat
        /\ Decided(r) \in Seq(Graph) /\ Len(Decided(r)) = Len(graphs)
        /\ \A g \in 1..Len(graphs) : g # live => Decided(r)[g] = graphs[g]
        /\ \A g \in 1..Len(graphs), p \in Part :
              /\ graphs[g][p] \subseteq Decided(r)[g][p]
              /\ Decided(r)[g][p] \subseteq graphs[g][p] \cup {r}
              /\ p \notin Direct[r] => Decided(r)[g][p] = graphs[g][p]
    BY <2>1, <2>2, LiveChanged
  <2>4. graphs' = Decided(r) BY <1>1
  <2> QED BY <2>3, <2>4
<1>4. /\ chain' \in Seq(Nat) /\ Len(chain') = Len(chain) + 1 /\ Len(chain) \in Nat
      /\ \A i \in 1..Len(chain) : chain'[i] = chain[i]
      /\ chain'[Len(chain) + 1] = live
      /\ chain # <<>> => chain'[1] = chain[1] /\ chain' # <<>> /\ Behind(live)'
      /\ \A h : Queued(h)' <=> Queued(h) \/ h = live
      /\ \A h : Behind(h) => Behind(h)'
  <2>1. live \in Nat BY <1>3
  <2> QED BY <1>1, <2>1, Enqueued DEF StoreInv
<1>5. \A q \in Request : pc'[q] = IF q = r THEN "flushing" ELSE pc[q]
  BY <1>1 DEF StoreInv, CountsTyped
<1>6. \A o \in Owner : /\ (Active(o)' <=> Active(o)) /\ (Filling(o)' <=> Filling(o))
                       /\ Pending(o)' = Pending(o) /\ tx'[o] = tx[o]
  BY <1>1 DEF Active, Filling, Pending
<1>7. \A o \in Owner : Active(o) => tx[o].graph \in 1..Len(graphs)
  BY ActiveGraphs
<1>8. StorageTyped' BY <1>1 DEF StoreInv, StorageTyped
<1>9. GraphsTyped'
  <2>1. \A i \in 1..Len(chain') : chain'[i] \in 1..Len(graphs')
    <3> SUFFICES ASSUME NEW i \in 1..Len(chain') PROVE chain'[i] \in 1..Len(graphs')
      OBVIOUS
    <3>1. i \in 1..Len(chain) \/ i = Len(chain) + 1 BY <1>4
    <3> QED BY <1>3, <1>4, <3>1 DEF StoreInv, GraphsTyped
  <2> QED BY <1>1, <1>3, <1>4, <2>1 DEF StoreInv, GraphsTyped
<1>10. CountsTyped'
  <2>1. issued' \in Nat /\ issued' = settled' + Len(chain')
    <3> DEFINE n == Len(chain)
    <3>1. n \in Nat /\ Len(chain') = n + 1
      BY <1>4
    <3>2. issued \in Nat /\ settled \in Nat /\ issued = settled + n
      BY DEF StoreInv, CountsTyped
    <3>3. issued' = issued + 1 /\ settled' = settled
      BY <1>1
    <3> HIDE DEF n
    <3> QED BY <3>1, <3>2, <3>3
  <2>2. pc' \in [Request -> {"new", "handling", "flushing", "done", "refused", "uncommitted", "lost"}]
        /\ ticket' \in [Request -> Nat]
    BY <1>1 DEF StoreInv, CountsTyped
  <2> QED BY <1>1, <2>1, <2>2 DEF StoreInv, CountsTyped
<1>11. Process' BY <1>1, <1>2 DEF Process
<1>12. Exclusive' BY <1>1, <1>6 DEF StoreInv, Exclusive
<1>13. FreshTx'
  <2> SUFFICES ASSUME NEW q \in Request, Active(q)
               PROVE  /\ pc'[q] = "handling" /\ Fresh[q] # {}
                      /\ tx[q].graph = Len(graphs') /\ wrote' # tx[q].graph
                      /\ IF tx[q].phase = "synced" THEN live' = tx[q].graph
                         ELSE live' # tx[q].graph /\ ~Queued(tx[q].graph)'
                      /\ \A p \in Stored :
                           IF tx[q].phase = "running" THEN graphs'[tx[q].graph][p] = rows'[p]
                           ELSE rows'[p] \subseteq graphs'[tx[q].graph][p]
    BY <1>6, SaveQueueApart DEF FreshTx
  <2>1. /\ pc[q] = "handling" /\ Fresh[q] # {}
        /\ tx[q].graph = Len(graphs) /\ wrote # tx[q].graph
        /\ IF tx[q].phase = "synced" THEN live = tx[q].graph
           ELSE live # tx[q].graph /\ ~Queued(tx[q].graph)
        /\ \A p \in Stored :
             IF tx[q].phase = "running" THEN graphs[tx[q].graph][p] = rows[p]
             ELSE rows[p] \subseteq graphs[tx[q].graph][p]
    BY DEF StoreInv, FreshTx
  <2>2. tx[q].graph \in 1..Len(graphs) BY <1>7, SaveQueueApart
  <2>3. q # r BY <1>1, <2>1
  <2>4. \A p \in Stored : graphs[tx[q].graph][p] \subseteq graphs'[tx[q].graph][p]
    BY <1>3, <2>2, StoredParts
  <2>5. tx[q].phase = "running" => graphs'[tx[q].graph] = graphs[tx[q].graph]
    BY <1>3, <2>1, <2>2
  <2>6. \A p \in Stored :
             IF tx[q].phase = "running" THEN graphs'[tx[q].graph][p] = rows'[p]
             ELSE rows'[p] \subseteq graphs'[tx[q].graph][p]
    BY <1>1, <2>1, <2>4, <2>5
  <2> QED BY <1>1, <1>3, <1>4, <1>5, <2>1, <2>3, <2>6
<1>14. SaveTx' BY <1>4, <1>6, SaveQueueApart DEF StoreInv, SaveTx
<1>15. Filled'
  <2> SUFFICES ASSUME NEW o \in Owner, Filling(o)
               PROVE  /\ tx[o].phase # "inserting" => tx[o].left = <<>>
                      /\ \A p \in Stored \ Pending(o) :
                           /\ tx[o].new[p] \subseteq graphs'[tx[o].graph][p]
                           /\ \/ tx[o].new[p] = graphs'[tx[o].graph][p]
                              \/ IF o = SaveQueue THEN Behind(tx[o].graph)' ELSE Queued(tx[o].graph)'
                           /\ o \in Request \/ tx[o].graph = wrote' => rows'[p] \subseteq tx[o].new[p]
    BY <1>6 DEF Filled
  <2>1. Active(o) /\ tx[o].graph \in 1..Len(graphs) BY <1>7 DEF Filling, Active
  <2>2. o = SaveQueue => chain # <<>> BY <2>1 DEF StoreInv, SaveTx
  <2>3. tx[o].phase # "inserting" => tx[o].left = <<>> BY DEF StoreInv, Filled
  <2> SUFFICES ASSUME NEW p \in Stored \ Pending(o)
               PROVE  /\ tx[o].new[p] \subseteq graphs'[tx[o].graph][p]
                      /\ \/ tx[o].new[p] = graphs'[tx[o].graph][p]
                         \/ IF o = SaveQueue THEN Behind(tx[o].graph)' ELSE Queued(tx[o].graph)'
                      /\ o \in Request \/ tx[o].graph = wrote' => rows'[p] \subseteq tx[o].new[p]
    BY <2>3
  <2>4. /\ tx[o].new[p] \subseteq graphs[tx[o].graph][p]
        /\ \/ tx[o].new[p] = graphs[tx[o].graph][p]
           \/ IF o = SaveQueue THEN Behind(tx[o].graph) ELSE Queued(tx[o].graph)
        /\ o \in Request \/ tx[o].graph = wrote => rows[p] \subseteq tx[o].new[p]
    BY DEF StoreInv, Filled
  <2>5. graphs[tx[o].graph][p] \subseteq graphs'[tx[o].graph][p] BY <1>3, <2>1, StoredParts
  <2>6. \/ tx[o].new[p] = graphs'[tx[o].graph][p]
        \/ IF o = SaveQueue THEN Behind(tx[o].graph)' ELSE Queued(tx[o].graph)'
    <3>1. CASE tx[o].graph = live
      <4>1. o = SaveQueue => Behind(tx[o].graph)' BY <1>1, <1>4, <2>2, <3>1 DEF Behind
      <4>2. Queued(tx[o].graph)' BY <1>1, <1>4, <3>1 DEF Queued
      <4> QED BY <4>1, <4>2
    <3>2. CASE tx[o].graph # live
      <4>1. graphs'[tx[o].graph] = graphs[tx[o].graph] BY <1>3, <2>1, <3>2
      <4>2. Behind(tx[o].graph) => Behind(tx[o].graph)' BY <1>1, <1>4 DEF Behind
      <4>3. Queued(tx[o].graph) => Queued(tx[o].graph)' BY <1>1, <1>4 DEF Queued
      <4> QED BY <2>4, <4>1, <4>2, <4>3
    <3> QED BY <3>1, <3>2
  <2> QED BY <1>1, <2>4, <2>5, <2>6
<1>16. Saved' BY <1>1, <1>4 DEF Saved
<1>17. Grown'
  <2> SUFFICES ASSUME NEW p \in Stored PROVE rows[p] \subseteq graphs'[wrote][p]
    BY <1>1 DEF Grown
  <2>1. wrote \in 1..Len(graphs) BY <1>2, <1>3 DEF StoreInv, GraphsTyped
  <2>2. rows[p] \subseteq graphs[wrote][p] BY <1>2 DEF StoreInv, Grown
  <2> QED BY <1>3, <2>1, <2>2, StoredParts
<1>18. Untouched'
  <2> SUFFICES ASSUME NEW q \in Request, pc'[q] \in {"new", "handling", "refused"},
                      tx[q].phase # "synced", NEW p \in Fresh[q] \ Direct[q]
               PROVE  /\ p \in Stored => q \notin rows[p]
                      /\ q \notin graphs'[live][p]
                      /\ \A i \in 1..Len(chain') : q \notin graphs'[chain'[i]][p]
                      /\ \A o \in Owner \ {q} : Active(o) =>
                           q \notin graphs'[tx[o].graph][p] /\ (p \in Stored => q \notin tx[o].new[p])
    BY <1>1, <1>6 DEF Untouched
  <2>1. q # r /\ pc[q] \in {"new", "handling", "refused"} /\ p \in Part
    BY <1>5, StoreAssumption
  <2>2. /\ p \in Stored => q \notin rows[p]
        /\ q \notin graphs[live][p]
        /\ \A i \in 1..Len(chain) : q \notin graphs[chain[i]][p]
        /\ \A o \in Owner \ {q} : Active(o) =>
             q \notin graphs[tx[o].graph][p] /\ (p \in Stored => q \notin tx[o].new[p])
    BY <1>2, <2>1 DEF StoreInv, Untouched
  <2>3. \A g \in 1..Len(graphs) : q \notin graphs[g][p] => q \notin graphs'[g][p]
    BY <1>3, <2>1
  <2>4. \A i \in 1..Len(chain') : q \notin graphs'[chain'[i]][p]
    <3> SUFFICES ASSUME NEW i \in 1..Len(chain') PROVE q \notin graphs'[chain'[i]][p]
      OBVIOUS
    <3>1. CASE i \in 1..Len(chain)
      <4>1. chain'[i] = chain[i] /\ chain[i] \in 1..Len(graphs)
        BY <1>4, <3>1 DEF StoreInv, GraphsTyped
      <4> QED BY <2>2, <2>3, <3>1, <4>1
    <3>2. CASE i = Len(chain) + 1 BY <1>3, <1>4, <2>2, <2>3, <3>2
    <3> QED BY <1>4, <3>1, <3>2
  <2> QED BY <1>3, <1>7, <2>2, <2>3, <2>4
<1> QED BY <1>8, <1>9, <1>10, <1>11, <1>12, <1>13, <1>14, <1>15, <1>16, <1>17, <1>18 DEF StoreInv

\* A transaction that takes the free lock is the only one.
LEMMA TakesLock ==
    ASSUME StoreInv, NEW o \in Owner, LockTenant(o), NEW t \in Tx,
           tx' = [tx EXCEPT ![o] = t], t.phase # "closed",
           \E i \in 0..Len(Tables) : t.left = SubSeq(Tables, i + 1, Len(Tables)),
           UNCHANGED <<database, rows>>
    PROVE  /\ StorageTyped' /\ Exclusive'
           /\ \A q \in Owner : /\ tx'[q] = IF q = o THEN t ELSE tx[q]
                               /\ ~Active(q) /\ (Active(q)' => q = o)
<1>1. /\ lock = None /\ lock' = o BY DEF LockTenant
<1>2. tx \in [Owner -> Tx] /\ StorageTyped /\ Exclusive BY DEF StoreInv, StorageTyped
<1>3. \A q \in Owner : ~Active(q) BY <1>1, <1>2, OneTransaction
<1>4. tx' \in [Owner -> Tx] /\ \A q \in Owner : tx'[q] = IF q = o THEN t ELSE tx[q]
  BY <1>2
<1>5. \A q \in Owner : Active(q)' => q = o BY <1>3, <1>4 DEF Active
<1>6. Exclusive' BY <1>1, <1>5 DEF Exclusive
<1>7. StorageTyped' BY <1>1, <1>2, <1>4 DEF StorageTyped
<1> QED BY <1>3, <1>4, <1>5, <1>6, <1>7

\* What a request reads on fresh state is what is committed, in a graph nobody else knows.
LEMMA BeginFreshKeeps ==
    ASSUME StoreInv, NEW r \in Request, BeginFresh(r)
    PROVE  StoreInv'
<1> DEFINE g == InMemory(ReadState(rows))
<1>1. /\ pc[r] = "handling" /\ Fresh[r] # {} /\ LockTenant(r)
      /\ graphs' = Append(graphs, g)
      /\ tx' = [tx EXCEPT ![r] = [Closed EXCEPT !.phase = "running", !.graph = Len(graphs) + 1]]
      /\ UNCHANGED <<database, rows, live, chain, issued, settled, lastError, up, pc, ticket,
                     failures, crashes, wrote>>
  BY DEF BeginFresh, requests, bounds
<1>2. up /\ live >= 1 /\ wrote >= 1 BY <1>1 DEF StoreInv, Process
<1>3. /\ g \in Graph /\ \A p \in Stored : g[p] = rows[p]
      /\ \A p \in Part \ Stored : g[p] = {}
  BY ReadBack DEF StoreInv
<1>4. /\ graphs \in Seq(Graph) /\ Len(graphs) \in Nat BY ActiveGraphs
<1> HIDE DEF g
<1>5. PICK t \in Tx :
      /\ tx' = [tx EXCEPT ![r] = t] /\ t.phase = "running" /\ t.graph = Len(graphs) + 1
      /\ t.left = SubSeq(Tables, Len(Tables) + 1, Len(Tables)) /\ Len(Tables) \in 0..Len(Tables)
      /\ t.new = EmptyState
  <2> DEFINE u == [Closed EXCEPT !.phase = "running", !.graph = Len(graphs) + 1]
  <2>1. /\ u \in Tx /\ u.phase = "running" /\ u.graph = Len(graphs) + 1
        /\ u.left = Closed.left /\ u.new = Closed.new
    <3>1. Closed \in [phase : Phases, graph : Nat, left : Seq(Part), new : [Stored -> SUBSET Request]]
      BY ClosedTyped DEF Tx
    <3>2. u.phase = "running" /\ u.graph = Len(graphs) + 1 /\ u.left = Closed.left /\ u.new = Closed.new
      BY <3>1
    <3>3. "running" \in Phases BY DEF Phases
    <3>4. Len(graphs) + 1 \in Nat BY <1>4
    <3>5. u \in [phase : Phases, graph : Nat, left : Seq(Part), new : [Stored -> SUBSET Request]]
      BY <3>1, <3>3, <3>4
    <3> QED BY <3>2, <3>5 DEF Tx
  <2>2. Closed.new = EmptyState BY DEF Closed
  <2>3. Len(Tables) \in 0..Len(Tables) BY ClosedTyped
  <2>4. tx' = [tx EXCEPT ![r] = u] BY <1>1
  <2> HIDE DEF u
  <2> QED BY <2>1, <2>2, <2>3, <2>4, ClosedTyped
<1>6. /\ graphs' \in Seq(Graph) /\ Len(graphs') = Len(graphs) + 1
      /\ \A i \in 1..Len(graphs) : graphs'[i] = graphs[i]
      /\ graphs'[Len(graphs) + 1] = g
  BY <1>1, <1>3, <1>4, AppendProperties
<1>7. /\ StorageTyped' /\ Exclusive'
      /\ \A q \in Owner : /\ tx'[q] = IF q = r THEN t ELSE tx[q]
                          /\ ~Active(q) /\ (Active(q)' => q = r)
  <2>1. \E i \in 0..Len(Tables) : t.left = SubSeq(Tables, i + 1, Len(Tables)) BY <1>5
  <2>2. t.phase # "closed" BY <1>5
  <2>3. UNCHANGED <<database, rows>> BY <1>1
  <2>4. LockTenant(r) /\ tx' = [tx EXCEPT ![r] = t] BY <1>1, <1>5
  <2> QED BY <1>5, <2>1, <2>2, <2>3, <2>4, SaveQueueApart, TakesLock
<1>8. /\ live \in 1..Len(graphs) /\ wrote \in 1..Len(graphs)
      /\ \A i \in 1..Len(chain) : chain[i] \in 1..Len(graphs)
  BY <1>2, <1>4 DEF StoreInv, GraphsTyped
<1>9. GraphsTyped'
  <2>1. \A q \in Owner : tx'[q].graph \in 0..Len(graphs')
    BY <1>4, <1>5, <1>6, <1>7 DEF StoreInv, GraphsTyped
  <2>2. \A i \in 1..Len(chain') : chain'[i] \in 1..Len(graphs') BY <1>1, <1>4, <1>6, <1>8
  <2>3. live' \in 0..Len(graphs') /\ wrote' \in 0..Len(graphs') BY <1>1, <1>4, <1>6, <1>8
  <2>4. chain' \in Seq(Nat) BY <1>1 DEF StoreInv, GraphsTyped
  <2> QED BY <1>6, <2>1, <2>2, <2>3, <2>4 DEF GraphsTyped
<1>10. CountsTyped' BY <1>1 DEF StoreInv, CountsTyped
<1>11. Process' BY <1>1, <1>2 DEF Process
<1>12. FreshTx'
  <2>1. wrote' # t.graph /\ live' # t.graph /\ ~Queued(t.graph)'
    <3>1. t.graph \notin 1..Len(graphs) BY <1>4, <1>5
    <3>2. ~Queued(t.graph)' BY <1>1, <1>8, <3>1 DEF Queued
    <3> QED BY <1>1, <1>8, <3>1, <3>2
  <2>2. \A p \in Stored : graphs'[t.graph][p] = rows'[p] BY <1>1, <1>3, <1>5, <1>6
  <2>3. \A q \in Request : Active(q)' => q = r /\ tx'[q] = t BY <1>7, SaveQueueApart
  <2> SUFFICES ASSUME NEW q \in Request, Active(q)'
               PROVE  /\ pc[r] = "handling" /\ Fresh[r] # {}
                      /\ t.graph = Len(graphs') /\ wrote' # t.graph
                      /\ live' # t.graph /\ ~Queued(t.graph)'
                      /\ \A p \in Stored : graphs'[t.graph][p] = rows'[p]
    BY <1>1, <1>5, <2>3 DEF FreshTx
  <2> QED BY <1>1, <1>5, <1>6, <2>1, <2>2
<1>13. SaveTx' BY <1>7, SaveQueueApart DEF SaveTx
<1>14. Filled' BY <1>5, <1>7 DEF Filled, Filling, Active
<1>15. Saved' BY <1>1, <1>6, <1>8 DEF StoreInv, Saved, Queued
<1>16. Grown' BY <1>1, <1>6, <1>8 DEF StoreInv, Grown
<1>17. Untouched'
  <2> SUFFICES ASSUME NEW q \in Request, pc[q] \in {"new", "handling", "refused"},
                      NEW p \in Fresh[q] \ Direct[q]
               PROVE  /\ p \in Stored => q \notin rows[p]
                      /\ q \notin graphs'[live][p]
                      /\ \A i \in 1..Len(chain) : q \notin graphs'[chain[i]][p]
                      /\ q \notin graphs'[t.graph][p] /\ (p \in Stored => q \notin t.new[p])
    BY <1>1, <1>7 DEF Untouched
  <2>1. tx[q].phase # "synced" /\ p \in Part BY <1>7, SaveQueueApart, StoreAssumption DEF Active
  <2>2. /\ p \in Stored => q \notin rows[p]
        /\ q \notin graphs[live][p]
        /\ \A i \in 1..Len(chain) : q \notin graphs[chain[i]][p]
    BY <1>2, <2>1 DEF StoreInv, Untouched
  <2>3. q \notin graphs'[t.graph][p] BY <1>3, <1>5, <1>6, <2>1, <2>2
  <2>4. p \in Stored => q \notin t.new[p] BY <1>5 DEF EmptyState
  <2> QED BY <1>6, <1>8, <2>2, <2>3, <2>4
<1> QED BY <1>7, <1>9, <1>10, <1>11, <1>12, <1>13, <1>14, <1>15, <1>16, <1>17 DEF StoreInv

\* Everything is still to be inserted when a transaction begins to insert.
LEMMA AllPending == Tables \in Seq(Part) /\ Tables = SubSeq(Tables, 0 + 1, Len(Tables)) /\ 0 \in 0..Len(Tables)
<1>1. Tables \in Seq(Part) /\ Len(Tables) \in Nat BY StoreAssumption, LenProperties
<1> QED BY <1>1, SubSeqFull

\* The save at the head has everything still to insert.
LEMMA BeginSaveKeeps ==
    ASSUME StoreInv, BeginSave
    PROVE  StoreInv'
<1> DEFINE t == [Closed EXCEPT !.phase = "inserting", !.graph = Head(chain), !.left = Tables]
<1>1. /\ up /\ chain # <<>> /\ LockTenant(SaveQueue)
      /\ tx' = [tx EXCEPT ![SaveQueue] = t]
      /\ UNCHANGED <<database, rows, graphs, live, chain, issued, settled, lastError, up, pc, ticket,
                     failures, crashes, wrote>>
  BY DEF BeginSave, process, requests, bounds
<1>2. /\ Head(chain) = chain[1] /\ 1 \in 1..Len(chain) /\ chain[1] \in Nat
      /\ chain[1] \in 1..Len(graphs)
  <2>1. chain \in Seq(Nat) BY DEF StoreInv, GraphsTyped
  <2>2. Len(chain) \in Nat /\ Len(chain) >= 1 /\ Head(chain) = chain[1]
    BY <1>1, <2>1, EmptySeq, LenProperties
  <2>3. 1 \in 1..Len(chain) BY <2>2
  <2>4. chain[1] \in Nat BY <2>1, <2>3, ElementOfSeq
  <2>5. chain[1] \in 1..Len(graphs) BY <2>3 DEF StoreInv, GraphsTyped
  <2> QED BY <2>2, <2>3, <2>4, <2>5
<1>3. /\ t \in Tx /\ t.phase = "inserting" /\ t.graph = chain[1] /\ t.left = Tables
      /\ t.new = EmptyState
  BY <1>2, AllPending, ClosedTyped DEF Tx, Closed, Phases
<1> HIDE DEF t
<1>4. /\ StorageTyped' /\ Exclusive'
      /\ \A q \in Owner : /\ tx'[q] = IF q = SaveQueue THEN t ELSE tx[q]
                          /\ ~Active(q) /\ (Active(q)' => q = SaveQueue)
  <2>1. \E i \in 0..Len(Tables) : t.left = SubSeq(Tables, i + 1, Len(Tables)) BY <1>3, AllPending
  <2>2. t.phase # "closed" BY <1>3
  <2>3. UNCHANGED <<database, rows>> BY <1>1
  <2>4. LockTenant(SaveQueue) /\ tx' = [tx EXCEPT ![SaveQueue] = t] BY <1>1
  <2> QED BY <1>3, <2>1, <2>2, <2>3, <2>4, SaveQueueApart, TakesLock
<1>5. GraphsTyped'
  <2>1. \A q \in Owner : tx'[q].graph \in 0..Len(graphs)
    BY <1>2, <1>3, <1>4 DEF StoreInv, GraphsTyped
  <2> QED BY <1>1, <2>1 DEF StoreInv, GraphsTyped
<1>6. CountsTyped' BY <1>1 DEF StoreInv, CountsTyped
<1>7. Process' BY <1>1 DEF StoreInv, Process
<1>8. FreshTx' BY <1>4, SaveQueueApart DEF FreshTx
<1>9. SaveTx' BY <1>1, <1>3, <1>4, SaveQueueApart DEF SaveTx
<1>10. Filled'
  <2>1. \A q \in Owner : Filling(q)' => q = SaveQueue BY <1>4 DEF Filling, Active
  <2>2. tx'[SaveQueue] = t BY <1>4, SaveQueueApart
  <2>3. Stored \ Pending(SaveQueue)' = {} BY <1>3, <2>2 DEF Pending, Stored
  <2> QED BY <1>3, <2>1, <2>2, <2>3 DEF Filled
<1>11. Saved' /\ Grown' BY <1>1 DEF StoreInv, Saved, Grown, Queued
<1>12. Untouched'
  <2> SUFFICES ASSUME NEW q \in Request, pc[q] \in {"new", "handling", "refused"},
                      NEW p \in Fresh[q] \ Direct[q]
               PROVE  /\ p \in Stored => q \notin rows[p]
                      /\ q \notin graphs[live][p]
                      /\ \A i \in 1..Len(chain) : q \notin graphs[chain[i]][p]
                      /\ q \notin graphs[t.graph][p] /\ (p \in Stored => q \notin t.new[p])
    BY <1>1, <1>4 DEF Untouched
  <2>1. tx[q].phase # "synced" BY <1>4, SaveQueueApart DEF Active
  <2>2. /\ p \in Stored => q \notin rows[p]
        /\ q \notin graphs[live][p]
        /\ \A i \in 1..Len(chain) : q \notin graphs[chain[i]][p]
    BY <1>1, <2>1 DEF StoreInv, Untouched
  <2>3. p \in Stored => q \notin t.new[p] BY <1>3 DEF EmptyState
  <2> QED BY <1>2, <1>3, <2>2, <2>3
<1> QED BY <1>4, <1>5, <1>6, <1>7, <1>8, <1>9, <1>10, <1>11, <1>12 DEF StoreInv

\* A transaction that goes on is still the only one, and on the same graph.
LEMMA MovesOn ==
    ASSUME StoreInv, NEW o \in Owner, Active(o), NEW t \in Tx,
           tx' = [tx EXCEPT ![o] = t], t.phase # "closed", t.graph = tx[o].graph,
           \E i \in 0..Len(Tables) : t.left = SubSeq(Tables, i + 1, Len(Tables)),
           UNCHANGED <<database, rows, lock>>
    PROVE  /\ StorageTyped' /\ Exclusive'
           /\ \A q \in Owner : /\ tx'[q] = IF q = o THEN t ELSE tx[q]
                               /\ tx'[q].graph = tx[q].graph
                               /\ (Active(q) <=> q = o) /\ (Active(q)' <=> q = o)
<1>1. tx \in [Owner -> Tx] /\ StorageTyped /\ Exclusive BY DEF StoreInv, StorageTyped
<1>2. \A q \in Owner : Active(q) <=> q = o BY <1>1, OneTransaction
<1>3. tx' \in [Owner -> Tx] /\ \A q \in Owner : tx'[q] = IF q = o THEN t ELSE tx[q]
  BY <1>1
<1>4. \A q \in Owner : Active(q)' <=> q = o BY <1>2, <1>3 DEF Active
<1>5. Exclusive' BY <1>1, <1>4 DEF Exclusive
<1>6. StorageTyped' BY <1>1, <1>3 DEF StorageTyped
<1> QED BY <1>2, <1>3, <1>4, <1>5, <1>6

\* The runner's changes go into its own graph, which no save is waiting for.
LEMMA RunFreshKeeps ==
    ASSUME StoreInv, NEW r \in Request, RunFresh(r)
    PROVE  StoreInv'
<1> DEFINE g == tx[r].graph
<1>1. /\ tx[r].phase = "running"
      /\ graphs' = [Decided(r) EXCEPT ![g] = Changed(@, Fresh[r], r)]
      /\ IF Direct[r] = {} THEN UNCHANGED <<chain, issued>>
         ELSE chain' = Append(chain, live) /\ issued' = issued + 1
      /\ tx' = [tx EXCEPT ![r].phase = "inserting", ![r].left = Tables]
      /\ UNCHANGED <<database, rows, lock, live, settled, lastError, up, pc, ticket,
                     failures, crashes, wrote>>
  BY DEF RunFresh, Enqueue, Decided, requests, bounds
<1>2. Active(r) /\ r \in Owner BY <1>1, SaveQueueApart DEF Active
<1>3. /\ g = Len(graphs) /\ g \in 1..Len(graphs) /\ Len(graphs) \in Nat /\ up
      /\ pc[r] = "handling" /\ Fresh[r] # {} /\ wrote # g /\ live # g /\ ~Queued(g)
      /\ \A p \in Stored : graphs[g][p] = rows[p]
  BY <1>1, <1>2, ActiveGraphs DEF StoreInv, FreshTx
<1>4. live >= 1 /\ wrote >= 1 /\ wrote \in 1..Len(graphs)
  BY <1>3 DEF StoreInv, Process, GraphsTyped
<1>5. /\ live \in 1..Len(graphs)
      /\ Decided(r) \in Seq(Graph) /\ Len(Decided(r)) = Len(graphs)
      /\ \A h \in 1..Len(graphs) : h # live => Decided(r)[h] = graphs[h]
      /\ \A h \in 1..Len(graphs), p \in Part :
            /\ graphs[h][p] \subseteq Decided(r)[h][p]
            /\ Decided(r)[h][p] \subseteq graphs[h][p] \cup {r}
            /\ p \notin Direct[r] => Decided(r)[h][p] = graphs[h][p]
  <2>1. GraphsTyped BY DEF StoreInv
  <2> QED BY <1>4, <2>1, LiveChanged
<1>6. /\ graphs' \in Seq(Graph) /\ Len(graphs') = Len(graphs)
      /\ \A h \in 1..Len(graphs) : h # g => graphs'[h] = Decided(r)[h]
      /\ \A h \in 1..Len(graphs), p \in Part :
            /\ graphs[h][p] \subseteq graphs'[h][p]
            /\ graphs'[h][p] \subseteq graphs[h][p] \cup {r}
      /\ \A h \in 1..Len(graphs), p \in Part : h # g /\ p \notin Direct[r] => graphs'[h][p] = graphs[h][p]
  <2> DEFINE e == Changed(Decided(r)[g], Fresh[r], r)
  <2>1. Decided(r)[g] \in Graph /\ Decided(r)[g] = graphs[g] BY <1>3, <1>5, ElementOfSeq
  <2>2. /\ e \in Graph
        /\ \A p \in Part : Decided(r)[g][p] \subseteq e[p] /\ e[p] \subseteq Decided(r)[g][p] \cup {r}
    BY <2>1, ChangedGrows
  <2>3. graphs' = [Decided(r) EXCEPT ![g] = e] BY <1>1
  <2> HIDE DEF e
  <2>4. /\ graphs' \in Seq(Graph) /\ Len(graphs') = Len(graphs)
        /\ \A h \in 1..Len(graphs) : graphs'[h] = IF h = g THEN e ELSE Decided(r)[h]
    BY <1>3, <1>5, <2>2, <2>3, ExceptSeq
  <2>5. \A h \in 1..Len(graphs), p \in Part :
            /\ graphs[h][p] \subseteq graphs'[h][p]
            /\ graphs'[h][p] \subseteq graphs[h][p] \cup {r}
    <3> SUFFICES ASSUME NEW h \in 1..Len(graphs), NEW p \in Part
                 PROVE  /\ graphs[h][p] \subseteq graphs'[h][p]
                        /\ graphs'[h][p] \subseteq graphs[h][p] \cup {r}
      OBVIOUS
    <3>1. CASE h = g BY <2>1, <2>2, <2>4, <3>1
    <3>2. CASE h # g BY <1>5, <2>4, <3>2
    <3> QED BY <3>1, <3>2
  <2> QED BY <1>5, <2>4, <2>5
<1>7. /\ chain' \in Seq(Nat) /\ Len(chain) \in Nat
      /\ \A i \in 1..Len(chain') : chain'[i] = live \/ (i \in 1..Len(chain) /\ chain'[i] = chain[i])
      /\ Direct[r] # {} => Queued(live)'
      /\ \A h : Queued(h) => Queued(h)'
      /\ issued' \in Nat /\ issued' = settled' + Len(chain')
  <2>1. /\ chain \in Seq(Nat) /\ Len(chain) \in Nat /\ issued \in Nat /\ issued = settled + Len(chain)
        /\ settled \in Nat
    BY LenProperties DEF StoreInv, GraphsTyped, CountsTyped
  <2>2. CASE Direct[r] = {} BY <1>1, <2>1, <2>2 DEF Queued
  <2>3. CASE Direct[r] # {}
    <3>1. GraphsTyped /\ live \in Nat /\ chain' = Append(chain, live) /\ issued' = issued + 1
      BY <1>1, <1>5, <2>3 DEF StoreInv
    <3>2. /\ chain' \in Seq(Nat) /\ Len(chain') = Len(chain) + 1
          /\ \A i \in 1..Len(chain) : chain'[i] = chain[i]
          /\ chain'[Len(chain) + 1] = live
          /\ \A h : Queued(h)' <=> Queued(h) \/ h = live
      BY <3>1, Enqueued
    <3>3. \A i \in 1..Len(chain') : i \in 1..Len(chain) \/ i = Len(chain) + 1 BY <2>1, <3>2
    <3>4. Queued(live)'
      <4>1. Len(chain) + 1 \in 1..Len(chain') BY <2>1, <3>2
      <4> QED BY <1>1, <3>2, <4>1 DEF Queued
    <3>5. issued' \in Nat /\ issued' = settled' + Len(chain') BY <1>1, <2>1, <3>1, <3>2
    <3> QED BY <2>1, <3>2, <3>3, <3>4, <3>5
  <2> QED BY <2>2, <2>3
<1> HIDE DEF g
<1>8. PICK t \in Tx : /\ tx' = [tx EXCEPT ![r] = t] /\ t.phase = "inserting"
                      /\ t.graph = tx[r].graph /\ t.left = Tables /\ t.new = tx[r].new
  <2>1. tx[r] \in [phase : Phases, graph : Nat, left : Seq(Part), new : [Stored -> SUBSET Request]]
    BY <1>2 DEF StoreInv, StorageTyped, Tx
  <2> DEFINE t == [tx[r] EXCEPT !.phase = "inserting", !.left = Tables]
  <2>2. tx' = [tx EXCEPT ![r] = t] BY <1>1, <1>2 DEF StoreInv, StorageTyped
  <2>3. /\ t.phase = "inserting" /\ t.graph = tx[r].graph /\ t.left = Tables
        /\ t.new = tx[r].new
    BY <2>1
  <2>4. t \in [phase : Phases, graph : Nat, left : Seq(Part), new : [Stored -> SUBSET Request]]
    BY <2>1, AllPending DEF Phases
  <2> HIDE DEF t
  <2>5. t \in Tx BY <2>4 DEF Tx
  <2> QED BY <2>2, <2>3, <2>5
<1>9. /\ StorageTyped' /\ Exclusive'
      /\ \A q \in Owner : /\ tx'[q] = IF q = r THEN t ELSE tx[q]
                          /\ tx'[q].graph = tx[q].graph
                          /\ (Active(q) <=> q = r) /\ (Active(q)' <=> q = r)
  <2>1. \E i \in 0..Len(Tables) : t.left = SubSeq(Tables, i + 1, Len(Tables)) BY <1>8, AllPending
  <2>2. tx' = [tx EXCEPT ![r] = t] /\ t.phase # "closed" /\ t.graph = tx[r].graph BY <1>8
  <2>3. UNCHANGED <<database, rows, lock>> BY <1>1
  <2> QED BY <1>2, <2>1, <2>2, <2>3, MovesOn
<1>10. GraphsTyped'
  <2>1. \A i \in 1..Len(chain') : chain'[i] \in 1..Len(graphs')
    BY <1>5, <1>6, <1>7 DEF StoreInv, GraphsTyped
  <2> QED BY <1>1, <1>6, <1>7, <1>9, <2>1 DEF StoreInv, GraphsTyped
<1>11. CountsTyped' BY <1>1, <1>7 DEF StoreInv, CountsTyped
<1>12. Process' BY <1>1, <1>3, <1>4 DEF Process
<1>13. FreshTx'
  <2> SUFFICES ASSUME NEW q \in Request, Active(q)'
               PROVE  /\ pc'[q] = "handling" /\ Fresh[q] # {}
                      /\ tx'[q].graph = Len(graphs') /\ wrote' # tx'[q].graph
                      /\ IF tx'[q].phase = "synced" THEN live' = tx'[q].graph
                         ELSE live' # tx'[q].graph /\ ~Queued(tx[q].graph)'
                      /\ \A p \in Stored :
                           IF tx'[q].phase = "running" THEN graphs'[tx'[q].graph][p] = rows'[p]
                           ELSE rows'[p] \subseteq graphs'[tx'[q].graph][p]
    BY DEF FreshTx, Queued
  <2>1. q = r /\ tx'[q].phase = "inserting" /\ tx'[q].graph = g /\ tx[q].graph = g
    BY <1>8, <1>9, SaveQueueApart DEF g
  <2>2. \A i \in 1..Len(chain') : chain'[i] # g BY <1>3, <1>7 DEF Queued
  <2>3. ~Queued(tx[q].graph)'
    <3>1. \A i \in 1..Len(chain') : chain'[i] # tx'[q].graph BY <2>1, <2>2
    <3> QED BY <2>1, <3>1 DEF Queued
  <2>4. \A p \in Stored : rows'[p] \subseteq graphs'[g][p] BY <1>1, <1>3, <1>6, StoredParts
  <2> QED BY <1>1, <1>3, <1>6, <2>1, <2>3, <2>4
<1>14. SaveTx' BY <1>9, SaveQueueApart DEF SaveTx
<1>15. Filled'
  <2>1. \A q \in Owner : Filling(q)' => q = r BY <1>9 DEF Filling, Active
  <2>2. tx'[r] = t BY <1>2, <1>9
  <2>3. Stored \ Pending(r)' = {} BY <1>8, <2>2 DEF Pending, Stored
  <2> QED BY <1>8, <2>1, <2>2, <2>3 DEF Filled
<1>16. Saved'
  <2> SUFFICES ASSUME wrote = live
               PROVE  Queued(live)' \/ lastError \/ \A p \in Stored : rows[p] = graphs'[live][p]
    BY <1>1 DEF Saved
  <2>1. Queued(live) \/ lastError \/ \A p \in Stored : rows[p] = graphs[live][p]
    BY <1>3 DEF StoreInv, Saved
  <2>2. CASE Direct[r] = {}
    <3>1. \A p \in Stored : graphs'[live][p] = graphs[live][p]
      BY <1>3, <1>5, <1>6, <2>2, StoredParts
    <3>2. Queued(live) => Queued(live)' BY <1>1, <1>7 DEF Queued
    <3> QED BY <2>1, <3>1, <3>2
  <2>3. CASE Direct[r] # {} BY <1>7, <2>3
  <2> QED BY <2>2, <2>3
<1>17. Grown'
  <2> SUFFICES ASSUME NEW p \in Stored PROVE rows[p] \subseteq graphs'[wrote][p]
    BY <1>1 DEF Grown
  <2>1. rows[p] \subseteq graphs[wrote][p] BY <1>3 DEF StoreInv, Grown
  <2> QED BY <1>4, <1>6, <2>1, StoredParts
<1>18. Untouched'
  <2>0. /\ \A o \in Owner : Active(o)' => tx'[o].graph = g /\ tx'[o].new = t.new /\ o = r
        /\ pc' = pc /\ rows' = rows /\ live' = live
    BY <1>1, <1>2, <1>9 DEF g
  <2> SUFFICES ASSUME NEW q \in Request, pc[q] \in {"new", "handling", "refused"},
                      NEW p \in Fresh[q] \ Direct[q]
               PROVE  /\ p \in Stored => q \notin rows[p]
                      /\ q \notin graphs'[live][p]
                      /\ \A i \in 1..Len(chain') : q \notin graphs'[chain'[i]][p]
                      /\ q # r => q \notin graphs'[g][p] /\ (p \in Stored => q \notin t.new[p])
    BY <2>0 DEF Untouched
  <2>1. p \in Part /\ tx[q].phase # "synced" BY <1>1, <1>9, SaveQueueApart, StoreAssumption DEF Active
  <2>2. /\ p \in Stored => q \notin rows[p]
        /\ q \notin graphs[live][p]
        /\ \A i \in 1..Len(chain) : q \notin graphs[chain[i]][p]
        /\ q # r => q \notin graphs[g][p] /\ (p \in Stored => q \notin tx[r].new[p])
    BY <1>2, <1>3, <2>1 DEF StoreInv, Untouched, g
  <2>3. \A h \in 1..Len(graphs) : h # g /\ q \notin graphs[h][p] => q \notin graphs'[h][p]
    <3>1. CASE q = r BY <1>6, <2>1, <3>1
    <3>2. CASE q # r BY <1>6, <2>1, <3>2
    <3> QED BY <3>1, <3>2
  <2>4. \A i \in 1..Len(chain) : chain[i] # g /\ chain[i] \in 1..Len(graphs)
    BY <1>3 DEF Queued, StoreInv, GraphsTyped
  <2>5. q \notin graphs'[live][p] BY <1>3, <1>5, <2>2, <2>3
  <2>6. \A i \in 1..Len(chain') : q \notin graphs'[chain'[i]][p] BY <1>7, <2>2, <2>3, <2>4, <2>5
  <2>7. q # r => q \notin graphs'[g][p] BY <1>3, <1>6, <2>1, <2>2
  <2> QED BY <1>8, <2>2, <2>5, <2>6, <2>7
<1> QED BY <1>9, <1>10, <1>11, <1>12, <1>13, <1>14, <1>15, <1>16, <1>17, <1>18 DEF StoreInv

\* A part is inserted as the graph holds it: not less than what is committed.
LEMMA InsertPartKeeps ==
    ASSUME StoreInv, NEW o \in Owner, InsertPart(o)
    PROVE  StoreInv'
<1> DEFINE g == tx[o].graph
           p0 == Head(tx[o].left)
<1>1. /\ tx[o].phase = "inserting" /\ tx[o].left # <<>>
      /\ tx' = [tx EXCEPT ![o].new[p0] = graphs[g][p0], ![o].left = Tail(@)]
      /\ UNCHANGED <<database, rows, lock, graphs, live, chain, issued, settled, lastError, up, pc,
                     ticket, failures, crashes, wrote>>
  BY DEF InsertPart, process, requests, bounds
<1>2. Active(o) /\ Filling(o) BY <1>1 DEF Active, Filling
<1>3. /\ g \in 1..Len(graphs) /\ up /\ graphs[g] \in Graph BY <1>2, ActiveGraphs
<1>4. /\ tx[o].left \in Seq(Part) /\ p0 = tx[o].left[1] /\ p0 \in Stored
      /\ Tail(tx[o].left) \in Seq(Part)
      /\ Len(Tail(tx[o].left)) = Len(tx[o].left) - 1 /\ Len(tx[o].left) \in Nat
      /\ Len(tx[o].left) >= 1
      /\ \A j \in 1..Len(Tail(tx[o].left)) : Tail(tx[o].left)[j] = tx[o].left[j + 1]
      /\ \E j \in 0..Len(Tables) : Tail(tx[o].left) = SubSeq(Tables, j + 1, Len(Tables))
  <2>1. PICK i \in 0..Len(Tables) : tx[o].left = SubSeq(Tables, i + 1, Len(Tables))
    BY DEF StoreInv, StorageTyped
  <2> QED BY <1>1, <2>1, LeftShrinks
<1>5. PICK t \in Tx : /\ tx' = [tx EXCEPT ![o] = t] /\ t.phase = "inserting" /\ t.graph = g
                      /\ t.left = Tail(tx[o].left)
                      /\ \A p \in Stored : t.new[p] = IF p = p0 THEN graphs[g][p0] ELSE tx[o].new[p]
  <2>1. tx[o] \in [phase : Phases, graph : Nat, left : Seq(Part), new : [Stored -> SUBSET Request]]
    BY DEF StoreInv, StorageTyped, Tx
  <2>2. graphs[g][p0] \in SUBSET Request BY <1>3, <1>4, StoredParts DEF Graph
  <2> DEFINE n == [tx[o].new EXCEPT ![p0] = graphs[g][p0]]
             t == [tx[o] EXCEPT !.new = n, !.left = Tail(tx[o].left)]
  <2>3. tx' = [tx EXCEPT ![o] = t] BY <1>1 DEF StoreInv, StorageTyped
  <2>4. /\ n \in [Stored -> SUBSET Request]
        /\ \A p \in Stored : n[p] = IF p = p0 THEN graphs[g][p0] ELSE tx[o].new[p]
    BY <2>1, <2>2
  <2> HIDE DEF n
  <2>5. t \in [phase : Phases, graph : Nat, left : Seq(Part), new : [Stored -> SUBSET Request]]
    BY <1>4, <2>1, <2>4
  <2>6. /\ t.phase = "inserting" /\ t.graph = g /\ t.left = Tail(tx[o].left) /\ t.new = n
    BY <1>1, <2>1
  <2> HIDE DEF t
  <2>7. t \in Tx BY <2>5 DEF Tx
  <2> QED BY <2>3, <2>4, <2>6, <2>7
<1>6. /\ StorageTyped' /\ Exclusive'
      /\ \A q \in Owner : /\ tx'[q] = IF q = o THEN t ELSE tx[q]
                          /\ tx'[q].graph = tx[q].graph
                          /\ (Active(q) <=> q = o) /\ (Active(q)' <=> q = o)
  <2>1. \E i \in 0..Len(Tables) : t.left = SubSeq(Tables, i + 1, Len(Tables)) BY <1>4, <1>5
  <2>2. tx' = [tx EXCEPT ![o] = t] /\ t.phase # "closed" /\ t.graph = tx[o].graph BY <1>5
  <2>3. UNCHANGED <<database, rows, lock>> BY <1>1
  <2> QED BY <1>2, <2>1, <2>2, <2>3, MovesOn
<1>7. GraphsTyped' BY <1>1, <1>6 DEF StoreInv, GraphsTyped
<1>8. CountsTyped' BY <1>1 DEF StoreInv, CountsTyped
<1>9. Process' BY <1>1, <1>3 DEF StoreInv, Process
<1>10. \A q \in Owner : tx'[q].phase = tx[q].phase BY <1>1, <1>5, <1>6
<1>11. FreshTx'
  <2>1. \A q \in Request : /\ Active(q)' <=> Active(q) /\ tx'[q].phase = tx[q].phase
                           /\ tx'[q].graph = tx[q].graph
    BY <1>6, <1>10, SaveQueueApart
  <2> SUFFICES ASSUME NEW q \in Request, Active(q)'
               PROVE  /\ pc'[q] = "handling" /\ Fresh[q] # {}
                      /\ tx'[q].graph = Len(graphs') /\ wrote' # tx'[q].graph
                      /\ IF tx'[q].phase = "synced" THEN live' = tx'[q].graph
                         ELSE live' # tx'[q].graph /\ ~Queued(tx[q].graph)'
                      /\ \A p \in Stored :
                           IF tx'[q].phase = "running" THEN graphs'[tx'[q].graph][p] = rows'[p]
                           ELSE rows'[p] \subseteq graphs'[tx'[q].graph][p]
    BY DEF FreshTx, Queued
  <2>2. /\ pc[q] = "handling" /\ Fresh[q] # {}
        /\ tx[q].graph = Len(graphs) /\ wrote # tx[q].graph
        /\ IF tx[q].phase = "synced" THEN live = tx[q].graph
           ELSE live # tx[q].graph /\ ~Queued(tx[q].graph)
        /\ \A p \in Stored :
             IF tx[q].phase = "running" THEN graphs[tx[q].graph][p] = rows[p]
             ELSE rows[p] \subseteq graphs[tx[q].graph][p]
    BY <2>1 DEF StoreInv, FreshTx
  <2>3. Queued(tx[q].graph)' <=> Queued(tx[q].graph) BY <1>1, <2>1 DEF Queued
  <2> QED BY <1>1, <2>1, <2>2, <2>3
<1>12. SaveTx' BY <1>1, <1>6, <1>10, SaveQueueApart DEF StoreInv, SaveTx, Active
<1>13. Filled'
  <2>1. \A q \in Owner : Filling(q)' => q = o BY <1>6 DEF Filling, Active
  <2>2. tx'[o] = t BY <1>6
  <2>3. ASSUME NEW p \in Stored \ Pending(o)'
        PROVE  /\ t.new[p] \subseteq graphs[g][p]
               /\ \/ t.new[p] = graphs[g][p]
                  \/ IF o = SaveQueue THEN Behind(g) ELSE Queued(g)
               /\ o \in Request \/ g = wrote => rows[p] \subseteq t.new[p]
    <3>1. CASE p = p0
      <4>1. t.new[p] = graphs[g][p] BY <1>5, <3>1
      <4>2. o \in Request => rows[p] \subseteq graphs[g][p]
        BY <1>1, <1>2 DEF StoreInv, FreshTx
      <4>3. g = wrote => rows[p] \subseteq graphs[g][p] BY <1>3 DEF StoreInv, Grown
      <4> QED BY <4>1, <4>2, <4>3
    <3>2. CASE p # p0
      <4>1. p \notin Pending(o)
        <5> SUFFICES ASSUME NEW i \in 1..Len(tx[o].left), p = tx[o].left[i] PROVE FALSE
          BY DEF Pending
        <5>1. i # 1 BY <1>4, <3>2
        <5>2. i - 1 \in 1..Len(Tail(tx[o].left)) /\ (i - 1) + 1 = i BY <1>4, <5>1
        <5>3. Tail(tx[o].left)[i - 1] = p BY <1>4, <5>2
        <5> QED BY <1>5, <2>2, <5>2, <5>3 DEF Pending
      <4>2. t.new[p] = tx[o].new[p] BY <1>5, <3>2
      <4> QED BY <1>2, <4>1, <4>2 DEF StoreInv, Filled
    <3> QED BY <3>1, <3>2
  <2>4. /\ Behind(g) <=> \E i \in 2..Len(chain') : chain'[i] = tx'[o].graph
        /\ Queued(g) <=> \E i \in 1..Len(chain') : chain'[i] = tx'[o].graph
        /\ tx'[o].graph = g /\ tx'[o].phase = "inserting" /\ tx'[o].new = t.new
    BY <1>1, <1>5, <2>2 DEF Behind, Queued
  <2> HIDE DEF g
  <2> QED BY <1>1, <2>1, <2>3, <2>4 DEF Filled, Behind, Queued
<1>14. Saved' /\ Grown' BY <1>1 DEF StoreInv, Saved, Grown, Queued
<1>15. Untouched'
  <2>0. /\ \A q \in Owner : Active(q)' => q = o /\ tx'[q].graph = g /\ tx'[q].new = t.new
        /\ pc' = pc /\ rows' = rows /\ live' = live /\ graphs' = graphs /\ chain' = chain /\ up' = up
        /\ \A q \in Owner : tx'[q].phase = tx[q].phase
    BY <1>1, <1>5, <1>6, <1>10
  <2> SUFFICES ASSUME NEW q \in Request, pc[q] \in {"new", "handling", "refused"},
                      tx[q].phase # "synced", NEW p \in Fresh[q] \ Direct[q]
               PROVE  /\ p \in Stored => q \notin rows[p]
                      /\ up => q \notin graphs[live][p]
                      /\ \A i \in 1..Len(chain) : q \notin graphs[chain[i]][p]
                      /\ q # o => q \notin graphs[g][p] /\ (p \in Stored => q \notin t.new[p])
    BY <2>0, SaveQueueApart DEF Untouched
  <2>1. /\ p \in Stored => q \notin rows[p]
        /\ up => q \notin graphs[live][p]
        /\ \A i \in 1..Len(chain) : q \notin graphs[chain[i]][p]
        /\ q # o => q \notin graphs[g][p] /\ (p \in Stored => q \notin tx[o].new[p])
    BY <1>2 DEF StoreInv, Untouched
  <2> QED BY <1>5, <2>1
<1> QED BY <1>6, <1>7, <1>8, <1>9, <1>11, <1>12, <1>13, <1>14, <1>15 DEF StoreInv

\* The statements are all sent.
LEMMA InsertedKeeps ==
    ASSUME StoreInv, NEW o \in Owner, Inserted(o)
    PROVE  StoreInv'
<1>1. /\ tx[o].phase = "inserting" /\ tx[o].left = <<>>
      /\ tx' = [tx EXCEPT ![o].phase = "inserted"]
      /\ UNCHANGED <<database, rows, lock, graphs, live, chain, issued, settled, lastError, up, pc,
                     ticket, failures, crashes, wrote>>
  BY DEF Inserted, process, requests, bounds
<1>2. Active(o) /\ Filling(o) BY <1>1 DEF Active, Filling
<1>3. up BY <1>2, ActiveGraphs
<1>4. PICK t \in Tx : /\ tx' = [tx EXCEPT ![o] = t] /\ t.phase = "inserted"
                      /\ t.graph = tx[o].graph /\ t.left = tx[o].left /\ t.new = tx[o].new
  <2>1. tx[o] \in [phase : Phases, graph : Nat, left : Seq(Part), new : [Stored -> SUBSET Request]]
    BY DEF StoreInv, StorageTyped, Tx
  <2> DEFINE t == [tx[o] EXCEPT !.phase = "inserted"]
  <2>2. tx' = [tx EXCEPT ![o] = t] BY <1>1 DEF StoreInv, StorageTyped
  <2>3. t.phase = "inserted" /\ t.graph = tx[o].graph /\ t.left = tx[o].left /\ t.new = tx[o].new
    BY <2>1
  <2>4. t \in [phase : Phases, graph : Nat, left : Seq(Part), new : [Stored -> SUBSET Request]]
    BY <2>1 DEF Phases
  <2> HIDE DEF t
  <2>5. t \in Tx BY <2>4 DEF Tx
  <2> QED BY <2>2, <2>3, <2>5
<1>5. /\ StorageTyped' /\ Exclusive'
      /\ \A q \in Owner : /\ tx'[q] = IF q = o THEN t ELSE tx[q]
                          /\ tx'[q].graph = tx[q].graph
                          /\ (Active(q) <=> q = o) /\ (Active(q)' <=> q = o)
  <2>1. \E i \in 0..Len(Tables) : t.left = SubSeq(Tables, i + 1, Len(Tables))
    BY <1>4 DEF StoreInv, StorageTyped
  <2>2. tx' = [tx EXCEPT ![o] = t] /\ t.phase # "closed" /\ t.graph = tx[o].graph BY <1>4
  <2>3. UNCHANGED <<database, rows, lock>> BY <1>1
  <2> QED BY <1>2, <2>1, <2>2, <2>3, MovesOn
<1>6. /\ \A q \in Owner : /\ tx'[q].left = tx[q].left /\ tx'[q].new = tx[q].new
                          /\ q # o => tx'[q].phase = tx[q].phase
      /\ tx'[o].phase = "inserted"
  BY <1>4, <1>5
<1>7. GraphsTyped' BY <1>1, <1>5 DEF StoreInv, GraphsTyped
<1>8. CountsTyped' BY <1>1 DEF StoreInv, CountsTyped
<1>9. Process' BY <1>1, <1>3 DEF StoreInv, Process
<1>10. FreshTx'
  <2>1. \A q \in Request : /\ Active(q)' <=> Active(q) /\ tx'[q].graph = tx[q].graph
                           /\ Active(q) => tx[q].phase = "inserting" /\ tx'[q].phase = "inserted"
    BY <1>1, <1>5, <1>6, SaveQueueApart
  <2> QED BY <1>1, <2>1 DEF StoreInv, FreshTx, Queued, Active
<1>11. SaveTx' BY <1>1, <1>5, <1>6, SaveQueueApart DEF StoreInv, SaveTx, Active
<1>12. Filled'
  <2>1. \A q \in Owner : Filling(q)' => q = o BY <1>5 DEF Filling, Active
  <2> DEFINE g == tx[o].graph
  <2>2. /\ tx[o].left = <<>>
        /\ \A p \in Stored \ Pending(o) :
             /\ tx[o].new[p] \subseteq graphs[g][p]
             /\ \/ tx[o].new[p] = graphs[g][p]
                \/ IF o = SaveQueue THEN Behind(g) ELSE Queued(g)
             /\ o \in Request \/ g = wrote => rows[p] \subseteq tx[o].new[p]
    BY <1>1, <1>2 DEF StoreInv, Filled
  <2>3. Pending(o)' = Pending(o) BY <1>6 DEF Pending
  <2>4. /\ Behind(g) <=> \E i \in 2..Len(chain') : chain'[i] = tx'[o].graph
        /\ Queued(g) <=> \E i \in 1..Len(chain') : chain'[i] = tx'[o].graph
        /\ tx'[o].graph = g /\ tx'[o].left = <<>> /\ tx'[o].new = tx[o].new
    BY <1>1, <1>5, <1>6, <2>2 DEF Behind, Queued
  <2> HIDE DEF g
  <2> QED BY <1>1, <2>1, <2>2, <2>3, <2>4 DEF Filled, Behind, Queued
<1>13. Saved' /\ Grown' BY <1>1 DEF StoreInv, Saved, Grown, Queued
<1>14. Untouched'
  <2>1. /\ \A q \in Owner : /\ Active(q)' <=> Active(q)
                            /\ tx'[q].graph = tx[q].graph /\ tx'[q].new = tx[q].new
                            /\ tx'[q].phase # "synced" => tx[q].phase # "synced"
    BY <1>1, <1>5, <1>6
  <2> QED BY <1>1, <2>1, SaveQueueApart DEF StoreInv, Untouched
<1> QED BY <1>5, <1>7, <1>8, <1>9, <1>10, <1>11, <1>12, <1>13, <1>14 DEF StoreInv

\* The fresh graph takes the place of the live one, which was not the last one written.
LEMMA SyncBackKeeps ==
    ASSUME StoreInv, NEW r \in Request, SyncBack(r)
    PROVE  StoreInv'
<1>1. /\ tx[r].phase = "inserted" /\ live' = tx[r].graph
      /\ tx' = [tx EXCEPT ![r].phase = "synced"]
      /\ UNCHANGED <<database, rows, lock, graphs, chain, issued, settled, lastError, up, pc,
                     ticket, failures, crashes, wrote>>
  BY DEF SyncBack, requests, bounds
<1>2. Active(r) /\ Filling(r) /\ r \in Owner /\ r # SaveQueue
  BY <1>1, SaveQueueApart DEF Active, Filling
<1>3. up /\ tx[r].graph \in 1..Len(graphs) /\ Len(graphs) \in Nat BY <1>2, ActiveGraphs
<1>4. PICK t \in Tx : /\ tx' = [tx EXCEPT ![r] = t] /\ t.phase = "synced"
                      /\ t.graph = tx[r].graph /\ t.left = tx[r].left /\ t.new = tx[r].new
  <2>1. tx[r] \in [phase : Phases, graph : Nat, left : Seq(Part), new : [Stored -> SUBSET Request]]
    BY <1>2 DEF StoreInv, StorageTyped, Tx
  <2> DEFINE t == [tx[r] EXCEPT !.phase = "synced"]
  <2>2. tx' = [tx EXCEPT ![r] = t] BY <1>1, <1>2 DEF StoreInv, StorageTyped
  <2>3. t.phase = "synced" /\ t.graph = tx[r].graph /\ t.left = tx[r].left /\ t.new = tx[r].new
    BY <2>1
  <2>4. t \in [phase : Phases, graph : Nat, left : Seq(Part), new : [Stored -> SUBSET Request]]
    BY <2>1 DEF Phases
  <2> HIDE DEF t
  <2>5. t \in Tx BY <2>4 DEF Tx
  <2> QED BY <2>2, <2>3, <2>5
<1>5. /\ StorageTyped' /\ Exclusive'
      /\ \A q \in Owner : /\ tx'[q] = IF q = r THEN t ELSE tx[q]
                          /\ tx'[q].graph = tx[q].graph
                          /\ (Active(q) <=> q = r) /\ (Active(q)' <=> q = r)
  <2>1. \E i \in 0..Len(Tables) : t.left = SubSeq(Tables, i + 1, Len(Tables))
    BY <1>2, <1>4 DEF StoreInv, StorageTyped
  <2>2. tx' = [tx EXCEPT ![r] = t] /\ t.phase # "closed" /\ t.graph = tx[r].graph BY <1>4
  <2>3. UNCHANGED <<database, rows, lock>> BY <1>1
  <2> QED BY <1>2, <2>1, <2>2, <2>3, MovesOn
<1>6. /\ \A q \in Owner : /\ tx'[q].left = tx[q].left /\ tx'[q].new = tx[q].new
                          /\ q # r => tx'[q].phase = tx[q].phase
      /\ tx'[r].phase = "synced"
  BY <1>2, <1>4, <1>5
<1>7. GraphsTyped' BY <1>1, <1>3, <1>5 DEF StoreInv, GraphsTyped
<1>8. CountsTyped' BY <1>1 DEF StoreInv, CountsTyped
<1>9. Process' BY <1>1, <1>3 DEF StoreInv, Process
<1>10. FreshTx'
  <2>1. \A q \in Request : Active(q)' => q = r BY <1>5, SaveQueueApart
  <2>2. /\ pc[r] = "handling" /\ Fresh[r] # {}
        /\ tx[r].graph = Len(graphs) /\ wrote # tx[r].graph
        /\ \A p \in Stored : rows[p] \subseteq graphs[tx[r].graph][p]
    BY <1>1, <1>2 DEF StoreInv, FreshTx
  <2>3. tx'[r].graph = tx[r].graph BY <1>2, <1>5
  <2> QED BY <1>1, <1>6, <2>1, <2>2, <2>3 DEF FreshTx
<1>11. SaveTx' BY <1>2, <1>5, SaveQueueApart DEF SaveTx
<1>12. Filled'
  <2>1. \A q \in Owner : Filling(q)' => q = r BY <1>5 DEF Filling, Active
  <2> DEFINE g == tx[r].graph
  <2>2. /\ tx[r].left = <<>>
        /\ \A p \in Stored \ Pending(r) :
             /\ tx[r].new[p] \subseteq graphs[g][p]
             /\ tx[r].new[p] = graphs[g][p] \/ Queued(g)
             /\ rows[p] \subseteq tx[r].new[p]
    BY <1>1, <1>2 DEF StoreInv, Filled
  <2>3. Pending(r)' = Pending(r) BY <1>2, <1>6 DEF Pending
  <2>4. /\ Queued(g) <=> \E i \in 1..Len(chain') : chain'[i] = tx'[r].graph
        /\ tx'[r].graph = g /\ tx'[r].left = <<>> /\ tx'[r].new = tx[r].new
    BY <1>1, <1>2, <1>5, <1>6, <2>2 DEF Queued
  <2> HIDE DEF g
  <2> QED BY <1>1, <1>2, <2>1, <2>2, <2>3, <2>4 DEF Filled, Queued
<1>13. Saved'
  <2>1. wrote # tx[r].graph BY <1>2 DEF StoreInv, FreshTx
  <2> QED BY <1>1, <2>1 DEF Saved
<1>14. Grown' BY <1>1 DEF StoreInv, Grown
<1>15. Untouched'
  <2>0. /\ \A q \in Owner : Active(q)' => q = r /\ tx'[q].graph = tx[r].graph /\ tx'[q].new = tx[r].new
        /\ tx'[r].phase = "synced"
        /\ \A q \in Owner : q # r => tx'[q].phase = tx[q].phase
    BY <1>2, <1>5, <1>6
  <2> SUFFICES ASSUME NEW q \in Request, q # r, pc[q] \in {"new", "handling", "refused"},
                      tx[q].phase # "synced", NEW p \in Fresh[q] \ Direct[q]
               PROVE  /\ p \in Stored => q \notin rows[p]
                      /\ \A i \in 1..Len(chain) : q \notin graphs[chain[i]][p]
                      /\ q \notin graphs[tx[r].graph][p] /\ (p \in Stored => q \notin tx[r].new[p])
    BY <1>1, <2>0, SaveQueueApart DEF Untouched
  <2> QED BY <1>2 DEF StoreInv, Untouched
<1> QED BY <1>5, <1>7, <1>8, <1>9, <1>10, <1>11, <1>12, <1>13, <1>14, <1>15 DEF StoreInv

\* A transaction that ends leaves none open.
LEMMA Closes ==
    ASSUME StoreInv, NEW o \in Owner, Active(o), CloseTx(o)
    PROVE  /\ lock' = None /\ tx' \in [Owner -> Tx]
           /\ \A q \in Owner : /\ ~Active(q)' /\ tx'[q].phase = "closed"
                               /\ tx'[q].graph \in {0, tx[q].graph}
                               /\ \E i \in 0..Len(Tables) : tx'[q].left = SubSeq(Tables, i + 1, Len(Tables))
           /\ \A q \in Owner : q # o => tx[q].phase = "closed"
           /\ Exclusive' /\ FreshTx' /\ SaveTx' /\ Filled'
<1>1. lock' = None /\ tx' = [tx EXCEPT ![o] = Closed] BY DEF CloseTx
<1>2. tx \in [Owner -> Tx] /\ Exclusive BY DEF StoreInv, StorageTyped
<1>3. \A q \in Owner : q # o => tx[q].phase = "closed" BY <1>2, OneTransaction DEF Active
<1>4. tx' \in [Owner -> Tx] /\ \A q \in Owner : tx'[q] = IF q = o THEN Closed ELSE tx[q]
  BY <1>1, <1>2, ClosedTyped
<1>5. \A q \in Owner : tx'[q].phase = "closed" /\ tx'[q].graph \in {0, tx[q].graph}
  BY <1>3, <1>4, ClosedTyped
<1>6. \A q \in Owner : \E i \in 0..Len(Tables) : tx'[q].left = SubSeq(Tables, i + 1, Len(Tables))
  <2> SUFFICES ASSUME NEW q \in Owner
               PROVE  \E i \in 0..Len(Tables) : tx'[q].left = SubSeq(Tables, i + 1, Len(Tables))
    OBVIOUS
  <2>1. CASE q = o
    <3>1. Len(Tables) \in 0..Len(Tables) BY ClosedTyped
    <3> QED BY <1>4, <2>1, <3>1, ClosedTyped
  <2>2. CASE q # o BY <1>4, <2>2 DEF StoreInv, StorageTyped
  <2> QED BY <2>1, <2>2
<1>7. \A q \in Owner : ~Active(q)' BY <1>5 DEF Active
<1>8. Exclusive' /\ FreshTx' /\ SaveTx' /\ Filled'
  BY <1>7, SaveQueueApart DEF Exclusive, FreshTx, SaveTx, Filled, Filling, Active
<1> QED BY <1>1, <1>3, <1>4, <1>5, <1>6, <1>7, <1>8

\* What the save queue holds once its head is settled.
LEMMA Settled ==
    ASSUME StoreInv, chain # <<>>, chain' = Tail(chain)
    PROVE  /\ chain' \in Seq(Nat) /\ Len(chain) \in Nat /\ Len(chain) >= 1 /\ Len(chain') = Len(chain) - 1
           /\ \A i \in 1..Len(chain') : i + 1 \in 1..Len(chain) /\ chain'[i] = chain[i + 1]
           /\ \A h : Behind(h) => Queued(h)'
<1>1. chain \in Seq(Nat) BY DEF StoreInv, GraphsTyped
<1>2. /\ chain' \in Seq(Nat) /\ Len(chain) \in Nat /\ Len(chain) >= 1 /\ Len(chain') = Len(chain) - 1
      /\ \A i \in 1..Len(chain') : chain'[i] = chain[i + 1]
  BY <1>1, HeadTailProperties, LenProperties, EmptySeq
<1>3. \A i \in 1..Len(chain') : i + 1 \in 1..Len(chain) BY <1>2
<1>4. ASSUME NEW h, Behind(h) PROVE Queued(h)'
  <2>1. PICK i \in 2..Len(chain) : chain[i] = h BY <1>4 DEF Behind
  <2>2. i - 1 \in 1..Len(chain') /\ (i - 1) + 1 = i BY <1>2, <2>1
  <2>3. chain'[i - 1] = h BY <1>2, <2>1, <2>2
  <2> QED BY <2>2, <2>3 DEF Queued
<1> QED BY <1>2, <1>3, <1>4

\* A commit on fresh state writes the graph that is live by then, and all of it but what a
\* queued save will write.
LEMMA CommitFreshKeeps ==
    ASSUME StoreInv, NEW r \in Request, CommitFresh(r)
    PROVE  /\ StoreInv'
           /\ \A p \in Stored : rows[p] \subseteq rows'[p]
<1> DEFINE g == tx[r].graph
<1>1. /\ tx[r].phase = "synced" /\ rows' = tx[r].new /\ wrote' = g /\ CloseTx(r)
      /\ pc' = [pc EXCEPT ![r] = "flushing"] /\ ticket' = [ticket EXCEPT ![r] = issued]
      /\ UNCHANGED <<database, graphs, live, chain, issued, settled, lastError, up, failures, crashes>>
  BY DEF CommitFresh, process, bounds
<1>2. Active(r) /\ Filling(r) /\ r \in Owner /\ r # SaveQueue
  BY <1>1, SaveQueueApart DEF Active, Filling
<1>3. /\ up /\ g \in 1..Len(graphs) /\ live = g /\ Len(graphs) \in Nat
      /\ tx[r].new \in [Stored -> SUBSET Request]
  BY <1>1, <1>2, ActiveGraphs DEF StoreInv, FreshTx, StorageTyped, Tx
<1>4. \A p \in Stored : /\ tx[r].new[p] \subseteq graphs[g][p]
                        /\ tx[r].new[p] = graphs[g][p] \/ Queued(g)
                        /\ rows[p] \subseteq tx[r].new[p]
  <2>1. tx[r].left = <<>> BY <1>1, <1>2 DEF StoreInv, Filled
  <2>2. Pending(r) = {}
    <3>1. Len(tx[r].left) = 0 BY <2>1
    <3> QED BY <3>1 DEF Pending
  <2> QED BY <1>1, <1>2, <2>2 DEF StoreInv, Filled
<1>5. /\ lock' = None /\ tx' \in [Owner -> Tx]
      /\ \A q \in Owner : /\ ~Active(q)' /\ tx'[q].phase = "closed"
                          /\ tx'[q].graph \in {0, tx[q].graph}
                          /\ \E i \in 0..Len(Tables) : tx'[q].left = SubSeq(Tables, i + 1, Len(Tables))
      /\ \A q \in Owner : q # r => tx[q].phase = "closed"
      /\ Exclusive' /\ FreshTx' /\ SaveTx' /\ Filled'
  BY <1>1, <1>2, Closes
<1> HIDE DEF g
<1>6. StorageTyped' BY <1>1, <1>3, <1>5 DEF StoreInv, StorageTyped
<1>7. GraphsTyped'
  <2>1. \A q \in Owner : tx'[q].graph \in 0..Len(graphs)
    <3>1. 0 \in 0..Len(graphs) BY <1>3
    <3> QED BY <1>5, <3>1 DEF StoreInv, GraphsTyped
  <2> QED BY <1>1, <1>3, <2>1 DEF StoreInv, GraphsTyped
<1>8. CountsTyped' BY <1>1 DEF StoreInv, CountsTyped
<1>9. Process' BY <1>1, <1>3 DEF StoreInv, Process
<1>10. Saved' BY <1>1, <1>3, <1>4 DEF Saved, Queued
<1>11. Grown' BY <1>1, <1>4 DEF Grown
<1>12. Untouched'
  <2>1. \A q \in Request : q # r => pc'[q] = pc[q] BY <1>1 DEF StoreInv, CountsTyped
  <2>2. pc'[r] = "flushing" BY <1>1 DEF StoreInv, CountsTyped
  <2> SUFFICES ASSUME NEW q \in Request, q # r, pc[q] \in {"new", "handling", "refused"},
                      NEW p \in Fresh[q] \ Direct[q]
               PROVE  /\ p \in Stored => q \notin tx[r].new[p]
                      /\ q \notin graphs[live][p]
                      /\ \A i \in 1..Len(chain) : q \notin graphs[chain[i]][p]
    BY <1>1, <1>5, <2>1, <2>2 DEF Untouched
  <2>3. tx[q].phase # "synced" BY <1>5, SaveQueueApart
  <2> QED BY <1>2, <1>3, <2>3 DEF StoreInv, Untouched
<1>13. StoreInv' BY <1>5, <1>6, <1>7, <1>8, <1>9, <1>10, <1>11, <1>12 DEF StoreInv
<1> QED BY <1>1, <1>4, <1>13

\* A save writes what its graph held part by part; whatever changed in between is behind it
\* in the chain.
LEMMA CommitSaveKeeps ==
    ASSUME StoreInv, CommitSave
    PROVE  /\ StoreInv'
           /\ tx[SaveQueue].graph = wrote => \A p \in Stored : rows[p] \subseteq rows'[p]
<1> DEFINE g == tx[SaveQueue].graph
<1>1. /\ tx[SaveQueue].phase = "inserted" /\ rows' = tx[SaveQueue].new /\ wrote' = g
      /\ CloseTx(SaveQueue)
      /\ chain' = Tail(chain) /\ settled' = settled + 1 /\ lastError' = FALSE
      /\ UNCHANGED <<database, graphs, live, issued, up, pc, ticket, failures, crashes>>
  BY DEF CommitSave, Settle, requests, bounds
<1>2. Active(SaveQueue) /\ Filling(SaveQueue) /\ SaveQueue \in Owner /\ SaveQueue \notin Request
  BY <1>1, SaveQueueApart DEF Active, Filling
<1>3. /\ up /\ g \in 1..Len(graphs) /\ Len(graphs) \in Nat /\ chain # <<>>
      /\ tx[SaveQueue].new \in [Stored -> SUBSET Request]
  BY <1>1, <1>2, ActiveGraphs DEF StoreInv, SaveTx, StorageTyped, Tx
<1>4. \A p \in Stored : /\ tx[SaveQueue].new[p] \subseteq graphs[g][p]
                        /\ tx[SaveQueue].new[p] = graphs[g][p] \/ Behind(g)
                        /\ g = wrote => rows[p] \subseteq tx[SaveQueue].new[p]
  <2>1. tx[SaveQueue].left = <<>> BY <1>1, <1>2 DEF StoreInv, Filled
  <2>2. Pending(SaveQueue) = {}
    <3>1. Len(tx[SaveQueue].left) = 0 BY <2>1
    <3> QED BY <3>1 DEF Pending
  <2> QED BY <1>1, <1>2, <2>2 DEF StoreInv, Filled
<1>5. /\ lock' = None /\ tx' \in [Owner -> Tx]
      /\ \A q \in Owner : /\ ~Active(q)' /\ tx'[q].phase = "closed"
                          /\ tx'[q].graph \in {0, tx[q].graph}
                          /\ \E i \in 0..Len(Tables) : tx'[q].left = SubSeq(Tables, i + 1, Len(Tables))
      /\ \A q \in Owner : q # SaveQueue => tx[q].phase = "closed"
      /\ Exclusive' /\ FreshTx' /\ SaveTx' /\ Filled'
  BY <1>1, <1>2, Closes
<1>6. /\ chain' \in Seq(Nat) /\ Len(chain) \in Nat /\ Len(chain) >= 1 /\ Len(chain') = Len(chain) - 1
      /\ \A i \in 1..Len(chain') : i + 1 \in 1..Len(chain) /\ chain'[i] = chain[i + 1]
      /\ \A h : Behind(h) => Queued(h)'
  BY <1>1, <1>3, Settled
<1> HIDE DEF g
<1>7. StorageTyped' BY <1>1, <1>3, <1>5 DEF StoreInv, StorageTyped
<1>8. GraphsTyped'
  <2>1. \A q \in Owner : tx'[q].graph \in 0..Len(graphs)
    BY <1>3, <1>5 DEF StoreInv, GraphsTyped
  <2>2. \A i \in 1..Len(chain') : chain'[i] \in 1..Len(graphs)
    BY <1>6 DEF StoreInv, GraphsTyped
  <2> QED BY <1>1, <1>3, <1>6, <2>1, <2>2 DEF StoreInv, GraphsTyped
<1>9. CountsTyped'
  <2>1. settled' \in Nat /\ issued' = settled' + Len(chain') BY <1>1, <1>6 DEF StoreInv, CountsTyped
  <2> QED BY <1>1, <2>1 DEF StoreInv, CountsTyped
<1>10. Process' BY <1>1, <1>3 DEF StoreInv, Process
<1>11. Saved'
  <2> SUFFICES ASSUME live = g
               PROVE  Queued(live)' \/ \A p \in Stored : tx[SaveQueue].new[p] = graphs[live][p]
    BY <1>1 DEF Saved
  <2>1. Behind(g) => Queued(live)'
    <3>1. Behind(live) => Queued(live)' BY <1>1, <1>6 DEF Queued
    <3> QED BY <3>1
  <2> QED BY <1>4, <2>1
<1>12. Grown' BY <1>1, <1>4 DEF Grown
<1>13. Untouched'
  <2> SUFFICES ASSUME NEW q \in Request, pc[q] \in {"new", "handling", "refused"},
                      NEW p \in Fresh[q] \ Direct[q]
               PROVE  /\ p \in Stored => q \notin tx[SaveQueue].new[p]
                      /\ q \notin graphs[live][p]
                      /\ \A i \in 1..Len(chain') : q \notin graphs[chain'[i]][p]
    BY <1>1, <1>5 DEF Untouched
  <2>1. tx[q].phase # "synced" /\ q # SaveQueue BY <1>2, <1>5, SaveQueueApart
  <2>2. /\ p \in Stored => q \notin tx[SaveQueue].new[p]
        /\ q \notin graphs[live][p]
        /\ \A i \in 1..Len(chain) : q \notin graphs[chain[i]][p]
    BY <1>2, <1>3, <2>1 DEF StoreInv, Untouched
  <2> QED BY <1>6, <2>2
<1>14. StoreInv' BY <1>5, <1>7, <1>8, <1>9, <1>10, <1>11, <1>12, <1>13 DEF StoreInv
<1> QED BY <1>1, <1>4, <1>14 DEF g

\* An aborted transaction leaves the rows and the graphs as they are.
LEMMA AbortFreshKeeps ==
    ASSUME StoreInv, NEW r \in Request, AbortFresh(r)
    PROVE  StoreInv'
<1>1. /\ tx[r].phase # "closed" /\ CloseTx(r)
      /\ pc' = [pc EXCEPT ![r] = IF tx[r].phase = "synced" THEN "uncommitted" ELSE "refused"]
      /\ failures < MaxFailures /\ failures' = failures + 1
      /\ UNCHANGED <<database, rows, graphs, live, chain, issued, settled, lastError, up, ticket,
                     crashes, wrote>>
  BY DEF AbortFresh, Refused, process
<1>2. Active(r) /\ r \in Owner BY <1>1, SaveQueueApart DEF Active
<1>3. up BY <1>2, ActiveGraphs
<1>4. /\ lock' = None /\ tx' \in [Owner -> Tx]
      /\ \A q \in Owner : /\ ~Active(q)' /\ tx'[q].phase = "closed"
                          /\ tx'[q].graph \in {0, tx[q].graph}
                          /\ \E i \in 0..Len(Tables) : tx'[q].left = SubSeq(Tables, i + 1, Len(Tables))
      /\ \A q \in Owner : q # r => tx[q].phase = "closed"
      /\ Exclusive' /\ FreshTx' /\ SaveTx' /\ Filled'
  BY <1>1, <1>2, Closes
<1>5. StorageTyped' BY <1>1, <1>4 DEF StoreInv, StorageTyped
<1>6. GraphsTyped'
  <2>1. \A q \in Owner : tx'[q].graph \in 0..Len(graphs)
    <3>1. 0 \in 0..Len(graphs) BY ActiveGraphs
    <3> QED BY <1>4, <3>1 DEF StoreInv, GraphsTyped
  <2> QED BY <1>1, <2>1 DEF StoreInv, GraphsTyped
<1>7. CountsTyped'
  <2>1. failures' \in 0..MaxFailures BY <1>1, StoreAssumption DEF StoreInv, CountsTyped
  <2> QED BY <1>1, <2>1 DEF StoreInv, CountsTyped
<1>8. Process' BY <1>1, <1>3 DEF StoreInv, Process
<1>9. Saved' /\ Grown' BY <1>1 DEF StoreInv, Saved, Grown, Queued
<1>10. Untouched'
  <2>1. \A q \in Request : pc'[q] \in {"new", "handling", "refused"} =>
             pc[q] \in {"new", "handling", "refused"} /\ tx[q].phase # "synced"
    <3>1. pc[r] = "handling" BY <1>2 DEF StoreInv, FreshTx
    <3> QED BY <1>1, <1>4, <3>1, SaveQueueApart DEF StoreInv, CountsTyped
  <2> QED BY <1>1, <1>4, <2>1 DEF StoreInv, Untouched
<1> QED BY <1>4, <1>5, <1>6, <1>7, <1>8, <1>9, <1>10 DEF StoreInv

\* A save that failed is settled, and its failure remembered.
LEMMA AbortSaveKeeps ==
    ASSUME StoreInv, AbortSave
    PROVE  StoreInv'
<1>1. /\ tx[SaveQueue].phase # "closed" /\ CloseTx(SaveQueue)
      /\ chain' = Tail(chain) /\ settled' = settled + 1 /\ lastError' = TRUE
      /\ failures < MaxFailures /\ failures' = failures + 1
      /\ UNCHANGED <<database, rows, graphs, live, issued, up, pc, ticket, crashes, wrote>>
  BY DEF AbortSave, Refused, Settle, requests
<1>2. Active(SaveQueue) /\ SaveQueue \in Owner BY <1>1, SaveQueueApart DEF Active
<1>3. up /\ chain # <<>> BY <1>2, ActiveGraphs DEF StoreInv, SaveTx
<1>4. /\ lock' = None /\ tx' \in [Owner -> Tx]
      /\ \A q \in Owner : /\ ~Active(q)' /\ tx'[q].phase = "closed"
                          /\ tx'[q].graph \in {0, tx[q].graph}
                          /\ \E i \in 0..Len(Tables) : tx'[q].left = SubSeq(Tables, i + 1, Len(Tables))
      /\ \A q \in Owner : q # SaveQueue => tx[q].phase = "closed"
      /\ Exclusive' /\ FreshTx' /\ SaveTx' /\ Filled'
  BY <1>1, <1>2, Closes
<1>5. /\ chain' \in Seq(Nat) /\ Len(chain) \in Nat /\ Len(chain) >= 1 /\ Len(chain') = Len(chain) - 1
      /\ \A i \in 1..Len(chain') : i + 1 \in 1..Len(chain) /\ chain'[i] = chain[i + 1]
  BY <1>1, <1>3, Settled
<1>6. StorageTyped' BY <1>1, <1>4 DEF StoreInv, StorageTyped
<1>7. GraphsTyped'
  <2>1. \A q \in Owner : tx'[q].graph \in 0..Len(graphs)
    <3>1. 0 \in 0..Len(graphs) BY ActiveGraphs
    <3> QED BY <1>4, <3>1 DEF StoreInv, GraphsTyped
  <2>2. \A i \in 1..Len(chain') : chain'[i] \in 1..Len(graphs)
    BY <1>5 DEF StoreInv, GraphsTyped
  <2> QED BY <1>1, <1>5, <2>1, <2>2 DEF StoreInv, GraphsTyped
<1>8. CountsTyped'
  <2>1. failures' \in 0..MaxFailures BY <1>1, StoreAssumption DEF StoreInv, CountsTyped
  <2>2. settled' \in Nat /\ issued' = settled' + Len(chain') BY <1>1, <1>5 DEF StoreInv, CountsTyped
  <2> QED BY <1>1, <2>1, <2>2 DEF StoreInv, CountsTyped
<1>9. Process' BY <1>1, <1>3 DEF StoreInv, Process
<1>10. Saved' /\ Grown' BY <1>1 DEF StoreInv, Saved, Grown
<1>11. Untouched'
  <2> SUFFICES ASSUME NEW q \in Request, pc[q] \in {"new", "handling", "refused"},
                      NEW p \in Fresh[q] \ Direct[q]
               PROVE  /\ p \in Stored => q \notin rows[p]
                      /\ q \notin graphs[live][p]
                      /\ \A i \in 1..Len(chain') : q \notin graphs[chain'[i]][p]
    BY <1>1, <1>4 DEF Untouched
  <2>1. tx[q].phase # "synced"
    <3>1. q \in Owner /\ q # SaveQueue BY SaveQueueApart
    <3> QED BY <1>4, <3>1
  <2>2. /\ p \in Stored => q \notin rows[p]
        /\ q \notin graphs[live][p]
        /\ \A i \in 1..Len(chain) : q \notin graphs[chain[i]][p]
    BY <1>3, <2>1 DEF StoreInv, Untouched
  <2> QED BY <1>5, <2>2
<1> QED BY <1>4, <1>6, <1>7, <1>8, <1>9, <1>10, <1>11 DEF StoreInv

\* Only the committed rows outlive the process.
LEMMA CrashKeeps ==
    ASSUME StoreInv, Crash
    PROVE  StoreInv'
<1>1. /\ crashes < MaxCrashes /\ crashes' = crashes + 1 /\ up' = FALSE
      /\ graphs' = <<>> /\ live' = 0 /\ chain' = <<>> /\ wrote' = 0
      /\ issued' = 0 /\ settled' = 0 /\ lastError' = FALSE
      /\ tx' = [o \in Owner |-> Closed] /\ lock' = None
      /\ pc' = [q \in Request |-> IF pc[q] \in {"handling", "flushing"} THEN "lost" ELSE pc[q]]
      /\ ticket' = [q \in Request |-> 0]
      /\ UNCHANGED <<database, rows, failures>>
  BY DEF Crash
<1>2. \A o \in Owner : tx'[o] = Closed /\ ~Active(o)' BY <1>1, ClosedTyped DEF Active
<1>3. Exclusive' /\ FreshTx' /\ SaveTx' /\ Filled'
  BY <1>2, SaveQueueApart DEF Exclusive, FreshTx, SaveTx, Filled, Filling, Active
<1>4. StorageTyped'
  <2>1. \A o \in Owner : tx'[o].left = SubSeq(Tables, Len(Tables) + 1, Len(Tables))
    BY <1>2, ClosedTyped
  <2>2. Len(Tables) \in 0..Len(Tables) BY ClosedTyped
  <2>3. \A o \in Owner : \E i \in 0..Len(Tables) : tx'[o].left = SubSeq(Tables, i + 1, Len(Tables))
    BY <2>1, <2>2
  <2>4. tx' \in [Owner -> Tx] BY <1>1, ClosedTyped
  <2> QED BY <1>1, <2>3, <2>4 DEF StoreInv, StorageTyped
<1>5. GraphsTyped' BY <1>1, <1>2, ClosedTyped, EmptySeq DEF GraphsTyped
<1>6. CountsTyped'
  <2>1. Len(chain') = 0 BY <1>1, EmptySeq
  <2>2. issued' \in Nat /\ settled' \in Nat /\ issued' = settled' + Len(chain') BY <1>1, <2>1
  <2>3. crashes' \in 0..MaxCrashes BY <1>1, StoreAssumption DEF StoreInv, CountsTyped
  <2>4. /\ pc' \in [Request -> {"new", "handling", "flushing", "done", "refused", "uncommitted", "lost"}]
        /\ ticket' \in [Request -> Nat]
    BY <1>1 DEF StoreInv, CountsTyped
  <2> QED BY <1>1, <2>2, <2>3, <2>4 DEF StoreInv, CountsTyped
<1>7. Process' BY <1>1, <1>2 DEF Process
<1>8. Saved' /\ Grown' BY <1>1 DEF Saved, Grown
<1>9. Untouched'
  <2>1. \A q \in Request : pc'[q] \in {"new", "handling", "refused"} =>
             pc[q] \in {"new", "handling", "refused"} /\ tx[q].phase # "synced"
    <3> SUFFICES ASSUME NEW q \in Request, pc'[q] \in {"new", "handling", "refused"}
                 PROVE  pc[q] \in {"new", "handling", "refused"} /\ tx[q].phase # "synced"
      OBVIOUS
    <3>1. pc[q] = pc'[q] /\ pc[q] # "handling" BY <1>1
    <3>2. ~Active(q) BY <3>1 DEF StoreInv, FreshTx
    <3> QED BY <3>1, <3>2 DEF Active
  <2>2. Len(chain') = 0 BY <1>1, EmptySeq
  <2> QED BY <1>1, <1>2, <2>1, <2>2 DEF StoreInv, Untouched
<1> QED BY <1>3, <1>4, <1>5, <1>6, <1>7, <1>8, <1>9 DEF StoreInv

\* What OnlyOtherGraphsLoseRows says of a step.
RowsNeverLost ==
    (\E p \in Stored : ~(rows[p] \subseteq rows'[p])) =>
        tx[SaveQueue].phase = "inserted" /\ tx[SaveQueue].graph # wrote

\* Every step keeps the invariant, and takes rows away only as it may.
LEMMA StoreNext ==
    ASSUME StoreInv, [Next]_vars
    PROVE  StoreInv' /\ RowsNeverLost
<1>1. CASE UNCHANGED vars
  <2>1. UNCHANGED <<rows, lock, tx, process, ticket, bounds, wrote>> /\ pc' = pc /\ database' = database
    BY <1>1 DEF vars, storage, requests
  <2>2. /\ database' \in {"missing", "bare", "ready"}
        /\ pc' \in [Request -> {"new", "handling", "flushing", "done", "refused", "uncommitted", "lost"}]
    BY <2>1 DEF StoreInv, StorageTyped, CountsTyped
  <2> QED BY <2>1, <2>2, QuietKeeps DEF RowsNeverLost
<1>2. CASE CreateDatabase \/ CreateTables
  BY <1>2, StartKeeps DEF CreateDatabase, CreateTables, RowsNeverLost
<1>3. CASE Open BY <1>3, OpenKeeps DEF Open, storage, RowsNeverLost
<1>4. ASSUME NEW r \in Request, Enter(r) \/ Flushed(r) PROVE StoreInv' /\ RowsNeverLost
  BY <1>4, EnterKeeps DEF Enter, Flushed, storage, RowsNeverLost
<1>5. ASSUME NEW r \in Request, Handle(r) PROVE StoreInv' /\ RowsNeverLost
  BY <1>5, HandleKeeps DEF Handle, storage, RowsNeverLost
<1>6. ASSUME NEW r \in Request, BeginFresh(r) PROVE StoreInv' /\ RowsNeverLost
  BY <1>6, BeginFreshKeeps DEF BeginFresh, RowsNeverLost
<1>7. ASSUME NEW r \in Request, RunFresh(r) PROVE StoreInv' /\ RowsNeverLost
  BY <1>7, RunFreshKeeps DEF RunFresh, RowsNeverLost
<1>8. ASSUME NEW o \in Owner, InsertPart(o) PROVE StoreInv' /\ RowsNeverLost
  BY <1>8, InsertPartKeeps DEF InsertPart, RowsNeverLost
<1>9. ASSUME NEW o \in Owner, Inserted(o) PROVE StoreInv' /\ RowsNeverLost
  BY <1>9, InsertedKeeps DEF Inserted, RowsNeverLost
<1>10. ASSUME NEW r \in Request, SyncBack(r) PROVE StoreInv' /\ RowsNeverLost
  BY <1>10, SyncBackKeeps DEF SyncBack, RowsNeverLost
<1>11. ASSUME NEW r \in Request, CommitFresh(r) PROVE StoreInv' /\ RowsNeverLost
  BY <1>11, CommitFreshKeeps DEF RowsNeverLost
<1>12. ASSUME NEW r \in Request, AbortFresh(r) PROVE StoreInv' /\ RowsNeverLost
  BY <1>12, AbortFreshKeeps DEF AbortFresh, RowsNeverLost
<1>13. CASE BeginSave BY <1>13, BeginSaveKeeps DEF BeginSave, RowsNeverLost
<1>14. CASE CommitSave
  <2>1. tx[SaveQueue].phase = "inserted" BY <1>14 DEF CommitSave
  <2> QED BY <1>14, <2>1, CommitSaveKeeps DEF RowsNeverLost
<1>15. CASE AbortSave BY <1>15, AbortSaveKeeps DEF AbortSave, RowsNeverLost
<1>16. CASE Crash BY <1>16, CrashKeeps DEF Crash, RowsNeverLost
<1> QED
  BY <1>1, <1>2, <1>3, <1>4, <1>5, <1>6, <1>7, <1>8, <1>9, <1>10, <1>11, <1>12, <1>13, <1>14, <1>15,
     <1>16, SaveQueueApart
  DEF Next, Starting, Serving, FreshSteps, SaveSteps

\* What a reader asks of the store follows.
LEMMA StoreInvGives == StoreInv => StoreInvariant
<1> SUFFICES ASSUME StoreInv PROVE StoreInvariant
  OBVIOUS
<1>1. StorageTyped /\ GraphsTyped /\ CountsTyped BY DEF StoreInv
<1>2. TypeOK
  <2>1. DOMAIN tx = Owner BY <1>1 DEF StorageTyped
  <2>2. \A o \in Owner :
         /\ tx[o].phase \in Phases
         /\ tx[o].graph \in 0..Len(graphs)
         /\ tx[o].new \in [Stored -> SUBSET Request]
         /\ \E i \in 0..Len(Tables) : tx[o].left = SubSeq(Tables, i + 1, Len(Tables))
    BY <1>1 DEF StorageTyped, GraphsTyped, Tx
  <2>3. \A g \in 1..Len(graphs) : graphs[g] \in [Part -> SUBSET Request]
    BY <1>1, ElementOfSeq DEF GraphsTyped, Graph
  <2>4. chain \in Seq(1..Len(graphs))
    <3>1. chain \in Seq(Nat) /\ Len(chain) \in Nat BY <1>1, LenProperties DEF GraphsTyped
    <3>2. \A i \in 1..Len(chain) : chain[i] \in 1..Len(graphs) BY <1>1 DEF GraphsTyped
    <3>3. chain = [i \in 1..Len(chain) |-> chain[i]] BY <3>1, LenProperties
    <3> HIDE DEF Stored
    <3> QED BY <3>1, <3>2, <3>3, IsASeq
  <2> QED BY <1>1, <2>1, <2>2, <2>3, <2>4 DEF TypeOK, StorageTyped, GraphsTyped, CountsTyped
<1>3. RunnerSeesRows
  <2>1. \A r \in Request : tx[r].phase = "running" => Active(r) BY DEF Active
  <2> QED BY <2>1 DEF StoreInv, FreshTx, RunnerSeesRows
<1>4. RefusedLeavesNothing
  <2>1. \A r \in Request : pc[r] = "refused" => tx[r].phase # "synced"
    BY DEF StoreInv, FreshTx, Active
  <2> QED BY <2>1 DEF StoreInv, Untouched, RefusedLeavesNothing
<1>5. QuietRowsAreLive
  <2>1. Quiet => ~Queued(live)
    <3>1. chain = <<>> => Len(chain) = 0 BY EmptySeq
    <3> QED BY <3>1 DEF Quiet, Queued
  <2> QED BY <2>1 DEF StoreInv, Saved, QuietRowsAreLive, Quiet
<1> QED BY <1>2, <1>3, <1>4, <1>5 DEF StoreInvariant

\* Whatever the tables, the requests and the parts they change, and however many statements
\* fail and processes stop: a runner on fresh state sees what is committed, a refused request
\* leaves nothing behind, and the rows at rest are the live graph's (postgresDb.ts).
THEOREM StoreInvariantHolds == Spec => []StoreInvariant
<1>1. Init => StoreInv BY StoreInit
<1>2. StoreInv /\ [Next]_vars => StoreInv' BY StoreNext
<1>3. StoreInv => StoreInvariant BY StoreInvGives
<1> QED BY <1>1, <1>2, <1>3, PTL DEF Spec

\* Rows are taken away only by a queued save of another graph than the one written last,
\* never by a transaction on fresh state (postgresDb.ts, replaceTenantState).
THEOREM OnlyOtherGraphsLoseRowsHolds == Spec => OnlyOtherGraphsLoseRows
<1>1. Init => StoreInv BY StoreInit
<1>2. StoreInv /\ [Next]_vars => StoreInv' BY StoreNext
<1>3. StoreInv /\ [Next]_vars => [RowsNeverLost]_vars BY StoreNext
<1> QED BY <1>1, <1>2, <1>3, PTL DEF Spec, OnlyOtherGraphsLoseRows, RowsNeverLost

(***************************************************************************)
(* Part 2: the migration.                                                  *)
(*                                                                         *)
(* A write that was executed undisturbed is in every slice that can still  *)
(* become what the merchant is served from: what the dedicated database    *)
(* stores, what waits in a queue of saves, the cache of the object the     *)
(* router names and that of the object a cutover is opening (Kept).  While *)
(* the shared database serves the merchant, none of these slices knows it. *)
(***************************************************************************)
KeptEver == kept["root"] \cup kept["dedicated"]

\* A slice has the records of the writes kept in the dedicated database and, until a restart
\* forgets an override, all that was kept if it knows the merchant.  It does know it once
\* something was kept in the dedicated database, and does not while the shared one serves.
Holds(slice) ==
    /\ kept["dedicated"] \subseteq slice.keys
    /\ ~stranded =>
         /\ slice.known => KeptEver \subseteq slice.rows
         /\ kept["dedicated"] # {} => slice.known
         /\ Route = Root => ~slice.known

\* The slices that can still be served from.
InPlay(slice) ==
    \/ slice = stored["dedicated"]
    \/ \E o \in Dedicated : \E i \in 1..Len(saves[o]) : slice = saves[o][i]
    \/ override # Root /\ slice = cache[override]
    \/ cut = "opened" /\ slice = cache[NewObject]

Kept ==
    /\ stored["root"].known
    /\ kept["root"] \subseteq stored["root"].rows /\ kept["root"] \subseteq stored["root"].keys
    /\ \A slice \in Slice : InPlay(slice) => Holds(slice)

\* The object a cutover opens is not the one the router names.
Apart ==
    /\ override <= cutovers + 1
    /\ cut \in {"opening", "opened"} => override <= cutovers

\* A cutover that is over, or about to commit, has switched writes on again.
Unfrozen == CutoverUnfreezes /\ (cut = "committing" => writeEnabled)

MigrationInv == TenantTypeOK /\ Kept /\ Apart /\ Unfrozen

\* The bounds are numbers.
LEMMA Bounds ==
    /\ Locked \subseteq Write
    /\ MaxAttempts \in Nat /\ MaxCutovers \in Nat
    /\ MaxCutoverFailures \in Nat /\ MaxRestarts \in Nat
BY TenancyAssumption

\* The databases and the objects.
LEMMA Places ==
    /\ Root = 0 /\ Startup \in Dedicated /\ Root \notin Dedicated /\ Root \in Place
    /\ "root" \in Db /\ "dedicated" \in Db /\ "root" # "dedicated"
    /\ \A o \in Dedicated : o \in Place /\ o \in Nat /\ o >= 1 /\ o <= MaxCutovers + 1
    /\ \A p \in Place : /\ p # Root => p \in Dedicated
                        /\ Name(p) \in Db
                        /\ Name(p) = (IF p = Root THEN "root" ELSE "dedicated")
BY Bounds DEF Root, Startup, Dedicated, Place, Db, Name

\* No slice is a slice, and a written slice only gains.
LEMMA Slices ==
    /\ NoSlice \in Slice
    /\ \A g \in Slice, w \in Write :
         /\ Written(g, w) \in Slice
         /\ Written(g, w).known = g.known
         /\ g.rows \subseteq Written(g, w).rows /\ w \in Written(g, w).rows
         /\ g.keys \subseteq Written(g, w).keys /\ w \in Written(g, w).keys
BY DEF NoSlice, Slice, Written

\* The slices in play are slices.
LEMMA SavesAreSlices ==
    ASSUME TenantTypeOK
    PROVE  \A o \in Dedicated : \A i \in 1..Len(saves[o]) : saves[o][i] \in Slice
<1> SUFFICES ASSUME NEW o \in Dedicated, NEW i \in 1..Len(saves[o]) PROVE saves[o][i] \in Slice
  OBVIOUS
<1>1. saves[o] \in Seq(Slice) BY DEF TenantTypeOK
<1> QED BY <1>1, ElementOfSeq

\* Before the first request there is nothing but the shared database.
LEMMA MigrationStarts ==
    ASSUME TenantInit
    PROVE  MigrationInv
<1> USE DEF TenantInit
<1>1. /\ stored["root"] = [known |-> TRUE, rows |-> {}, keys |-> {}]
      /\ stored["dedicated"] = NoSlice
      /\ stored \in [Db -> Slice]
  BY Places DEF Db, NoSlice, Slice
<1>2. TenantTypeOK
  <2>1. saves \in [Dedicated -> Seq(Slice)] /\ cache \in [Dedicated -> Slice]
    BY Slices, EmptySeq
  <2>2. /\ db \in [Write -> Place] /\ migration \in Phase /\ override \in Place
        /\ kept \in [Db -> SUBSET Write]
    BY Places DEF Phase
  <2>3. /\ writePc \in [Write -> {"new", "resolved", "done", "refused", "lost"}]
        /\ attempts \in 0..MaxAttempts
        /\ cutovers \in 0..MaxCutovers /\ cutoverFailures \in 0..MaxCutoverFailures /\ restarts \in 0..MaxRestarts
    BY Bounds
  <2> QED BY <1>1, <2>1, <2>2, <2>3 DEF TenantTypeOK
<1>3. Kept
  <2>1. kept["root"] = {} /\ kept["dedicated"] = {} /\ Route = Root
    BY Places DEF Route
  <2>2. \A o \in Dedicated : Len(saves[o]) = 0
    BY EmptySeq
  <2>3. \A g \in Slice : InPlay(g) => g = NoSlice
    BY <1>1, <2>2 DEF InPlay
  <2>4. Holds(NoSlice)
    BY <2>1 DEF Holds, NoSlice, KeptEver
  <2>5. \A g \in Slice : InPlay(g) => Holds(g)
    BY <2>3, <2>4
  <2>6. stored["root"].known
    BY <1>1
  <2> QED BY <2>1, <2>5, <2>6 DEF Kept
<1>4. Apart /\ Unfrozen
  BY DEF Apart, Root, Unfrozen, CutoverUnfreezes
<1> QED BY <1>2, <1>3, <1>4 DEF MigrationInv

\* What changes no slice and not the route keeps them all.
LEMMA SlicesKeep ==
    ASSUME Kept,
           UNCHANGED <<stored, override, cache, saves, stranded, kept>>,
           cut' = "opened" => cut = "opened" /\ cutovers' = cutovers
    PROVE  Kept'
<1>1. Route' = Route
  BY DEF Route
<1>2. \A g \in Slice : InPlay(g)' => InPlay(g)
  BY DEF InPlay, NewObject
<1>3. \A g \in Slice : Holds(g) => Holds(g)'
  BY <1>1 DEF Holds, KeptEver
<1> QED BY <1>2, <1>3 DEF Kept

\* A write is resolved to the route as it is.
LEMMA ArriveKeeps ==
    ASSUME MigrationInv, NEW w \in Write, Arrive(w)
    PROVE  MigrationInv'
<1> USE DEF MigrationInv
<1>1. /\ UNCHANGED <<disk, memory, tenantBounds, history>>
      /\ attempts' = attempts + 1 /\ attempts < MaxAttempts
      /\ \E p \in {"refused", "resolved"} : writePc' = [writePc EXCEPT ![w] = p]
      /\ db' = db \/ db' = [db EXCEPT ![w] = Route]
  BY DEF Arrive
<1>2. Route \in Place
  BY Places DEF Route, TenantTypeOK
<1>3. /\ writePc' \in [Write -> {"new", "resolved", "done", "refused", "lost"}]
      /\ db' \in [Write -> Place]
      /\ attempts' \in 0..MaxAttempts
  BY <1>1, <1>2, Bounds DEF TenantTypeOK
<1>4. TenantTypeOK'
  BY <1>1, <1>3 DEF TenantTypeOK, disk, memory, tenantBounds, history
<1>5. Kept'
  BY <1>1, SlicesKeep DEF disk, memory, tenantBounds, history
<1>6. Apart' /\ Unfrozen'
  BY <1>1 DEF Apart, Unfrozen, CutoverUnfreezes, memory, tenantBounds, history
<1> QED BY <1>4, <1>5, <1>6

\* What only sends a write on its way again, or refuses it.
LEMMA OtherRequestKeeps ==
    ASSUME MigrationInv, NEW w \in Write, NotFound(w) \/ Resend(w)
    PROVE  MigrationInv'
<1> USE DEF MigrationInv
<1>1. /\ UNCHANGED <<disk, memory, db, attempts, tenantBounds, history>>
      /\ \E p \in {"new", "refused"} : writePc' = [writePc EXCEPT ![w] = p]
  BY DEF NotFound, Resend
<1>2. TenantTypeOK'
  BY <1>1 DEF TenantTypeOK, disk, memory, tenantBounds, history
<1>3. Kept'
  BY <1>1, SlicesKeep DEF disk, memory, tenantBounds, history
<1>4. Apart' /\ Unfrozen'
  BY <1>1 DEF Apart, Unfrozen, CutoverUnfreezes, memory, tenantBounds, history
<1> QED BY <1>2, <1>3, <1>4

\* A write goes into the rows of its database; when nothing disturbed it, no other slice is
\* in play that lacks it.
LEMMA ExecuteKeeps ==
    ASSUME MigrationInv, NEW w \in Write, Execute(w)
    PROVE  MigrationInv'
<1> USE DEF MigrationInv
<1> DEFINE place == db[w]
           b == Name(place)
<1>1. place \in Place /\ b \in Db /\ stored[b] \in Slice /\ b = (IF place = Root THEN "root" ELSE "dedicated")
  BY Places DEF TenantTypeOK
<1>2. PICK final : /\ final = (IF w \in stored[b].keys THEN stored[b] ELSE Written(stored[b], w))
                   /\ stored' = [stored EXCEPT ![b] = final]
                   /\ cache' = [o \in Dedicated |-> IF o = place THEN final ELSE cache[o]]
  BY DEF Execute
<1>3. /\ final \in Slice /\ final.known = stored[b].known
      /\ stored[b].rows \subseteq final.rows /\ stored[b].keys \subseteq final.keys
      /\ w \notin stored[b].keys => w \in final.rows /\ w \in final.keys
  BY <1>1, <1>2, Slices
<1>4. /\ place = Root => cut = "idle"
      /\ stored[b].known
      /\ \/ kept' = kept
         \/ /\ kept' = [kept EXCEPT ![b] = @ \cup {w}]
            /\ place = Route /\ w \notin stored[b].keys /\ (place # Root => Undisturbed)
      /\ writePc' = [writePc EXCEPT ![w] = "done"]
      /\ UNCHANGED <<routeFile, migration, policy, override, saves, writeEnabled, cut,
                     db, attempts, tenantBounds, frozenBy, stranded>>
  BY DEF Execute, RootTransactionOpen
<1>5. TenantTypeOK'
  <2>1. stored' \in [Db -> Slice] /\ cache' \in [Dedicated -> Slice] /\ kept' \in [Db -> SUBSET Write]
    BY <1>1, <1>2, <1>3, <1>4 DEF TenantTypeOK
  <2>2. writePc' \in [Write -> {"new", "resolved", "done", "refused", "lost"}]
    BY <1>4 DEF TenantTypeOK
  <2> QED BY <1>4, <2>1, <2>2 DEF TenantTypeOK, tenantBounds
<1>6. UNCHANGED <<cutovers, cutoverFailures, restarts>>
  BY <1>4 DEF tenantBounds
<1>7. Apart' /\ Unfrozen'
  BY <1>4, <1>6 DEF Apart, Unfrozen, CutoverUnfreezes
<1>8. Kept'
  <2>1. CASE place = Root
    <3>1. /\ b = "root" /\ stored'["root"] = final /\ stored'["dedicated"] = stored["dedicated"]
          /\ \A o \in Dedicated : cache'[o] = cache[o]
      BY <1>1, <1>2, <2>1, Places DEF TenantTypeOK
    <3>2. Route' = Route
      BY <1>4, <3>1, Places DEF Route, TenantTypeOK
    <3>3. /\ kept'["dedicated"] = kept["dedicated"]
          /\ \/ kept'["root"] = kept["root"]
             \/ kept'["root"] = kept["root"] \cup {w} /\ Route = Root /\ w \notin stored["root"].keys
      BY <1>4, <2>1, <3>1, Places DEF TenantTypeOK
    <3>4. stored["root"].known /\ kept["root"] \subseteq stored["root"].rows
          /\ kept["root"] \subseteq stored["root"].keys
      BY DEF Kept
    <3>5. /\ stored'["root"].known
          /\ kept'["root"] \subseteq stored'["root"].rows /\ kept'["root"] \subseteq stored'["root"].keys
      BY <1>3, <3>1, <3>3, <3>4
    <3>6. ASSUME NEW g \in Slice, InPlay(g)' PROVE Holds(g)'
      <4>1. InPlay(g)
        BY <1>4, <1>6, <3>1, <3>6, <2>1, Places DEF InPlay, NewObject, TenantTypeOK
      <4>2. Holds(g)
        BY <4>1 DEF Kept
      <4>3. CASE kept'["root"] = kept["root"]
        BY <1>4, <3>2, <3>3, <4>2, <4>3 DEF Holds, KeptEver
      <4>4. CASE Route = Root
        BY <1>4, <3>2, <3>3, <4>2, <4>4 DEF Holds, KeptEver
      <4> QED BY <3>3, <4>3, <4>4
    <3> QED BY <3>5, <3>6 DEF Kept
  <2>2. CASE place # Root
    <3>1. /\ b = "dedicated" /\ stored'["dedicated"] = final /\ stored'["root"] = stored["root"]
          /\ \A o \in Dedicated : cache'[o] = IF o = place THEN final ELSE cache[o]
      BY <1>1, <1>2, <2>2, Places DEF TenantTypeOK
    <3>2. /\ kept'["root"] = kept["root"]
          /\ \/ kept'["dedicated"] = kept["dedicated"]
             \/ /\ kept'["dedicated"] = kept["dedicated"] \cup {w} /\ place = Route
                /\ w \notin stored["dedicated"].keys /\ Undisturbed
      BY <1>4, <2>2, <3>1, Places DEF TenantTypeOK
    <3>3. Holds(stored["dedicated"]) /\ stored["dedicated"].known
      <4>1. InPlay(stored["dedicated"])
        BY DEF InPlay
      <4> QED BY <1>1, <1>4, <3>1, <4>1 DEF Kept
    <3>4. ~stranded => Route # Root /\ Route' # Root
      <4> SUFFICES ASSUME ~stranded PROVE Route # Root /\ Route' # Root
        OBVIOUS
      <4>1. Route # Root
        BY <3>3 DEF Holds
      <4>2. override # Root /\ cache[override].known /\ override \in Dedicated
        BY <4>1, Places DEF Route, TenantTypeOK
      <4>3. cache'[override].known
        BY <1>3, <3>1, <3>3, <4>2
      <4> QED BY <1>4, <4>1, <4>2, <4>3 DEF Route
    <3>5. /\ stored'["root"].known
          /\ kept'["root"] \subseteq stored'["root"].rows /\ kept'["root"] \subseteq stored'["root"].keys
      BY <3>1, <3>2 DEF Kept
    <3>6. Holds(final)'
      <4>1. kept["dedicated"] \subseteq stored["dedicated"].keys
        BY <3>3 DEF Holds
      <4>2. kept'["dedicated"] \subseteq final.keys
        BY <1>3, <3>1, <3>2, <4>1
      <4>3. ~stranded => KeptEver' \subseteq final.rows
        BY <1>3, <3>1, <3>2, <3>3 DEF Holds, KeptEver
      <4> QED BY <1>3, <1>4, <3>1, <3>3, <3>4, <4>2, <4>3 DEF Holds
    <3>7. ASSUME NEW g \in Slice, InPlay(g)' PROVE Holds(g)'
      <4>1. CASE g = final
        BY <3>6, <4>1
      <4>2. CASE g # final
        <5>1. /\ InPlay(g)
              /\ \/ \E o \in Dedicated : \E i \in 1..Len(saves[o]) : g = saves[o][i]
                 \/ override # Root /\ override # place
                 \/ cut = "opened"
          <6>1. \/ \E o \in Dedicated : \E i \in 1..Len(saves[o]) : g = saves[o][i]
                \/ override # Root /\ g = cache'[override]
                \/ cut = "opened" /\ g = cache'[NewObject]
            BY <1>4, <1>6, <3>1, <3>7, <4>2 DEF InPlay, NewObject
          <6>2. CASE \E o \in Dedicated : \E i \in 1..Len(saves[o]) : g = saves[o][i]
            BY <6>2 DEF InPlay
          <6>3. CASE override # Root /\ g = cache'[override]
            <7>1. override \in Dedicated
              BY <6>3, Places DEF TenantTypeOK
            <7> QED BY <3>1, <4>2, <6>3, <7>1 DEF InPlay
          <6>4. CASE cut = "opened" /\ g = cache'[NewObject]
            <7>1. NewObject \in Dedicated
              BY <6>4, Bounds DEF TenantTypeOK, NewObject, Dedicated
            <7> QED BY <3>1, <4>2, <6>4, <7>1 DEF InPlay
          <6> QED BY <6>1, <6>2, <6>3, <6>4
        <5>2. kept' = kept
          <6>1. Undisturbed /\ place = Route => override = place
            BY <2>2 DEF Route
          <6>2. Undisturbed => cut = "idle" /\ \A o \in Dedicated : Len(saves[o]) = 0
            BY EmptySeq DEF Undisturbed
          <6>3. Undisturbed => ~ \E o \in Dedicated : \E i \in 1..Len(saves[o]) : g = saves[o][i]
            BY <6>2
          <6> QED BY <1>4, <2>2, <5>1, <6>1, <6>2, <6>3
        <5>3. Holds(g)
          BY <5>1 DEF Kept
        <5> QED BY <1>4, <3>4, <5>2, <5>3 DEF Holds, KeptEver
      <4> QED BY <4>1, <4>2
    <3> QED BY <3>5, <3>7 DEF Kept
  <2> QED BY <2>1, <2>2
<1> QED BY <1>5, <1>7, <1>8

\* A save of the cache the router names puts nothing new into play.
LEMMA SaveCacheKeeps ==
    ASSUME MigrationInv, SaveCache
    PROVE  MigrationInv'
<1> USE DEF MigrationInv
<1>1. /\ Route # Root /\ saves' = [saves EXCEPT ![Route] = Append(@, cache[Route])]
      /\ UNCHANGED <<disk, override, cache, writeEnabled, cut, traffic, tenantBounds, history>>
  BY DEF SaveCache
<1>2. Route = override /\ override \in Dedicated /\ cache[override] \in Slice /\ saves[override] \in Seq(Slice)
  BY <1>1, Places DEF Route, TenantTypeOK
<1>3. saves' \in [Dedicated -> Seq(Slice)]
  <2>1. Append(saves[override], cache[override]) \in Seq(Slice)
    BY <1>2, AppendProperties
  <2> QED BY <1>1, <1>2, <2>1 DEF TenantTypeOK
<1>4. TenantTypeOK'
  BY <1>1, <1>3 DEF TenantTypeOK, disk, traffic, tenantBounds, history
<1>5. UNCHANGED <<stored, cutovers, frozenBy, stranded, kept>> /\ Route' = Route
  BY <1>1 DEF disk, tenantBounds, history, Route
<1>6. \A g \in Slice : InPlay(g)' => InPlay(g)
  <2> SUFFICES ASSUME NEW g \in Slice, NEW o \in Dedicated, NEW i \in 1..Len(saves'[o]), g = saves'[o][i]
               PROVE  InPlay(g)
    BY <1>1, <1>5 DEF InPlay, NewObject
  <2>1. CASE o # override
    <3>1. saves'[o] = saves[o]
      BY <1>1, <1>2, <2>1 DEF TenantTypeOK
    <3> QED BY <3>1 DEF InPlay
  <2>2. CASE o = override
    <3>1. saves'[o] = Append(saves[o], cache[override])
      BY <1>1, <1>2, <2>2 DEF TenantTypeOK
    <3>2. \/ i \in 1..Len(saves[o]) /\ saves'[o][i] = saves[o][i]
          \/ saves'[o][i] = cache[override]
      BY <1>2, <2>2, <3>1, AppendProperties
    <3> QED BY <1>1, <1>2, <3>2 DEF InPlay
  <2> QED BY <2>1, <2>2
<1>7. \A g \in Slice : Holds(g) => Holds(g)'
  BY <1>5 DEF Holds, KeptEver
<1>8. Kept'
  BY <1>5, <1>6, <1>7 DEF Kept
<1>9. Apart' /\ Unfrozen'
  BY <1>1, <1>5 DEF Apart, Unfrozen, CutoverUnfreezes
<1> QED BY <1>4, <1>8, <1>9

\* A save makes what a queue held what the dedicated database holds, or is dropped.
LEMMA SaveKeeps ==
    ASSUME MigrationInv, NEW o \in Dedicated, NEW fails \in BOOLEAN, Save(o, fails)
    PROVE  MigrationInv'
<1> USE DEF MigrationInv
<1>1. /\ saves[o] # <<>> /\ saves' = [saves EXCEPT ![o] = Tail(@)]
      /\ stored' = stored \/ stored' = [stored EXCEPT !["dedicated"] = Head(saves[o])]
      /\ \/ cutoverFailures' = cutoverFailures
         \/ cutoverFailures < MaxCutoverFailures /\ cutoverFailures' = cutoverFailures + 1
      /\ UNCHANGED <<routeFile, migration, policy, override, cache, writeEnabled, cut,
                     traffic, cutovers, restarts, history>>
  BY DEF Save
<1>2. /\ Head(saves[o]) = saves[o][1] /\ Len(saves[o]) \in Nat /\ Len(saves[o]) >= 1
      /\ saves[o][1] \in Slice /\ Tail(saves[o]) \in Seq(Slice)
      /\ Len(Tail(saves[o])) = Len(saves[o]) - 1
      /\ \A i \in 1..Len(Tail(saves[o])) : Tail(saves[o])[i] = saves[o][i + 1]
  <2>1. saves[o] \in Seq(Slice)
    BY DEF TenantTypeOK
  <2>2. /\ Head(saves[o]) \in Slice /\ Tail(saves[o]) \in Seq(Slice)
        /\ Len(Tail(saves[o])) = Len(saves[o]) - 1
        /\ \A i \in 1..Len(Tail(saves[o])) : Tail(saves[o])[i] = saves[o][i + 1]
    BY <1>1, <2>1, HeadTailProperties
  <2>3. Len(saves[o]) \in Nat /\ Len(saves[o]) >= 1
    BY <1>1, <2>1, LenProperties, EmptySeq
  <2>4. Head(saves[o]) = saves[o][1]
    BY <1>1, <2>1
  <2> QED BY <2>2, <2>3, <2>4
<1>3. /\ stored'["root"] = stored["root"] /\ stored' \in [Db -> Slice]
      /\ stored'["dedicated"] = stored["dedicated"] \/ stored'["dedicated"] = saves[o][1]
  <2>1. PICK head : head = Head(saves[o])
    OBVIOUS
  <2>2. head = saves[o][1] /\ head \in Slice
    BY <1>2, <2>1
  <2>3. stored' = stored \/ stored' = [stored EXCEPT !["dedicated"] = head]
    BY <1>1, <2>1
  <2>4. stored \in [Db -> Slice]
    BY DEF TenantTypeOK
  <2> QED BY <2>2, <2>3, <2>4, Places
<1>4. cutoverFailures' \in 0..MaxCutoverFailures
  BY <1>1, Bounds DEF TenantTypeOK
<1>5. TenantTypeOK'
  <2>1. saves' \in [Dedicated -> Seq(Slice)]
    BY <1>1, <1>2 DEF TenantTypeOK
  <2> QED BY <1>1, <1>3, <1>4, <2>1 DEF TenantTypeOK, traffic, history
<1>6. UNCHANGED <<frozenBy, stranded, kept>> /\ Route' = Route
  BY <1>1 DEF history, Route
<1>7. \A g \in Slice : InPlay(g)' => InPlay(g)
  <2> SUFFICES ASSUME NEW g \in Slice, InPlay(g)' PROVE InPlay(g)
    OBVIOUS
  <2>1. CASE g = stored'["dedicated"]
    <3>1. 1 \in 1..Len(saves[o])
      BY <1>2
    <3> QED BY <1>3, <2>1, <3>1 DEF InPlay
  <2>2. CASE \E p \in Dedicated : \E i \in 1..Len(saves'[p]) : g = saves'[p][i]
    <3>1. PICK p \in Dedicated : \E i \in 1..Len(saves'[p]) : g = saves'[p][i]
      BY <2>2
    <3>2. PICK i \in 1..Len(saves'[p]) : g = saves'[p][i]
      BY <3>1
    <3>3. CASE p # o
      <4>1. saves'[p] = saves[p]
        BY <1>1, <3>3 DEF TenantTypeOK
      <4> QED BY <3>2, <4>1 DEF InPlay
    <3>4. CASE p = o
      <4>1. saves'[p] = Tail(saves[o])
        BY <1>1, <3>4 DEF TenantTypeOK
      <4>2. i + 1 \in 1..Len(saves[o]) /\ g = saves[o][i + 1]
        BY <1>2, <3>2, <4>1
      <4> QED BY <4>2 DEF InPlay
    <3> QED BY <3>3, <3>4
  <2>3. CASE override # Root /\ g = cache[override]
    BY <2>3 DEF InPlay
  <2>4. CASE cut = "opened" /\ g = cache[NewObject]
    BY <2>4 DEF InPlay
  <2> QED BY <1>1, <2>1, <2>2, <2>3, <2>4 DEF InPlay, NewObject
<1>8. \A g \in Slice : Holds(g) => Holds(g)'
  BY <1>6 DEF Holds, KeptEver
<1>9. Kept'
  BY <1>3, <1>6, <1>7, <1>8 DEF Kept
<1>10. Apart' /\ Unfrozen'
  BY <1>1, <1>6 DEF Apart, Unfrozen, CutoverUnfreezes
<1> QED BY <1>5, <1>9, <1>10

\* What leaves the requests and the rows alone: the steps of a migration and of a cutover
\* but for its opening and its copy.
LEMMA OwnerKeeps ==
    ASSUME MigrationInv,
           UNCHANGED <<stored, override, cache, saves, writePc, db, stranded, kept>>,
           routeFile' \in BOOLEAN, policy' \in BOOLEAN, writeEnabled' \in BOOLEAN,
           migration' \in Phase, cut' \in {"idle", "opening"} /\ (cut' = "opening" => cutovers' > cutovers),
           frozenBy' \in {"nobody", "owner", "cutover"}, attempts' \in 0..MaxAttempts,
           cutovers' \in 0..MaxCutovers, cutoverFailures' \in 0..MaxCutoverFailures,
           restarts' \in 0..MaxRestarts, cutovers' >= cutovers, Unfrozen'
    PROVE  MigrationInv'
<1> USE DEF MigrationInv
<1>1. cutovers \in Nat /\ cutovers' \in Nat /\ override \in Nat
  BY Bounds, Places DEF TenantTypeOK
<1>2. TenantTypeOK'
  BY <1>1 DEF TenantTypeOK
<1>3. Kept'
  BY SlicesKeep
<1>4. Apart'
  <2>0. override' = override /\ override <= cutovers + 1
    BY DEF Apart
  <2>1. override' = override /\ override' <= cutovers' + 1
    <3>1. \A a, m, n \in Nat : a <= m + 1 /\ n >= m => a <= n + 1
      OBVIOUS
    <3>2. cutovers' >= cutovers
      OBVIOUS
    <3> QED BY <1>1, <2>0, <3>1, <3>2
  <2>2. cut' \in {"opening", "opened"} => cutovers' >= cutovers + 1
    BY <1>1
  <2>3. cut' \in {"opening", "opened"} => override' <= cutovers'
    <3>1. \A a, m, n \in Nat : a <= m + 1 /\ n >= m + 1 => a <= n
      OBVIOUS
    <3> QED BY <1>1, <2>0, <2>2, <3>1
  <2> QED BY <2>1, <2>3 DEF Apart
<1> QED BY <1>2, <1>3, <1>4

\* The owner's steps take the merchant's lock and move no data.
LEMMA MigrationStepKeeps ==
    ASSUME MigrationInv, NEW step \in MIGRATION_STEPS, NEW commits \in BOOLEAN,
           MigrationStep(step, commits)
    PROVE  MigrationInv'
<1> USE DEF MigrationInv
<1>1. /\ MerchantLockFree /\ attempts < MaxAttempts /\ attempts' = attempts + 1
      /\ UNCHANGED <<stored, routeFile, override, cache, saves, cut, writePc, db,
                     cutovers, restarts, stranded, kept>>
      /\ \/ UNCHANGED <<writeEnabled, frozenBy>>
         \/ writeEnabled' = FALSE /\ frozenBy' = "owner"
         \/ writeEnabled' = TRUE /\ frozenBy' = "nobody"
  BY DEF MigrationStep, setMerchantPolicy
<1>2. writeEnabled' \in BOOLEAN /\ frozenBy' \in {"nobody", "owner", "cutover"}
  BY <1>1 DEF TenantTypeOK
<1>3. cutoverFailures' \in 0..MaxCutoverFailures /\ attempts' \in 0..MaxAttempts
  <2>1. \/ cutoverFailures' = cutoverFailures
        \/ cutoverFailures < MaxCutoverFailures /\ cutoverFailures' = cutoverFailures + 1
    BY DEF MigrationStep
  <2> QED BY <1>1, <2>1, Bounds DEF TenantTypeOK
<1>4. migration' \in Phase
  <2>1. migration' = migration \/ migration' = resolveMigrationPhase(migration, step)
    BY DEF MigrationStep
  <2>2. resolveMigrationPhase(migration, step) \in Phase
    BY DEF resolveMigrationPhase, MIGRATION_STEPS, Phase
  <2> QED BY <2>1, <2>2 DEF TenantTypeOK
<1>5. policy' \in BOOLEAN
  <2>1. policy' = policy \/ policy' = writeEnabled'
    BY DEF MigrationStep
  <2> QED BY <1>2, <2>1 DEF TenantTypeOK
<1>6. cut = "idle" /\ cut' = "idle"
  BY <1>1 DEF MerchantLockFree
<1>7. Unfrozen'
  BY <1>1, <1>6 DEF Unfrozen, CutoverUnfreezes
<1>8. cutovers' = cutovers /\ cutovers >= cutovers /\ restarts' = restarts
  BY <1>1, Bounds DEF TenantTypeOK
<1>9. routeFile' \in BOOLEAN /\ cutovers' \in 0..MaxCutovers /\ restarts' \in 0..MaxRestarts
  BY <1>1 DEF TenantTypeOK
<1> QED BY <1>1, <1>2, <1>3, <1>4, <1>5, <1>6, <1>7, <1>8, <1>9, OwnerKeeps

\* A cutover begins by switching writes off, and ends or fails by switching them on.
LEMMA CutoverStepKeeps ==
    ASSUME MigrationInv,
           BeginCutover \/ CommitCutover \/ CutoverFails \/ CommitFails
    PROVE  MigrationInv'
<1> USE DEF MigrationInv
<1>1. CASE BeginCutover
  <2>1. /\ cutovers < MaxCutovers /\ cutovers' = cutovers + 1
        /\ cut' = "opening" /\ writeEnabled' = FALSE /\ frozenBy' = "cutover"
        /\ UNCHANGED <<stored, routeFile, migration, policy, override, cache, saves,
                       writePc, db, attempts, cutoverFailures, restarts, stranded, kept>>
    BY <1>1 DEF BeginCutover, setMerchantPolicy, disk, traffic
  <2>2. cutovers' \in 0..MaxCutovers /\ cutovers' > cutovers /\ cutovers' >= cutovers
    BY <2>1, Bounds DEF TenantTypeOK
  <2>3. Unfrozen'
    BY <2>1 DEF Unfrozen, CutoverUnfreezes
  <2> QED BY <2>1, <2>2, <2>3, OwnerKeeps DEF TenantTypeOK
<1>2. CASE CommitCutover
  <2>1. /\ cut = "committing" /\ cut' = "idle" /\ routeFile' = TRUE
        /\ migration' = "CUTOVER" /\ policy' = TRUE
        /\ UNCHANGED <<stored, override, cache, saves, writeEnabled, writePc, db, attempts,
                       cutovers, cutoverFailures, restarts, frozenBy, stranded, kept>>
    BY <1>2 DEF CommitCutover, tenantBounds, history, traffic
  <2>2. Unfrozen' /\ migration' \in Phase /\ cutovers' >= cutovers
    BY <2>1, Bounds DEF Unfrozen, CutoverUnfreezes, Phase, TenantTypeOK
  <2> QED BY <2>1, <2>2, OwnerKeeps DEF TenantTypeOK
<1>3. CASE CutoverFails
  <2>1. /\ cutoverFailures < MaxCutoverFailures /\ cutoverFailures' = cutoverFailures + 1 /\ cut' = "idle"
        /\ writeEnabled' = TRUE /\ frozenBy' = "nobody"
        /\ UNCHANGED <<stored, routeFile, migration, policy, override, cache, saves,
                       writePc, db, attempts, cutovers, restarts, stranded, kept>>
    BY <1>3 DEF CutoverFails, setMerchantPolicy, disk, traffic
  <2>2. cutoverFailures' \in 0..MaxCutoverFailures /\ cutovers' >= cutovers
    BY <2>1, Bounds DEF TenantTypeOK
  <2>3. Unfrozen'
    BY <2>1 DEF Unfrozen, CutoverUnfreezes
  <2> QED BY <2>1, <2>2, <2>3, OwnerKeeps DEF TenantTypeOK
<1>4. CASE CommitFails
  <2>1. /\ cut = "committing" /\ cutoverFailures < MaxCutoverFailures
        /\ cutoverFailures' = cutoverFailures + 1 /\ cut' = "idle"
        /\ UNCHANGED <<stored, routeFile, migration, policy, override, cache, saves, writeEnabled,
                       writePc, db, attempts, cutovers, restarts, frozenBy, stranded, kept>>
    BY <1>4 DEF CommitFails, disk, history, traffic
  <2>2. cutoverFailures' \in 0..MaxCutoverFailures /\ cutovers' >= cutovers
    BY <2>1, Bounds DEF TenantTypeOK
  <2>3. Unfrozen'
    BY <2>1 DEF Unfrozen, CutoverUnfreezes
  <2> QED BY <2>1, <2>2, <2>3, OwnerKeeps DEF TenantTypeOK
<1> QED BY <1>1, <1>2, <1>3, <1>4

\* The object a cutover opens starts with what the dedicated database stores.
LEMMA OpenDedicatedKeeps ==
    ASSUME MigrationInv, OpenDedicated
    PROVE  MigrationInv'
<1> USE DEF MigrationInv
<1>1. /\ cut = "opening" /\ cut' = "opened"
      /\ cache' = [cache EXCEPT ![NewObject] = stored["dedicated"]]
      /\ UNCHANGED <<disk, override, saves, writeEnabled, traffic, tenantBounds, history>>
  BY DEF OpenDedicated
<1>2. /\ UNCHANGED <<stored, cutovers, frozenBy, stranded, kept>> /\ NewObject' = NewObject
      /\ NewObject \in Dedicated /\ override # NewObject /\ stored["dedicated"] \in Slice
  <2>1. UNCHANGED <<stored, cutovers, frozenBy, stranded, kept>> /\ NewObject' = NewObject
    BY <1>1 DEF disk, tenantBounds, history, NewObject
  <2>2. cutovers \in Nat /\ cutovers <= MaxCutovers /\ cutovers > 0 /\ override \in Nat
    BY <1>1, Bounds, Places DEF TenantTypeOK
  <2>3. NewObject \in Dedicated /\ override # NewObject
    BY <1>1, <2>2, Bounds DEF Apart, NewObject, Dedicated
  <2> QED BY <2>1, <2>3, Places DEF TenantTypeOK
<1>3. cache' \in [Dedicated -> Slice] /\ cache'[NewObject] = stored["dedicated"]
      /\ \A o \in Dedicated : o # NewObject => cache'[o] = cache[o]
  BY <1>1, <1>2 DEF TenantTypeOK
<1>4. TenantTypeOK'
  BY <1>1, <1>3 DEF TenantTypeOK, disk, traffic, tenantBounds, history
<1>5. Route' = Route /\ (override # Root => cache'[override] = cache[override])
  <2>1. override # Root => cache'[override] = cache[override]
    BY <1>2, <1>3, Places DEF TenantTypeOK
  <2> QED BY <1>1, <2>1 DEF Route
<1>6. \A g \in Slice : InPlay(g)' => InPlay(g)
  BY <1>1, <1>2, <1>3, <1>5 DEF InPlay
<1>7. \A g \in Slice : Holds(g) => Holds(g)'
  BY <1>2, <1>5 DEF Holds, KeptEver
<1>8. Kept'
  BY <1>2, <1>6, <1>7 DEF Kept
<1>9. Apart' /\ Unfrozen'
  BY <1>1, <1>2 DEF Apart, Unfrozen, CutoverUnfreezes
<1> QED BY <1>4, <1>8, <1>9

\* The copy takes what the merchant is served from, so it has all that was kept; the
\* idempotency records stay those of the dedicated database.
LEMMA AttachKeeps ==
    ASSUME MigrationInv, AttachDedicated
    PROVE  MigrationInv'
<1> USE DEF MigrationInv
<1>1. /\ cut = "opened" /\ cut' = "committing"
      /\ cache' = [cache EXCEPT ![NewObject] = Copied]
      /\ saves' = [saves EXCEPT ![NewObject] = <<cache[NewObject], Copied, Copied>>]
      /\ override' = NewObject /\ writeEnabled' = TRUE /\ frozenBy' = "nobody"
      /\ UNCHANGED <<disk, traffic, tenantBounds, stranded, kept>>
  <2>1. saves' = [saves EXCEPT ![NewObject] = CopySaves]
    BY DEF AttachDedicated
  <2>2. saves' = [saves EXCEPT ![NewObject] = <<cache[NewObject], Copied, Copied>>]
    BY <2>1 DEF CopySaves
  <2>3. setMerchantPolicy(TRUE, "cutover")
    BY DEF AttachDedicated
  <2>4. writeEnabled' = TRUE /\ frozenBy' = "nobody"
    BY <2>3 DEF setMerchantPolicy
  <2> QED BY <2>2, <2>4 DEF AttachDedicated
<1>2. /\ UNCHANGED <<stored, cutovers>> /\ NewObject' = NewObject
      /\ NewObject \in Dedicated /\ NewObject # Root /\ cache[NewObject] \in Slice /\ NewObject <= cutovers + 1
  <2>1. cutovers \in Nat /\ cutovers <= MaxCutovers /\ cutovers > 0
    BY <1>1, Bounds DEF TenantTypeOK
  <2>2. NewObject \in Dedicated /\ NewObject <= cutovers + 1
    BY <2>1, Bounds DEF NewObject, Dedicated
  <2> QED BY <1>1, <2>2, Places DEF disk, tenantBounds, NewObject, TenantTypeOK
<1>3. /\ Route \in Place /\ Content(Route) \in Slice
      /\ Route # Root => override # Root /\ Content(Route) = cache[override] /\ cache[override].known
      /\ Route = Root => Content(Route) = stored["root"]
  BY Places DEF Route, Content, TenantTypeOK
<1>4. PICK copy : copy = Copied
  OBVIOUS
<1>5. /\ copy \in Slice /\ copy.known = Content(Route).known
      /\ copy.rows = Content(Route).rows /\ copy.keys = cache[NewObject].keys
  BY <1>2, <1>3, <1>4 DEF Copied, Source, Slice
<1>6. cache' = [cache EXCEPT ![NewObject] = copy] /\ saves' = [saves EXCEPT ![NewObject] = <<cache[NewObject], copy, copy>>]
  BY <1>1, <1>4
<1>7. TenantTypeOK'
  <2>1. cache' \in [Dedicated -> Slice]
    BY <1>5, <1>6 DEF TenantTypeOK
  <2>2. <<cache[NewObject], copy, copy>> \in Seq(Slice)
    BY <1>2, <1>5
  <2>3. saves' \in [Dedicated -> Seq(Slice)]
    BY <1>6, <2>2 DEF TenantTypeOK
  <2>4. override' \in Place
    BY <1>1, <1>2, Places
  <2> QED BY <1>1, <2>1, <2>3, <2>4 DEF TenantTypeOK, disk, traffic, tenantBounds
<1>8. copy.known /\ cache'[NewObject] = copy /\ Route' = NewObject /\ Route' # Root
  <2>1. copy.known
    BY <1>3, <1>5 DEF Kept
  <2>2. cache'[NewObject] = copy
    BY <1>2, <1>6 DEF TenantTypeOK
  <2> QED BY <1>1, <1>2, <2>1, <2>2 DEF Route
<1>9. \A g \in Slice : Holds(g) => Holds(g)'
  BY <1>1, <1>8 DEF Holds, KeptEver
<1>10. Holds(copy)'
  <2>1. Holds(cache[NewObject])
    <3>1. InPlay(cache[NewObject])
      BY <1>1 DEF InPlay
    <3> QED BY <1>2, <3>1 DEF Kept
  <2>2. kept["dedicated"] \subseteq copy.keys
    BY <1>5, <2>1 DEF Holds
  <2>3. ~stranded => KeptEver \subseteq copy.rows
    <3> SUFFICES ASSUME ~stranded PROVE KeptEver \subseteq copy.rows
      OBVIOUS
    <3>1. CASE Route = Root
      <4>1. kept["dedicated"] = {}
        BY <2>1, <3>1 DEF Holds
      <4>2. kept["root"] \subseteq stored["root"].rows
        BY DEF Kept
      <4> QED BY <1>3, <1>5, <3>1, <4>1, <4>2 DEF KeptEver
    <3>2. CASE Route # Root
      <4>1. override # Root /\ cache[override] \in Slice /\ cache[override].known
        BY <1>3, <3>2
      <4>2. Holds(cache[override])
        BY <4>1 DEF Kept, InPlay
      <4> QED BY <1>3, <1>5, <3>2, <4>1, <4>2 DEF Holds
    <3> QED BY <3>1, <3>2
  <2> QED BY <1>1, <1>8, <2>2, <2>3 DEF Holds, KeptEver
<1>11. \A g \in Slice : InPlay(g)' => InPlay(g) \/ g = copy
  <2> SUFFICES ASSUME NEW g \in Slice, NEW o \in Dedicated, NEW i \in 1..Len(saves'[o]), g = saves'[o][i]
               PROVE  InPlay(g) \/ g = copy
    BY <1>1, <1>2, <1>8 DEF InPlay
  <2>1. CASE o # NewObject
    <3>1. saves'[o] = saves[o]
      BY <1>6, <2>1 DEF TenantTypeOK
    <3> QED BY <3>1 DEF InPlay
  <2>2. CASE o = NewObject
    <3>1. saves'[o] = <<cache[NewObject], copy, copy>>
      BY <1>6, <2>2 DEF TenantTypeOK
    <3>2. g = cache[NewObject] \/ g = copy
      BY <3>1
    <3> QED BY <1>1, <3>2 DEF InPlay
  <2> QED BY <2>1, <2>2
<1>12. Kept'
  <2>1. \A g \in Slice : InPlay(g)' => Holds(g)'
    BY <1>9, <1>10, <1>11 DEF Kept
  <2> QED BY <1>1, <1>2, <2>1 DEF Kept
<1>13. Apart' /\ Unfrozen'
  BY <1>1, <1>2 DEF Apart, Unfrozen, CutoverUnfreezes
<1> QED BY <1>7, <1>12, <1>13

\* A restart opens what the dedicated database stores, if the shared one names it.
LEMMA RestartKeeps ==
    ASSUME MigrationInv, Restart
    PROVE  MigrationInv'
<1> USE DEF MigrationInv
<1>1. /\ restarts < MaxRestarts /\ restarts' = restarts + 1
      /\ override' = IF routeFile THEN Startup ELSE Root
      /\ cache' = [o \in Dedicated |-> IF o = override' THEN stored["dedicated"] ELSE NoSlice]
      /\ saves' = [o \in Dedicated |-> IF o = override' THEN <<stored["dedicated"]>> ELSE <<>>]
      /\ writeEnabled' = policy
      /\ frozenBy' = IF policy THEN "nobody" ELSE "owner"
      /\ cut' = "idle"
      /\ writePc' = [w \in Write |-> IF writePc[w] = "resolved" THEN "lost" ELSE writePc[w]]
      /\ stranded' = (stranded \/ (override # Root /\ ~routeFile))
      /\ UNCHANGED <<stored, routeFile, migration, policy, db, attempts, cutovers, cutoverFailures, kept>>
  BY DEF Restart, disk
<1>2. stored["dedicated"] \in Slice /\ override' \in Place /\ (override' # Root => routeFile /\ override' = Startup)
  BY <1>1, Places DEF TenantTypeOK
<1>3. TenantTypeOK'
  <2>1. cache' \in [Dedicated -> Slice]
    BY <1>1, <1>2, Slices
  <2>2. <<stored["dedicated"]>> \in Seq(Slice) /\ <<>> \in Seq(Slice)
    BY <1>2
  <2>3. saves' \in [Dedicated -> Seq(Slice)]
    BY <1>1, <2>2
  <2>4. /\ writePc' \in [Write -> {"new", "resolved", "done", "refused", "lost"}]
        /\ restarts' \in 0..MaxRestarts
    BY <1>1, Bounds DEF TenantTypeOK
  <2>5. stranded' \in BOOLEAN /\ frozenBy' \in {"nobody", "owner", "cutover"} /\ writeEnabled' \in BOOLEAN
    BY <1>1 DEF TenantTypeOK
  <2> QED BY <1>1, <1>2, <2>1, <2>3, <2>4, <2>5 DEF TenantTypeOK
<1>4. \A g \in Slice : InPlay(g)' => g = stored["dedicated"]
  <2> SUFFICES ASSUME NEW g \in Slice, InPlay(g)' PROVE g = stored["dedicated"]
    OBVIOUS
  <2>1. CASE \E o \in Dedicated : \E i \in 1..Len(saves'[o]) : g = saves'[o][i]
    <3>1. PICK o \in Dedicated : \E i \in 1..Len(saves'[o]) : g = saves'[o][i]
      BY <2>1
    <3>2. PICK i \in 1..Len(saves'[o]) : g = saves'[o][i]
      BY <3>1
    <3>3. saves'[o] = <<stored["dedicated"]>> \/ saves'[o] = <<>>
      BY <1>1
    <3> QED BY <3>2, <3>3
  <2>2. CASE override' # Root /\ g = cache'[override']
    BY <1>1, <1>2, <2>2, Places
  <2> QED BY <1>1, <2>1, <2>2 DEF InPlay
<1>5. Holds(stored["dedicated"])
  <2>1. InPlay(stored["dedicated"])
    BY DEF InPlay
  <2> QED BY <1>2, <2>1 DEF Kept
<1>6. PICK g \in Slice : g = stored["dedicated"]
  BY <1>2
<1>7. Holds(g)'
  <2>1. ~stranded' /\ Route' = Root => ~g.known
    <3> SUFFICES ASSUME ~stranded', Route' = Root PROVE ~g.known
      OBVIOUS
    <3>1. CASE routeFile
      <4>1. override' = Startup /\ cache'[Startup] = g /\ Startup # Root
        BY <1>1, <1>6, <3>1, Places
      <4> QED BY <4>1 DEF Route
    <3>2. CASE ~routeFile
      <4>1. ~stranded /\ Route = Root
        BY <1>1, <3>2 DEF Route
      <4> QED BY <1>5, <1>6, <4>1 DEF Holds
    <3> QED BY <3>1, <3>2 DEF TenantTypeOK
  <2> QED BY <1>1, <1>5, <1>6, <2>1 DEF Holds, KeptEver
<1>8. Kept'
  <2>1. \A h \in Slice : InPlay(h)' => Holds(h)'
    BY <1>4, <1>6, <1>7
  <2> QED BY <1>1, <2>1 DEF Kept
<1>9. Apart' /\ Unfrozen'
  <2>1. cutovers' \in Nat
    BY <1>1, Bounds DEF TenantTypeOK
  <2> QED BY <1>1, <2>1 DEF Apart, Unfrozen, CutoverUnfreezes, Root, Startup
<1> QED BY <1>3, <1>8, <1>9

\* Every step keeps the invariant.
LEMMA MigrationSteps ==
    ASSUME MigrationInv, [TenantNext]_tenantVars
    PROVE  MigrationInv'
<1>1. ASSUME NEW w \in Write, Arrive(w) \/ Execute(w) \/ NotFound(w) \/ Resend(w)
      PROVE  MigrationInv'
  BY <1>1, ArriveKeeps, ExecuteKeeps, OtherRequestKeeps
<1>2. ASSUME NEW step \in MIGRATION_STEPS, NEW commits \in BOOLEAN, MigrationStep(step, commits)
      PROVE  MigrationInv'
  BY <1>2, MigrationStepKeeps
<1>3. ASSUME NEW o \in Dedicated, NEW fails \in BOOLEAN, Save(o, fails)
      PROVE  MigrationInv'
  BY <1>3, SaveKeeps
<1>4. CASE BeginCutover \/ CommitCutover \/ CutoverFails \/ CommitFails
  BY <1>4, CutoverStepKeeps
<1>5. CASE SaveCache \/ OpenDedicated \/ AttachDedicated \/ Restart
  BY <1>5, SaveCacheKeeps, OpenDedicatedKeeps, AttachKeeps, RestartKeeps
<1>6. CASE UNCHANGED tenantVars
  <2>1. UNCHANGED <<disk, memory, traffic, tenantBounds, history>>
    BY <1>6 DEF tenantVars
  <2>2. TenantTypeOK'
    BY <2>1 DEF MigrationInv, TenantTypeOK, disk, memory, traffic, tenantBounds, history
  <2>3. Kept'
    BY <2>1, SlicesKeep DEF MigrationInv, disk, memory, tenantBounds, history
  <2>4. Apart' /\ Unfrozen'
    BY <2>1 DEF MigrationInv, Apart, Unfrozen, CutoverUnfreezes, memory, tenantBounds, history
  <2> QED BY <2>2, <2>3, <2>4 DEF MigrationInv
<1> QED BY <1>1, <1>2, <1>3, <1>4, <1>5, <1>6 DEF TenantNext

\* What a reader asks of the migration follows.
LEMMA MigrationInvGives ==
    ASSUME MigrationInv
    PROVE  MigrationInvariant
<1> USE DEF MigrationInv
<1>1. Holds(stored["dedicated"])
  <2>1. InPlay(stored["dedicated"]) /\ stored["dedicated"] \in Slice
    BY Places DEF InPlay, TenantTypeOK
  <2> QED BY <2>1 DEF Kept
<1>2. AnsweredIsServed
  <2> SUFFICES ASSUME ~stranded, stored[Name(Route)].known
               PROVE  KeptEver \subseteq stored[Name(Route)].rows
    BY DEF AnsweredIsServed, KeptEver
  <2>1. CASE Route = Root
    <3>1. kept["dedicated"] = {} /\ Name(Route) = "root"
      BY <1>1, <2>1 DEF Holds, Name
    <3> QED BY <3>1 DEF Kept, KeptEver
  <2>2. CASE Route # Root
    <3>1. Name(Route) = "dedicated"
      BY <2>2 DEF Name
    <3> QED BY <1>1, <3>1 DEF Holds
  <2> QED BY <2>1, <2>2
<1>3. OncePerDatabase
  BY <1>1 DEF OncePerDatabase, Db, Holds, Kept
<1> QED BY <1>2, <1>3 DEF MigrationInvariant, Unfrozen

\* What a merchant was answered and nothing disturbed is served from then on, whatever
\* cutovers, queued saves, failures and restarts come between; no cutover leaves the merchant
\* read-only; and the key of such a write is executed once in each database: for any writes,
\* requests, cutovers and restarts.
THEOREM MigrationInvariantHolds == TenantSpec => []MigrationInvariant
<1>1. TenantInit => MigrationInv
  BY MigrationStarts
<1>2. MigrationInv /\ [TenantNext]_tenantVars => MigrationInv'
  BY MigrationSteps
<1>3. MigrationInv => MigrationInvariant
  BY MigrationInvGives
<1> QED BY <1>1, <1>2, <1>3, PTL DEF TenantSpec

-----------------------------------------------------------------------------
(***************************************************************************)
(* Part 3: the quota.                                                      *)
(*                                                                         *)
(* The bound counts calls in a stretch of time; the induction counts       *)
(* places in the history instead.  The calls the current window counts are *)
(* the last ones admitted and the first of them was admitted as the window *)
(* opened (InWindow), so whatever lies a full limit of places before that  *)
(* call is of a window that had ended (Opened), and two calls twice the    *)
(* limit of places apart are at least a window of time apart (Spread).     *)
(***************************************************************************)
Admitted == 1..Len(admitted)

\* The place of the call that opened the current window.
Opening == Len(admitted) - counter.count + 1

\* The types of the quota, in the form the steps need.
Typed ==
    /\ clock \in 0..MaxClock /\ limit \in Limits
    /\ writeAllowed \in BOOLEAN
    /\ counter \in [windowStartMs : Int, count : Nat]
    /\ counter.windowStartMs <= clock /\ counter.count <= calls
    /\ calls \in 0..MaxCalls
    /\ admitted \in Seq(0..MaxClock) /\ Len(admitted) <= calls

\* The history is in the order of time.
InOrder ==
    \A i \in Admitted :
        /\ admitted[i] <= clock
        /\ \A j \in Admitted : i <= j => admitted[i] <= admitted[j]

InWindow ==
    /\ counter.count <= MaxLimit /\ counter.count <= Len(admitted)
    /\ counter.count = 0 => Len(admitted) = 0 /\ counter.windowStartMs = -windowMs
    /\ counter.count > 0 => admitted[Opening] = counter.windowStartMs

Opened ==
    \A i \in Admitted : i + MaxLimit <= Opening => admitted[i] + windowMs <= counter.windowStartMs

Spread ==
    \A i, j \in Admitted : j = i + 2 * MaxLimit - 1 => admitted[i] + windowMs <= admitted[j]

\* The condition under which evaluate() counts a call.
Admits == writeAllowed /\ limit # 0 /\ Current.count < limit

QuotaInv == Typed /\ InOrder /\ InWindow /\ Opened /\ Spread

\* MaxLimit is a limit, the largest, and some limit is above none.
LEMMA LargestLimit ==
    MaxLimit \in Nat /\ MaxLimit >= 1 /\ \A l \in Limits : l \in Nat /\ l <= MaxLimit
<1>1. MaxLimit \in Limits /\ \A m \in Limits : m <= MaxLimit
  BY QuotaAssumption DEF MaxLimit
<1>2. PICK l \in Limits : l # 0
  BY QuotaAssumption
<1> QED BY <1>1, <1>2, QuotaAssumption

\* An entry of the history is a time.
LEMMA EntriesAreTimes ==
    ASSUME Typed
    PROVE  \A i \in Admitted : admitted[i] \in Nat
<1> DEFINE Times == 0..MaxClock
<1>1. admitted \in Seq(Times) /\ Times \subseteq Nat
  BY QuotaAssumption DEF Typed
<1> HIDE DEF Times
<1>2. \A i \in 1..Len(admitted) : admitted[i] \in Times
  BY <1>1, ElementOfSeq
<1> QED BY <1>1, <1>2 DEF Admitted

\* Before the first call nothing is admitted and every part holds.
LEMMA QuotaStarts ==
    ASSUME QuotaInit
    PROVE  QuotaInv
<1> USE DEF QuotaInit, NoCounter
<1>1. Typed
  BY QuotaAssumption DEF Typed
<1>2. Len(admitted) = 0 /\ Admitted = {}
  BY DEF Admitted
<1> QED BY <1>1, <1>2, LargestLimit DEF QuotaInv, InOrder, InWindow, Opened, Spread

\* A call the quota admits is the last of the history; the window it is counted in is the
\* current one or, once that is over, one that opens with it.
LEMMA AdmitKeeps ==
    ASSUME QuotaInv, Evaluate, Admits
    PROVE  QuotaInv'
<1> DEFINE n == Len(admitted)
           c == counter.count
           ws == counter.windowStartMs
<1>q. Typed /\ InOrder /\ InWindow /\ Opened /\ Spread
  BY DEF QuotaInv
<1>e. /\ calls < MaxCalls /\ calls' = calls + 1
      /\ Current.count < limit
      /\ counter' = [Current EXCEPT !.count = @ + 1]
      /\ admitted' = Append(admitted, clock)
      /\ clock' = clock /\ limit' = limit /\ writeAllowed' = writeAllowed
  BY DEF Evaluate, Admits
<1>0. /\ MaxLimit \in Nat /\ MaxLimit >= 1 /\ limit \in Nat /\ limit <= MaxLimit
      /\ windowMs \in Nat /\ windowMs >= 1 /\ MaxClock \in Nat /\ MaxCalls \in Nat
      /\ clock \in Nat /\ clock <= MaxClock /\ n \in Nat /\ c \in Nat /\ ws \in Int
      /\ c <= n /\ ws <= clock /\ n <= calls /\ c <= calls /\ calls \in Nat
  BY LargestLimit, <1>q, QuotaAssumption DEF Typed, InWindow
<1>1. /\ Len(admitted') = n + 1 /\ admitted' \in Seq(0..MaxClock)
      /\ admitted'[n + 1] = clock
      /\ \A i \in Admitted : admitted'[i] = admitted[i]
      /\ \A i \in Admitted : admitted[i] \in Nat
      /\ Admitted = 1..n /\ Admitted' = 1..(n + 1)
  BY <1>0, <1>q, <1>e DEF Typed, Admitted
<1>m. Len(admitted') = n + 1
  BY <1>1
<1>l. Admitted = 1..n /\ Admitted' = 1..(n + 1)
  BY <1>1
<1>o. \A i \in 1..n : admitted'[i] = admitted[i] /\ admitted[i] \in Nat
  BY <1>1
<1>n. admitted'[n + 1] = clock
  BY <1>1
<1>2. /\ counter' \in [windowStartMs : Int, count : Nat]
      /\ \/ /\ clock >= ws + windowMs /\ counter'.windowStartMs = clock /\ counter'.count = 1
         \/ /\ clock < ws + windowMs /\ counter'.windowStartMs = ws /\ counter'.count = c + 1
            /\ c + 1 <= MaxLimit /\ c > 0
  <2>0. counter \in [windowStartMs : Int, count : Nat]
    BY <1>q DEF Typed
  <2>1. CASE WindowOver(counter)
    <3>1. Current = [windowStartMs |-> clock, count |-> 0]
      BY <2>1 DEF Current
    <3>2. counter' = [windowStartMs |-> clock, count |-> 1]
      BY <3>1, <1>e
    <3> QED BY <2>1, <3>2, <1>0 DEF WindowOver
  <2>2. CASE ~WindowOver(counter)
    <3>1. Current = counter /\ clock < ws + windowMs
      BY <2>2, <1>0 DEF Current, WindowOver
    <3>2. counter' = [counter EXCEPT !.count = c + 1]
      BY <3>1, <1>e
    <3>3. c + 1 <= MaxLimit
      BY <3>1, <1>e, <1>0
    <3>4. c > 0
      BY <3>1, <1>q, <1>0 DEF InWindow
    <3>5. counter'.windowStartMs = ws /\ counter'.count = c + 1
          /\ counter' \in [windowStartMs : Int, count : Nat]
      BY <3>2, <2>0, <1>0
    <3> QED BY <3>1, <3>3, <3>4, <3>5
  <2> QED BY <2>1, <2>2
<1>3. /\ counter'.count \in Nat /\ counter'.windowStartMs \in Int
      /\ counter'.windowStartMs <= clock /\ ws <= clock /\ c <= calls
      /\ counter'.count <= c + 1 /\ counter'.count <= MaxLimit
  BY <1>0, <1>2
<1>4. Typed'
  BY <1>0, <1>1, <1>2, <1>3, <1>e, <1>q DEF Typed
<1>5. InOrder'
  BY <1>0, <1>1, <1>e, <1>q DEF InOrder
<1>6. /\ Opening' = n + 2 - counter'.count /\ Opening = n - c + 1
  BY <1>0, <1>m, <1>3 DEF Opening
<1>7. InWindow'
  <2>1. CASE counter'.count = 1 /\ counter'.windowStartMs = clock
    <3>1. Opening' = n + 1 /\ 1 <= MaxLimit /\ 1 <= n + 1
      BY <2>1, <1>0, <1>6
    <3> QED BY <2>1, <3>1, <1>m, <1>n DEF InWindow
  <2>2. CASE counter'.count = c + 1 /\ counter'.windowStartMs = ws /\ c > 0 /\ c + 1 <= MaxLimit
    <3>1. Opening' = Opening /\ Opening \in Admitted
      BY <2>2, <1>0, <1>l, <1>6
    <3>2. admitted[Opening] = ws
      BY <2>2, <1>q DEF InWindow
    <3>3. admitted'[Opening'] = ws
      BY <3>1, <3>2, <1>o, <1>l
    <3>4. c + 1 <= n + 1 /\ c + 1 # 0
      BY <2>2, <1>0
    <3> QED BY <2>2, <3>3, <3>4, <1>m DEF InWindow
  <2> QED BY <1>2, <2>1, <2>2
<1>8. \A i \in Admitted : i + MaxLimit <= n + 1 => admitted[i] <= ws
  <2> SUFFICES ASSUME NEW i \in Admitted, i + MaxLimit <= n + 1
               PROVE  admitted[i] <= ws
    OBVIOUS
  <2>0. n >= 1 /\ i \in 1..n
    BY <1>0, <1>l
  <2>1. c > 0 /\ admitted[Opening] = ws
    BY <2>0, <1>0, <1>q DEF InWindow
  <2>2. Opening \in 1..n /\ i <= Opening
    <3>1. Opening = n - c + 1 /\ c <= MaxLimit
      BY <1>6, <1>q DEF InWindow
    <3> QED BY <2>0, <2>1, <3>1, <1>0
  <2> QED BY <2>1, <2>2, <1>l, <1>q DEF InOrder
<1>9. Opened'
  <2> SUFFICES ASSUME NEW i \in Admitted', i + MaxLimit <= Opening'
               PROVE  admitted'[i] + windowMs <= counter'.windowStartMs
    BY <1>0 DEF Opened
  <2>1. i \in 1..n /\ admitted'[i] = admitted[i] /\ admitted[i] \in Nat
    <3>1. i \in 1..(n + 1)
      BY <1>l
    <3>2. counter'.count >= 1
      BY <1>0, <1>2
    <3>3. i + MaxLimit <= n + 2 - counter'.count
      BY <1>6
    <3>4. i \in 1..n
      BY <3>1, <3>2, <3>3, <1>0, <1>3
    <3> QED BY <3>4, <1>o
  <2>2. CASE clock >= ws + windowMs /\ counter'.windowStartMs = clock /\ counter'.count = 1
    <3>1. admitted[i] <= ws
      BY <2>1, <2>2, <1>0, <1>l, <1>6, <1>8
    <3> QED BY <2>1, <2>2, <3>1, <1>0
  <2>3. CASE counter'.windowStartMs = ws /\ counter'.count = c + 1
    <3>1. i + MaxLimit <= Opening
      BY <2>1, <2>3, <1>0, <1>6
    <3> QED BY <2>1, <2>3, <3>1, <1>l, <1>q DEF Opened
  <2> QED BY <1>2, <2>2, <2>3
<1>10. Spread'
  <2> SUFFICES ASSUME NEW i \in Admitted', NEW j \in Admitted', j = i + 2 * MaxLimit - 1
               PROVE  admitted'[i] + windowMs <= admitted'[j]
    BY <1>0 DEF Spread
  <2>1. CASE j \in Admitted
    <3>1. i \in Admitted
      BY <2>1, <1>0, <1>l
    <3>2. admitted[i] + windowMs <= admitted[j]
      BY <2>1, <3>1, <1>q DEF Spread
    <3> QED BY <2>1, <3>1, <3>2, <1>l, <1>o
  <2>2. CASE j = n + 1
    <3>1. i \in 1..(n + 1) /\ i = n + 2 - 2 * MaxLimit
      BY <2>2, <1>0, <1>l
    <3>2. i \in 1..n /\ admitted'[i] = admitted[i] /\ admitted[i] \in Nat
      <4>1. i \in 1..n
        BY <3>1, <1>0
      <4> QED BY <4>1, <1>o
    <3>3. CASE clock >= ws + windowMs
      <4>1. i + MaxLimit <= n + 1
        BY <3>1, <1>0
      <4>2. admitted[i] <= ws
        BY <3>2, <4>1, <1>l, <1>8
      <4> QED BY <2>2, <3>2, <3>3, <4>2, <1>0, <1>n
    <3>4. CASE c + 1 <= MaxLimit /\ c > 0
      <4>1. i + MaxLimit <= Opening
        BY <3>1, <3>4, <1>0, <1>6
      <4>2. admitted[i] + windowMs <= ws
        BY <3>2, <4>1, <1>l, <1>q DEF Opened
      <4> QED BY <2>2, <3>2, <4>2, <1>0, <1>n
    <3> QED BY <1>2, <3>3, <3>4
  <2> QED BY <2>1, <2>2, <1>0, <1>l
<1> QED BY <1>4, <1>5, <1>7, <1>9, <1>10 DEF QuotaInv

\* Every other step leaves the history and the counter alone, or only counts the call.
LEMMA QuotaSteps ==
    ASSUME QuotaInv, [QuotaNext]_quotaVars
    PROVE  QuotaInv'
<1> USE DEF QuotaInv
<1>1. CASE Evaluate /\ Admits
  BY <1>1, AdmitKeeps
<1>2. ASSUME UNCHANGED <<counter, admitted>>, calls' \in calls..MaxCalls,
             clock' \in clock..MaxClock, limit' \in Limits, writeAllowed' \in BOOLEAN
      PROVE  QuotaInv'
  <2>0. MaxClock \in Nat /\ MaxCalls \in Nat
    BY QuotaAssumption
  <2>1. Typed'
    BY <1>2, <2>0 DEF Typed
  <2>2. InOrder'
    <3>1. \A i \in Admitted : admitted[i] \in Nat
      BY EntriesAreTimes
    <3>2. clock \in Nat /\ clock' \in Nat /\ clock <= clock'
      BY <1>2, <2>0 DEF Typed
    <3>3. Admitted' = Admitted /\ admitted' = admitted
      BY <1>2 DEF Admitted
    <3>4. \A i \in Admitted : admitted[i] <= clock'
      BY <3>1, <3>2 DEF InOrder
    <3> QED BY <3>3, <3>4 DEF InOrder
  <2> QED BY <1>2, <2>1, <2>2 DEF InWindow, Opened, Spread, Admitted, Opening
<1>3. CASE Evaluate /\ ~Admits
  BY <1>2, <1>3, QuotaAssumption DEF Evaluate, Admits, Typed
<1>4. CASE Tick
  BY <1>2, <1>4, QuotaAssumption DEF Tick, Typed
<1>5. ASSUME NEW l \in Limits, NEW enabled \in BOOLEAN, SetMerchantPolicy(l, enabled)
      PROVE  QuotaInv'
  BY <1>2, <1>5, QuotaAssumption DEF SetMerchantPolicy, Typed
<1>6. CASE UNCHANGED quotaVars
  BY <1>2, <1>6, QuotaAssumption DEF quotaVars, Typed
<1> QED BY <1>1, <1>3, <1>4, <1>5, <1>6 DEF QuotaNext

\* Of the calls of a stretch, take the first: the others follow it within less than twice
\* the limit of places, or Spread would put them a window after it.
LEMMA QuotaInvGives ==
    ASSUME QuotaInv
    PROVE  QuotaInvariant
<1> USE DEF QuotaInv
<1>0. MaxLimit \in Nat /\ MaxLimit >= 1 /\ windowMs \in Nat
  BY LargestLimit, QuotaAssumption
<1>1. QuotaTypeOK
  BY QuotaAssumption DEF QuotaTypeOK, Typed
<1>2. ASSUME NEW t \in 0..clock
      PROVE  AdmittedBetween(t, t + windowMs) <= 2 * MaxLimit - 1
  <2> DEFINE S == {i \in 1..Len(admitted) : t <= admitted[i] /\ admitted[i] < t + windowMs}
  <2>1. SUFFICES Cardinality(S) <= 2 * MaxLimit - 1
    BY DEF AdmittedBetween
  <2>2. CASE S = {}
    BY <2>2, <1>0, FS_EmptySet
  <2>3. CASE S # {}
    <3>1. PICK f \in S : \A i \in S : f <= i
      <4>1. S \subseteq Nat
        OBVIOUS
      <4> HIDE DEF S
      <4>2. \E f \in S : \A i \in S : ~(<<i, f>> \in OpToRel(<, Nat))
        BY <4>1, <2>3, NatLessThanWellFounded, WFMin
      <4>3. PICK f \in S : \A i \in S : ~(<<i, f>> \in OpToRel(<, Nat))
        BY <4>2
      <4>4. \A i \in S : ~(i < f)
        BY <4>1, <4>3 DEF OpToRel
      <4> QED BY <4>1, <4>4
    <3>2. S \subseteq f..(f + 2 * MaxLimit - 2)
      <4> SUFFICES ASSUME NEW i \in S, i >= f + 2 * MaxLimit - 1
                   PROVE  FALSE
        BY <3>1, <1>0
      <4> DEFINE j == f + 2 * MaxLimit - 1
      <4>1. f \in Admitted /\ i \in Admitted /\ j \in Admitted /\ j <= i
        BY <1>0, <3>1 DEF Admitted, Typed
      <4>2. admitted[f] + windowMs <= admitted[j] /\ admitted[j] <= admitted[i]
        BY <4>1 DEF Spread, InOrder
      <4>3. admitted[f] \in Nat /\ admitted[j] \in Nat /\ admitted[i] \in Nat
        BY <4>1, EntriesAreTimes
      <4> HIDE DEF j
      <4> QED BY <4>2, <4>3, <3>1, <1>0
    <3>3. /\ IsFiniteSet(f..(f + 2 * MaxLimit - 2))
          /\ Cardinality(f..(f + 2 * MaxLimit - 2)) = 2 * MaxLimit - 1
      <4>1. f \in Int /\ f + 2 * MaxLimit - 2 \in Int
        BY <3>1, <1>0
      <4> DEFINE last == f + 2 * MaxLimit - 2
      <4>2. last - f + 1 = 2 * MaxLimit - 1 /\ f <= last
        BY <3>1, <1>0
      <4>3. last \in Int
        BY <4>1
      <4> HIDE DEF last
      <4>4. IsFiniteSet(f..last) /\ Cardinality(f..last) = IF f > last THEN 0 ELSE last - f + 1
        BY <4>1, <4>3, FS_Interval
      <4>5. IsFiniteSet(f..last) /\ Cardinality(f..last) = 2 * MaxLimit - 1
        BY <4>1, <4>2, <4>3, <4>4
      <4> QED BY <4>5 DEF last
    <3>4. Cardinality(S) <= Cardinality(f..(f + 2 * MaxLimit - 2))
      BY <3>2, <3>3, FS_Subset
    <3> QED BY <3>3, <3>4
  <2> QED BY <2>2, <2>3
<1> QED BY <1>1, <1>2 DEF QuotaInvariant, BurstBound

\* The quota's types and its burst bound: any windowMs milliseconds see fewer than twice the
\* largest limit of admitted calls, whatever the owner sets the limit to and whenever; for
\* any limits, window and number of calls.
THEOREM QuotaInvariantHolds == QuotaSpec => []QuotaInvariant
<1>1. QuotaInit => QuotaInv
  BY QuotaStarts
<1>2. QuotaInv /\ [QuotaNext]_quotaVars => QuotaInv'
  BY QuotaSteps
<1>3. QuotaInv => QuotaInvariant
  BY QuotaInvGives
<1> QED BY <1>1, <1>2, <1>3, PTL DEF QuotaSpec
=============================================================================
