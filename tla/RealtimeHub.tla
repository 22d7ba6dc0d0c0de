---------------------------- MODULE RealtimeHub ----------------------------
(***************************************************************************)
(* The dispatcher of decision events (wsDispatcher.ts) and the sockets it  *)
(* broadcasts to: one queue per merchant, a sequence number and a memory   *)
(* of message identifiers kept in the database, whose write the dispatcher *)
(* does not wait for.                                                      *)
(***************************************************************************)
EXTENDS Integers, Sequences, FiniteSets

CONSTANTS Merchants, Messages,   \* Messages: the decision identifiers in use
          Clients, Merchant,     \* Merchant[c]: the merchant of the token of client c
          MaxDispatches, MaxCrashes, MaxConnects

\* What the values of the constants satisfy.
ASSUME HubAssumption == /\ Merchant \in [Clients -> Merchants]
                        /\ {MaxDispatches, MaxCrashes, MaxConnects} \subseteq Nat

VARIABLES
    queue,       \* queue[m]: dispatches waiting for the runner of m
    sequence,    \* sequenceByMerchant, in memory
    dedupe,      \* identifiers dispatched, in memory
    stored,      \* the sequence and dedupe the database holds
    client,      \* client[c].open; .got: numbers received on this connection
    sent,        \* ghost: what this process broadcast for each merchant
    dispatches, crashes, connects  \* bounds
hvars == <<queue, sequence, dedupe, stored, client, sent, dispatches, crashes, connects>>

HubInit ==
    /\ queue = [m \in Merchants |-> <<>>] /\ sequence = [m \in Merchants |-> 0]
    /\ dedupe = {} /\ stored = [sequence |-> sequence, dedupe |-> {}]
    /\ client = [c \in Clients |-> [open |-> FALSE, got |-> <<>>]]
    /\ sent = [m \in Merchants |-> <<>>]
    /\ dispatches = 0 /\ crashes = 0 /\ connects = 0

(* A decision was run for m: its event joins the queue of m.               *)
enqueue(m, id) ==
    /\ dispatches < MaxDispatches /\ dispatches' = dispatches + 1
    /\ queue' = [queue EXCEPT ![m] = Append(@, id)]
    /\ UNCHANGED <<sequence, dedupe, stored, client, sent, crashes, connects>>

broadcastMutant(m, number) ==
    client' = [c \in Clients |-> IF client[c].open THEN [client[c] EXCEPT !.got = Append(@, number)]
                                 ELSE client[c]]
broadcast(m, number) ==
    client' = [c \in Clients |-> IF client[c].open /\ Merchant[c] = m
                                 THEN [client[c] EXCEPT !.got = Append(@, number)]
                                 ELSE client[c]]

KnownMutant(m, id) == <<m, id>> \in stored.dedupe
Known(m, id) == <<m, id>> \in dedupe

(* The runner of m takes the head of its queue; an identifier it knows is  *)
(* answered as a duplicate.                                                *)
dispatch(m) ==
    /\ queue[m] /= <<>>
    /\ queue' = [queue EXCEPT ![m] = Tail(@)]
    /\ LET id == Head(queue[m])
           number == sequence[m] + 1
       IN  IF Known(m, id)
           THEN UNCHANGED <<sequence, dedupe, client, sent>>
           ELSE /\ sequence' = [sequence EXCEPT ![m] = number]
                /\ dedupe' = dedupe \cup {<<m, id>>}
                /\ broadcast(m, number)
                /\ sent' = [sent EXCEPT ![m] = Append(@, id)]
    /\ UNCHANGED <<stored, dispatches, crashes, connects>>

(* The save a dispatch queued reaches the database.                        *)
Flush == /\ stored' = [sequence |-> sequence, dedupe |-> dedupe]
         /\ UNCHANGED <<queue, sequence, dedupe, client, sent, dispatches, crashes, connects>>

Connect(c) ==
    /\ ~client[c].open /\ connects < MaxConnects /\ connects' = connects + 1
    /\ client' = [client EXCEPT ![c] = [open |-> TRUE, got |-> <<>>]]
    /\ UNCHANGED <<queue, sequence, dedupe, stored, sent, dispatches, crashes>>

closeAll == client' = [c \in Clients |-> [open |-> FALSE, got |-> <<>>]]

(* The process ends, its sockets close and the next one reads the database.*)
Restart ==
    /\ crashes < MaxCrashes /\ crashes' = crashes + 1
    /\ sequence' = stored.sequence /\ dedupe' = stored.dedupe
    /\ queue' = [m \in Merchants |-> <<>>] /\ sent' = [m \in Merchants |-> <<>>]
    /\ closeAll
    /\ UNCHANGED <<stored, dispatches, connects>>

HubNext == \/ \E m \in Merchants, id \in Messages : enqueue(m, id)
           \/ \E m \in Merchants : dispatch(m)
           \/ Flush
           \/ \E c \in Clients : Connect(c)
           \/ Restart

HubSpec == HubInit /\ [][HubNext]_hvars

-----------------------------------------------------------------------------
(* Sequence numbers, memories and connections have their types.            *)
HubTypeOK ==
    /\ \A m \in Merchants : sequence[m] \in 0..MaxDispatches /\ stored.sequence[m] \in 0..sequence[m]
    /\ stored.dedupe \subseteq dedupe /\ dedupe \subseteq Merchants \X Messages

(* A connection sees the events of its own merchant, each number one more  *)
(* than the one before, the last being the merchant's number.              *)
ConnectionSeesEveryNumber ==
    \A c \in Clients : client[c].got /= <<>> =>
        /\ client[c].open
        /\ \A i \in 1..Len(client[c].got) - 1 : client[c].got[i + 1] = client[c].got[i] + 1
        /\ client[c].got[Len(client[c].got)] = sequence[Merchant[c]]

(* A decision is broadcast once by one process, and the number of a        *)
(* merchant is that of the decisions remembered, so that a restart gives a *)
(* number again only to a decision the database had not stored.            *)
DispatchedOnce ==
    \A m \in Merchants :
        /\ \A i, j \in DOMAIN sent[m] : sent[m][i] = sent[m][j] => i = j
        /\ sequence[m] = Cardinality({id \in Messages : <<m, id>> \in dedupe})
        /\ stored.sequence[m] = Cardinality({id \in Messages : <<m, id>> \in stored.dedupe})

(* A connection sees every number of its merchant, and a decision is       *)
(* broadcast once by one process.                                          *)
BroadcastInvariant == HubTypeOK /\ ConnectionSeesEveryNumber /\ DispatchedOnce
=============================================================================
