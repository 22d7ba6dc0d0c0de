---------------------------- MODULE PeopleProofs ----------------------------
(***************************************************************************)
(* Theorems about the people of a store, for every value of the constants: *)
(* what a connection is told of decisions (RealtimeHub), how owners come   *)
(* to their stores (MerchantAccounts), what the rows of a store say of its *)
(* customers (CustomerAccounts), what an entry is decided on               *)
(* (ActivationContext), and what its notifications, their caps, pages and  *)
(* sockets, and its feedback tickets hold (FeedbackService, which extends  *)
(* NotificationService).                                                   *)
(***************************************************************************)
EXTENDS RealtimeHub, MerchantAccounts, CustomerAccounts, ActivationContext,
        FeedbackService, Sums

(***************************************************************************)
(* Part 1: the broadcast of decisions.                                     *)
(*                                                                         *)
(* The number of a merchant counts the identifiers remembered for it       *)
(* (Numbered): a dispatch adds to both, and a restart takes both back to   *)
(* what was stored together.  What was sent is remembered (SentOnce), so   *)
(* it is not sent again, and a connection that has seen a number has seen  *)
(* the last one, because a restart closes it (Connected).  The dispatches  *)
(* still in the queue are counted (Counted), which bounds the numbers.     *)
(***************************************************************************)
Remembered(memory, m) == {id \in Messages : <<m, id>> \in memory}

HubTyped ==
    /\ queue \in [Merchants -> Seq(Messages)] /\ sent \in [Merchants -> Seq(Messages)]
    /\ sequence \in [Merchants -> Nat] /\ dedupe \subseteq Merchants \X Messages
    /\ stored \in [sequence : [Merchants -> Nat], dedupe : SUBSET (Merchants \X Messages)]
    /\ client \in [Clients -> [open : BOOLEAN, got : Seq(Nat)]]
    /\ dispatches \in 0..MaxDispatches

Counted ==
    /\ stored.dedupe \subseteq dedupe
    /\ \A m \in Merchants : /\ stored.sequence[m] <= sequence[m]
                            /\ sequence[m] + Len(queue[m]) <= dispatches

Counts(number, memory) ==
    \A m \in Merchants : /\ IsFiniteSet(Remembered(memory, m))
                         /\ number[m] = Cardinality(Remembered(memory, m))
Numbered == Counts(sequence, dedupe) /\ Counts(stored.sequence, stored.dedupe)

SentOnce ==
    \A m \in Merchants :
        /\ \A i \in 1..Len(sent[m]) : <<m, sent[m][i]>> \in dedupe
        /\ \A i, j \in 1..Len(sent[m]) : sent[m][i] = sent[m][j] => i = j

SeesEvery(got, number) ==
    /\ \A i \in 1..Len(got) - 1 : got[i + 1] = got[i] + 1
    /\ got[Len(got)] = number
Connected ==
    \A c \in Clients : client[c].got # <<>> =>
        client[c].open /\ SeesEvery(client[c].got, sequence[Merchant[c]])

HubInv == HubTyped /\ Counted /\ Numbered /\ SentOnce /\ Connected

LEMMA HubStarts == HubInit => HubInv
<1> SUFFICES ASSUME HubInit PROVE HubInv
  OBVIOUS
<1> USE DEF HubInit
<1>1. MaxDispatches \in Nat
  BY HubAssumption
<1>2. HubTyped
  BY <1>1 DEF HubTyped
<1>3. Counted
  BY DEF Counted
<1>4. \A m \in Merchants : Remembered({}, m) = {}
  BY DEF Remembered
<1>5. Numbered
  BY <1>4, FS_EmptySet DEF Numbered, Counts
<1>6. SentOnce /\ Connected
  BY DEF SentOnce, Connected
<1> QED BY <1>2, <1>3, <1>5, <1>6 DEF HubInv

LEMMA HubEnqueue ==
  ASSUME HubInv, NEW m \in Merchants, NEW id \in Messages, enqueue(m, id)
  PROVE  HubInv'
<1> USE DEF HubInv, HubTyped, enqueue
<1>0. MaxDispatches \in Nat
  BY HubAssumption
<1>1. HubTyped'
  BY <1>0
<1>2. \A k \in Merchants : Len(queue[k]) \in Nat
  OBVIOUS
<1>3. \A k \in Merchants : Len(queue'[k]) <= Len(queue[k]) + 1
  BY <1>2
<1>4. Counted'
  BY <1>1, <1>2, <1>3 DEF Counted
<1>5. Numbered' /\ SentOnce' /\ Connected'
  BY DEF Numbered, Counts, SentOnce, Connected
<1> QED BY <1>1, <1>4, <1>5

\* One identifier more is remembered.
LEMMA RemembersOneMore ==
  ASSUME HubInv, NEW m \in Merchants, NEW id \in Messages, ~Known(m, id)
  PROVE  /\ Remembered(dedupe \cup {<<m, id>>}, m) = Remembered(dedupe, m) \cup {id}
         /\ IsFiniteSet(Remembered(dedupe \cup {<<m, id>>}, m))
         /\ Cardinality(Remembered(dedupe \cup {<<m, id>>}, m)) = sequence[m] + 1
         /\ \A k \in Merchants \ {m} : Remembered(dedupe \cup {<<m, id>>}, k) = Remembered(dedupe, k)
<1>1. Remembered(dedupe \cup {<<m, id>>}, m) = Remembered(dedupe, m) \cup {id}
  BY DEF Remembered
<1>2. id \notin Remembered(dedupe, m)
  BY DEF Remembered, Known
<1>3. IsFiniteSet(Remembered(dedupe, m)) /\ Cardinality(Remembered(dedupe, m)) = sequence[m]
  BY DEF HubInv, Numbered, Counts
<1>4. IsFiniteSet(Remembered(dedupe, m) \cup {id})
      /\ Cardinality(Remembered(dedupe, m) \cup {id}) = Cardinality(Remembered(dedupe, m)) + 1
  BY <1>2, <1>3, FS_AddElement
<1>5. \A k \in Merchants \ {m} : Remembered(dedupe \cup {<<m, id>>}, k) = Remembered(dedupe, k)
  BY DEF Remembered
<1> QED BY <1>1, <1>3, <1>4, <1>5

\* The number after the last one is the next one to see.
LEMMA SeesOneMore ==
  ASSUME NEW got \in Seq(Nat), NEW number \in Nat, got # <<>> => SeesEvery(got, number)
  PROVE  SeesEvery(Append(got, number + 1), number + 1)
<1> DEFINE n == Len(got)
           more == Append(got, number + 1)
<1>1. n \in Nat /\ Len(more) = n + 1 /\ more[n + 1] = number + 1
      /\ \A i \in 1..n : more[i] = got[i]
  OBVIOUS
<1>2. n # 0 => got # <<>>
  OBVIOUS
<1>3. ASSUME NEW i \in 1..n
      PROVE  more[i + 1] = more[i] + 1
  <2>1. n # 0 /\ got[n] = number /\ \A k \in 1..n - 1 : got[k + 1] = got[k] + 1
    BY <1>1, <1>2, <1>3 DEF SeesEvery
  <2>2. CASE i = n
    BY <1>1, <2>1, <2>2
  <2>3. CASE i # n
    <3>1. i \in 1..n - 1 /\ i + 1 \in 1..n
      BY <1>1, <2>3
    <3> QED BY <1>1, <2>1, <3>1
  <2> QED BY <2>2, <2>3
<1>4. Len(more) - 1 = n
  BY <1>1
<1> HIDE DEF more, n
<1>5. SeesEvery(more, number + 1)
  BY <1>1, <1>3, <1>4 DEF SeesEvery
<1> QED BY <1>5 DEF more

LEMMA HubDispatch ==
  ASSUME HubInv, NEW m \in Merchants, dispatch(m)
  PROVE  HubInv'
<1> DEFINE id == Head(queue[m])
<1>0. MaxDispatches \in Nat /\ Merchant \in [Clients -> Merchants]
  BY HubAssumption
<1>1. /\ queue[m] # <<>> /\ queue' = [queue EXCEPT ![m] = Tail(@)]
      /\ UNCHANGED <<stored, dispatches, crashes, connects>>
  BY DEF dispatch
<1>2. queue[m] \in Seq(Messages) /\ id \in Messages /\ Tail(queue[m]) \in Seq(Messages)
      /\ Len(queue[m]) \in Nat /\ Len(Tail(queue[m])) = Len(queue[m]) - 1
  BY <1>1 DEF HubInv, HubTyped
<1>3. queue' \in [Merchants -> Seq(Messages)]
  BY <1>1, <1>2 DEF HubInv, HubTyped
<1>4. queue'[m] = Tail(queue[m]) /\ \A k \in Merchants \ {m} : queue'[k] = queue[k]
  BY <1>1 DEF HubInv, HubTyped
<1>5. \A k \in Merchants : Len(queue[k]) \in Nat
  BY DEF HubInv, HubTyped
<1>6. CASE Known(m, id)
  <2>1. UNCHANGED <<sequence, dedupe, client, sent>>
    BY <1>6 DEF dispatch
  <2>2. HubTyped'
    BY <1>1, <1>3, <2>1 DEF HubInv, HubTyped
  <2>3. Counted'
    BY <1>1, <1>2, <1>4, <1>5, <2>1 DEF HubInv, HubTyped, Counted
  <2>4. Numbered' /\ SentOnce' /\ Connected'
    BY <1>1, <2>1 DEF HubInv, Numbered, Counts, SentOnce, Connected
  <2> QED BY <2>2, <2>3, <2>4 DEF HubInv
<1>7. CASE ~Known(m, id)
  <2>1. /\ sequence' = [sequence EXCEPT ![m] = sequence[m] + 1]
        /\ dedupe' = dedupe \cup {<<m, id>>}
        /\ broadcast(m, sequence[m] + 1)
        /\ sent' = [sent EXCEPT ![m] = Append(@, id)]
    BY <1>7 DEF dispatch
  <2>2. /\ sequence' \in [Merchants -> Nat] /\ sequence[m] \in Nat /\ sequence'[m] = sequence[m] + 1
        /\ \A k \in Merchants \ {m} : sequence'[k] = sequence[k]
    BY <2>1 DEF HubInv, HubTyped
  <2>3. ASSUME NEW c \in Clients
        PROVE  /\ client'[c] \in [open : BOOLEAN, got : Seq(Nat)]
               /\ client'[c].open = client[c].open
               /\ client'[c].got = IF client[c].open /\ Merchant[c] = m
                                   THEN Append(client[c].got, sequence[m] + 1) ELSE client[c].got
    <3> DEFINE next == sequence[m] + 1
    <3>1. next \in Nat
      BY <2>2
    <3> HIDE DEF next
    <3>2. client[c] \in [open : BOOLEAN, got : Seq(Nat)]
      BY DEF HubInv, HubTyped
    <3>3. Append(client[c].got, next) \in Seq(Nat)
      BY <3>1, <3>2
    <3>4. client'[c] = IF client[c].open /\ Merchant[c] = m
                       THEN [client[c] EXCEPT !.got = Append(@, next)] ELSE client[c]
      BY <2>1 DEF broadcast, next
    <3>5. /\ client'[c] \in [open : BOOLEAN, got : Seq(Nat)]
          /\ client'[c].open = client[c].open
          /\ client'[c].got = IF client[c].open /\ Merchant[c] = m
                              THEN Append(client[c].got, next) ELSE client[c].got
      BY <3>2, <3>3, <3>4
    <3> QED BY <3>5 DEF next
  <2>4. client' \in [Clients -> [open : BOOLEAN, got : Seq(Nat)]]
    <3>1. client' = [c \in Clients |-> client'[c]]
      BY <2>1 DEF broadcast
    <3> QED BY <2>3, <3>1
  <2>5. sent' \in [Merchants -> Seq(Messages)]
    BY <1>2, <2>1 DEF HubInv, HubTyped
  <2>6. HubTyped'
    BY <1>1, <1>2, <1>3, <2>1, <2>2, <2>4, <2>5, SMTT(30) DEF HubInv, HubTyped
  <2>7. Counted'
    <3>1. stored'.dedupe \subseteq dedupe'
      BY <1>1, <2>1 DEF HubInv, Counted
    <3>2. ASSUME NEW k \in Merchants
          PROVE  stored'.sequence[k] <= sequence'[k] /\ sequence'[k] + Len(queue'[k]) <= dispatches'
      <4>1. /\ stored.sequence[k] <= sequence[k] /\ sequence[k] + Len(queue[k]) <= dispatches
            /\ stored.sequence[k] \in Nat /\ sequence[k] \in Nat /\ dispatches \in Nat
        BY <1>0 DEF HubInv, HubTyped, Counted
      <4>2. CASE k = m
        <5> DEFINE n == Len(queue[m])
        <5>1. n \in Nat /\ Len(queue'[m]) = n - 1
          BY <1>2, <1>4
        <5>2. sequence[m] + n <= dispatches
          BY <4>1, <4>2
        <5> HIDE DEF n
        <5> QED BY <1>1, <2>2, <4>1, <4>2, <5>1, <5>2
      <4>3. CASE k # m
        BY <1>1, <1>4, <2>2, <4>1, <4>3
      <4> QED BY <4>2, <4>3
    <3> QED BY <3>1, <3>2 DEF Counted
  <2>8. Numbered'
    <3>1. /\ IsFiniteSet(Remembered(dedupe', m)) /\ Cardinality(Remembered(dedupe', m)) = sequence'[m]
          /\ \A k \in Merchants \ {m} : Remembered(dedupe', k) = Remembered(dedupe, k)
      <4>1. id \in Messages /\ ~Known(m, id) /\ dedupe' = dedupe \cup {<<m, id>>}
        BY <1>2, <1>7, <2>1
      <4> HIDE DEF id
      <4>2. /\ IsFiniteSet(Remembered(dedupe \cup {<<m, id>>}, m))
            /\ Cardinality(Remembered(dedupe \cup {<<m, id>>}, m)) = sequence[m] + 1
            /\ \A k \in Merchants \ {m} :
                   Remembered(dedupe \cup {<<m, id>>}, k) = Remembered(dedupe, k)
        BY <4>1, RemembersOneMore
      <4> QED BY <2>2, <4>1, <4>2
    <3>2. \A k \in Merchants \ {m} : /\ IsFiniteSet(Remembered(dedupe', k))
                                     /\ sequence'[k] = Cardinality(Remembered(dedupe', k))
      BY <2>2, <3>1 DEF HubInv, Numbered, Counts
    <3>3. Counts(sequence', dedupe')
      BY <3>1, <3>2 DEF Counts
    <3>4. Counts(stored'.sequence, stored'.dedupe)
      BY <1>1 DEF HubInv, Numbered
    <3> QED BY <3>3, <3>4 DEF Numbered
  <2>9. SentOnce'
    <3>1. ASSUME NEW k \in Merchants, k # m
          PROVE  sent'[k] = sent[k]
      BY <2>1, <3>1 DEF HubInv, HubTyped
    <3> DEFINE n == Len(sent[m])
    <3>2. /\ n \in Nat /\ Len(sent'[m]) = n + 1 /\ sent'[m][n + 1] = id
          /\ \A i \in 1..n : sent'[m][i] = sent[m][i]
      BY <1>2, <2>1 DEF HubInv, HubTyped
    <3>3. \A i \in 1..n : <<m, sent[m][i]>> \in dedupe /\ sent[m][i] # id
      BY <1>7 DEF HubInv, SentOnce, Known
    <3>4. \A i, j \in 1..n : sent[m][i] = sent[m][j] => i = j
      BY DEF HubInv, SentOnce
    <3> HIDE DEF n, id
    <3>5. \A i \in 1..n + 1 : i \in 1..n \/ i = n + 1
      BY <3>2
    <3>6. \A i \in 1..n + 1 : <<m, sent'[m][i]>> \in dedupe'
      BY <2>1, <3>2, <3>3, <3>5
    <3>7. \A i, j \in 1..n + 1 : sent'[m][i] = sent'[m][j] => i = j
      BY <3>2, <3>3, <3>4, <3>5
    <3>8. ASSUME NEW k \in Merchants
          PROVE  /\ \A i \in 1..Len(sent'[k]) : <<k, sent'[k][i]>> \in dedupe'
                 /\ \A i, j \in 1..Len(sent'[k]) : sent'[k][i] = sent'[k][j] => i = j
      <4>1. CASE k = m
        BY <3>2, <3>6, <3>7, <4>1
      <4>2. CASE k # m
        BY <2>1, <3>1, <4>2 DEF HubInv, SentOnce
      <4> QED BY <4>1, <4>2
    <3> QED BY <3>8 DEF SentOnce
  <2>10. Connected'
    <3>1. ASSUME NEW c \in Clients, client'[c].got # <<>>
          PROVE  client'[c].open /\ SeesEvery(client'[c].got, sequence'[Merchant[c]])
      <4>1. CASE client[c].open /\ Merchant[c] = m
        <5>1. client[c].got \in Seq(Nat) /\ (client[c].got # <<>> => SeesEvery(client[c].got, sequence[m]))
          BY <4>1 DEF HubInv, HubTyped, Connected
        <5>2. SeesEvery(Append(client[c].got, sequence[m] + 1), sequence[m] + 1)
          BY <2>2, <5>1, SeesOneMore
        <5> QED BY <2>2, <2>3, <4>1, <5>2
      <4>2. CASE ~(client[c].open /\ Merchant[c] = m)
        <5>1. client'[c].got = client[c].got /\ client'[c].open = client[c].open
          BY <2>3, <4>2
        <5>2. client[c].open /\ SeesEvery(client[c].got, sequence[Merchant[c]])
          BY <3>1, <5>1 DEF HubInv, Connected
        <5>3. Merchant[c] \in Merchants /\ Merchant[c] # m
          BY <1>0, <4>2, <5>2
        <5> QED BY <2>2, <5>1, <5>2, <5>3
      <4> QED BY <4>1, <4>2
    <3> QED BY <3>1 DEF Connected
  <2> QED BY <2>6, <2>7, <2>8, <2>9, <2>10 DEF HubInv
<1> QED BY <1>6, <1>7

LEMMA HubOthers ==
  ASSUME HubInv, Flush \/ (\E c \in Clients : Connect(c)) \/ Restart
  PROVE  HubInv'
<1>0. Merchant \in [Clients -> Merchants] /\ MaxDispatches \in Nat
  BY HubAssumption
<1>1. CASE Flush
  <2> USE <1>1 DEF Flush, HubInv
  <2>1. HubTyped'
    BY DEF HubTyped
  <2>2. Counted'
    BY DEF Counted, HubTyped
  <2>3. Numbered' /\ SentOnce' /\ Connected'
    BY DEF Numbered, Counts, SentOnce, Connected
  <2> QED BY <2>1, <2>2, <2>3
<1>2. ASSUME NEW c \in Clients, Connect(c)
      PROVE  HubInv'
  <2> USE <1>2 DEF Connect, HubInv
  <2>1. HubTyped'
    BY DEF HubTyped
  <2>2. Counted' /\ Numbered' /\ SentOnce'
    BY DEF Counted, Numbered, Counts, SentOnce
  <2>3. Connected'
    BY DEF Connected, HubTyped
  <2> QED BY <2>1, <2>2, <2>3
<1>3. CASE Restart
  <2> USE <1>3 DEF Restart, closeAll, HubInv
  <2>1. HubTyped'
    BY DEF HubTyped
  <2>2. Counted'
    <3>1. \A m \in Merchants : Len(queue[m]) \in Nat /\ Len(queue'[m]) = 0
      BY DEF HubTyped
    <3> QED BY <1>0, <3>1 DEF Counted, HubTyped
  <2>3. Numbered'
    BY DEF Numbered, Counts
  <2>4. SentOnce' /\ Connected'
    BY DEF SentOnce, Connected
  <2> QED BY <2>1, <2>2, <2>3, <2>4
<1> QED BY <1>1, <1>2, <1>3

LEMMA HubStep == HubInv /\ [HubNext]_hvars => HubInv'
<1> SUFFICES ASSUME HubInv, [HubNext]_hvars PROVE HubInv'
  OBVIOUS
<1>1. CASE UNCHANGED hvars
  <2> USE <1>1 DEF hvars, HubInv
  <2>1. HubTyped' /\ Counted' /\ Numbered'
    BY DEF HubTyped, Counted, Numbered, Counts
  <2>2. SentOnce' /\ Connected'
    BY DEF SentOnce, Connected
  <2> QED BY <2>1, <2>2
<1>2. CASE HubNext
  BY <1>2, HubEnqueue, HubDispatch, HubOthers DEF HubNext
<1> QED BY <1>1, <1>2

LEMMA HubInvGives == HubInv => BroadcastInvariant
<1> SUFFICES ASSUME HubInv PROVE BroadcastInvariant
  OBVIOUS
<1> USE DEF HubInv
<1>0. Merchant \in [Clients -> Merchants] /\ MaxDispatches \in Nat
  BY HubAssumption
<1>1. HubTypeOK
  <2>1. ASSUME NEW m \in Merchants
        PROVE  sequence[m] \in 0..MaxDispatches /\ stored.sequence[m] \in 0..sequence[m]
    <3>1. /\ sequence[m] \in Nat /\ stored.sequence[m] \in Nat /\ dispatches \in 0..MaxDispatches
          /\ Len(queue[m]) \in Nat
      BY DEF HubTyped
    <3>2. stored.sequence[m] <= sequence[m] /\ sequence[m] + Len(queue[m]) <= dispatches
      BY DEF Counted
    <3> QED BY <1>0, <3>1, <3>2
  <2> QED BY <2>1 DEF HubTypeOK, HubTyped, Counted
<1>2. ConnectionSeesEveryNumber
  BY DEF ConnectionSeesEveryNumber, Connected, SeesEvery
<1>3. DispatchedOnce
  <2>1. \A m \in Merchants : DOMAIN sent[m] = 1..Len(sent[m])
    BY DEF HubTyped
  <2> QED BY <2>1 DEF DispatchedOnce, SentOnce, Numbered, Counts, Remembered
<1> QED BY <1>1, <1>2, <1>3 DEF BroadcastInvariant

(* wsDispatcher.dispatch and the hub's broadcast: whatever is queued,      *)
(* dispatched, stored and restarted, a connection sees every number of its *)
(* merchant in turn, a process broadcasts a decision once, and a number    *)
(* counts the decisions remembered.                                        *)
THEOREM BroadcastInvariantHolds == HubSpec => []BroadcastInvariant
<1>1. HubInit => HubInv BY HubStarts
<1>2. HubInv /\ [HubNext]_hvars => HubInv' BY HubStep
<1>3. HubInv => BroadcastInvariant BY HubInvGives
<1> QED BY <1>1, <1>2, <1>3, PTL DEF HubSpec

(***************************************************************************)
(* Part 2: the owners of stores.                                           *)
(*                                                                         *)
(* A code that can still log in has not logged in, and no other phone has  *)
(* its number (CodesUnused); a store has one owner's phone and takes it    *)
(* from nobody (OneOwner), because the onboarding looks for the phone in   *)
(* the transaction that writes it.  A phone that leads to two stores is    *)
(* recorded as raced when the application that adds the second is written  *)
(* (BoundOnce).  A contact belongs to a store that was onboarded           *)
(* (StoresKnown), so onboarding meets no contact of its own store.         *)
(***************************************************************************)
AtMostOne(S) == \A a, b \in S : a = b

OwnersTyped ==
    /\ now \in 0..MaxClock /\ codesSent \in 0..MaxCodes
    /\ codes \in [Phones -> SUBSET [number : 1..MaxCodes, expiresAt : Int]]
    /\ owner \in [Stores -> SUBSET Phones] /\ contact \in [Stores -> SUBSET Phones]
    /\ tokens \subseteq [phone : Phones, nonce : 1..MaxTokens, expiresAt : Int]
    /\ IsFiniteSet(tokens) /\ Cardinality(tokens) <= MaxTokens
    /\ consumed \subseteq 1..MaxTokens
    /\ sessions \subseteq [phone : Phones, store : Stores]
    /\ applying \subseteq [store : Stores, phone : Phones]
    /\ ownerLogins \in [1..MaxCodes -> 0..1]

CodesUnused ==
    /\ \A p \in Phones : AtMostOne(codes[p])
    /\ \A p \in Phones : \A r \in codes[p] : r.number <= codesSent /\ ownerLogins[r.number] = 0
    /\ \A p, q \in Phones : \A r \in codes[p], s \in codes[q] : r.number = s.number => p = q
    /\ \A n \in 1..MaxCodes : n > codesSent => ownerLogins[n] = 0

StoresKnown ==
    /\ \A m \in Stores : contact[m] # {} => owner[m] # {}
    /\ \A s \in sessions : owner[s.store] # {}
    /\ \A a \in applying : owner[a.store] # {}

OneOwner ==
    /\ \A m \in Stores : AtMostOne(owner[m]) /\ AtMostOne(contact[m])
    /\ \A m, n \in Stores : \A p \in Phones : p \in owner[m] /\ p \in owner[n] => m = n

BoundOnce == \A p \in Phones : p \notin raced => AtMostOne(listMerchantIdsByOwnerPhone(p))

MerchantInv == OwnersTyped /\ CodesUnused /\ StoresKnown /\ OneOwner /\ BoundOnce

LEMMA MerchantBounds ==
  /\ CodeTtl \in Nat /\ TokenTtl \in Nat /\ MaxCodes \in Nat /\ MaxTokens \in Nat /\ MaxClock \in Nat
BY MerchantAccountsAssumption DEF MerchantAssumption

LEMMA AtMostOneCounts ==
  ASSUME NEW S, AtMostOne(S)
  PROVE  IsFiniteSet(S) /\ Cardinality(S) \in 0..1
<1>1. CASE S = {}
  BY <1>1, FS_EmptySet
<1>2. CASE S # {}
  <2>1. PICK a : a \in S
    BY <1>2
  <2>2. S = {a}
    BY <2>1 DEF AtMostOne
  <2>3. IsFiniteSet({a}) /\ Cardinality({a}) = 1
    BY FS_Singleton
  <2> QED BY <2>2, <2>3
<1> QED BY <1>1, <1>2

LEMMA MerchantStarts == MerchantInit => MerchantInv
<1> SUFFICES ASSUME MerchantInit PROVE MerchantInv
  OBVIOUS
<1> USE DEF MerchantInit
<1>1. OwnersTyped
  <2>1. IsFiniteSet({}) /\ Cardinality({}) = 0
    BY FS_EmptySet
  <2> QED BY <2>1, MerchantBounds DEF OwnersTyped
<1>2. CodesUnused /\ StoresKnown /\ OneOwner
  BY DEF CodesUnused, StoresKnown, OneOwner, AtMostOne
<1>3. BoundOnce
  BY DEF BoundOnce, AtMostOne, listMerchantIdsByOwnerPhone
<1> QED BY <1>1, <1>2, <1>3 DEF MerchantInv

\* What does not touch the stores keeps them.
LEMMA StoresLeftAlone ==
  ASSUME MerchantInv, UNCHANGED <<owner, contact, applying, raced>>,
         \A s \in sessions' : s \in sessions \/ (s.store \in Stores /\ owner[s.store] # {})
  PROVE  StoresKnown' /\ OneOwner' /\ BoundOnce'
<1> USE DEF MerchantInv
<1>1. StoresKnown'
  BY DEF StoresKnown
<1>2. OneOwner'
  BY DEF OneOwner
<1>3. BoundOnce'
  BY DEF BoundOnce, listMerchantIdsByOwnerPhone
<1> QED BY <1>1, <1>2, <1>3

LEMMA IssueKeeps ==
  ASSUME MerchantInv, NEW p \in Phones, issuePhoneCode(p)
  PROVE  MerchantInv'
<1> DEFINE n == codesSent + 1
           code == [number |-> n, expiresAt |-> now + CodeTtl]
<1>1. /\ codesSent < MaxCodes /\ codesSent' = n /\ codes' = [codes EXCEPT ![p] = {code}]
      /\ UNCHANGED <<now, owner, contact, consumed, tokens, sessions, applying, ownerLogins, raced>>
  BY DEF issuePhoneCode
<1>2. codesSent \in Nat /\ n \in 1..MaxCodes /\ code \in [number : 1..MaxCodes, expiresAt : Int]
  BY <1>1, MerchantBounds DEF MerchantInv, OwnersTyped
<1>3. code.number = n
  OBVIOUS
<1> HIDE DEF code
<1>4. codes'[p] = {code} /\ \A q \in Phones \ {p} : codes'[q] = codes[q]
  BY <1>1 DEF MerchantInv, OwnersTyped
<1>5. OwnersTyped'
  BY <1>1, <1>2, MerchantBounds DEF MerchantInv, OwnersTyped
<1>6. ownerLogins[n] = 0 /\ n > codesSent
  BY <1>2 DEF MerchantInv, CodesUnused
<1>7. \A q \in Phones : \A r \in codes[q] :
        r.number \in Nat /\ r.number <= codesSent /\ ownerLogins[r.number] = 0
  BY DEF MerchantInv, CodesUnused, OwnersTyped
<1>8. \A q \in Phones : \A r \in codes'[q] :
        (q = p /\ r.number = n) \/ (q # p /\ r \in codes[q])
  BY <1>3, <1>4
<1>9. CodesUnused'
  <2>1. \A q \in Phones : AtMostOne(codes'[q])
    BY <1>4 DEF MerchantInv, CodesUnused, AtMostOne
  <2>2. \A q \in Phones : \A r \in codes'[q] : r.number <= codesSent' /\ ownerLogins'[r.number] = 0
    BY <1>1, <1>2, <1>6, <1>7, <1>8
  <2>3. ASSUME NEW q \in Phones, NEW z \in Phones, NEW r \in codes'[q], NEW s \in codes'[z],
               r.number = s.number
        PROVE  q = z
    <3>1. q = p /\ z # p => s.number <= codesSent
      BY <1>7, <1>8
    <3>2. z = p /\ q # p => r.number <= codesSent
      BY <1>7, <1>8
    <3>3. q # p /\ z # p => q = z
      BY <1>8, <2>3 DEF MerchantInv, CodesUnused
    <3> QED BY <1>2, <1>6, <1>8, <2>3, <3>1, <3>2, <3>3
  <2>4. \A k \in 1..MaxCodes : k > codesSent' => ownerLogins'[k] = 0
    BY <1>1, <1>2 DEF MerchantInv, CodesUnused
  <2> QED BY <2>1, <2>2, <2>3, <2>4 DEF CodesUnused
<1>10. StoresKnown' /\ OneOwner' /\ BoundOnce'
  BY <1>1, StoresLeftAlone
<1> QED BY <1>5, <1>9, <1>10 DEF MerchantInv

LEMMA LoginKeeps ==
  ASSUME MerchantInv, NEW p \in Phones, NEW n \in 1..codesSent, phoneLogin(p, n)
  PROVE  MerchantInv'
<1> DEFINE stores == listMerchantIdsByOwnerPhone(p)
           token == issueToken(p)
<1>1. /\ codes' = [codes EXCEPT ![p] = {}]
      /\ ownerLogins' = [ownerLogins EXCEPT ![n] = @ + 1]
      /\ stores = {} => Cardinality(tokens) < MaxTokens
      /\ tokens' = IF stores /= {} THEN tokens ELSE tokens \cup {token}
      /\ sessions' = IF Cardinality(stores) /= 1 THEN sessions
                     ELSE sessions \cup [phone : {p}, store : stores]
      /\ UNCHANGED <<now, owner, contact, consumed, applying, codesSent, raced>>
  BY DEF phoneLogin, verifyPhoneCode
<1>2. PICK record \in codes[p] : record.number = n
  BY DEF phoneLogin, verifyPhoneCode
<1>3. n \in 1..MaxCodes /\ ownerLogins[n] = 0
  BY <1>2, MerchantBounds DEF MerchantInv, CodesUnused, OwnersTyped
<1>4. /\ ownerLogins' \in [1..MaxCodes -> 0..1]
      /\ \A k \in 1..MaxCodes : k # n => ownerLogins'[k] = ownerLogins[k]
  BY <1>1, <1>3 DEF MerchantInv, OwnersTyped
<1>5. codes'[p] = {} /\ \A q \in Phones \ {p} : codes'[q] = codes[q]
  BY <1>1 DEF MerchantInv, OwnersTyped
<1>6. stores \subseteq Stores /\ \A m \in stores : owner[m] # {}
  BY DEF listMerchantIdsByOwnerPhone, MerchantInv, StoresKnown
<1>7. /\ IsFiniteSet(tokens') /\ Cardinality(tokens') <= MaxTokens
      /\ tokens' \subseteq [phone : Phones, nonce : 1..MaxTokens, expiresAt : Int]
  <2>1. IsFiniteSet(tokens) /\ Cardinality(tokens) \in Nat /\ Cardinality(tokens) <= MaxTokens
    BY FS_CardinalityType DEF MerchantInv, OwnersTyped
  <2>2. CASE stores # {}
    BY <1>1, <2>1, <2>2 DEF MerchantInv, OwnersTyped
  <2>3. CASE stores = {}
    <3>1. Cardinality(tokens) < MaxTokens /\ tokens' = tokens \cup {token}
      BY <1>1, <2>3
    <3>2. token \in [phone : Phones, nonce : 1..MaxTokens, expiresAt : Int]
      <4>1. now + TokenTtl \in Int /\ Cardinality(tokens) + 1 \in 1..MaxTokens
        BY <2>1, <3>1, MerchantBounds DEF MerchantInv, OwnersTyped
      <4> QED BY <4>1 DEF issueToken
    <3> HIDE DEF token
    <3>3. /\ IsFiniteSet(tokens \cup {token})
          /\ Cardinality(tokens \cup {token}) = Cardinality(tokens)
             \/ Cardinality(tokens \cup {token}) = Cardinality(tokens) + 1
      BY <2>1, FS_AddElement
    <3> QED BY <2>1, <3>1, <3>2, <3>3, MerchantBounds DEF MerchantInv, OwnersTyped
  <2> QED BY <2>2, <2>3
<1>8. sessions' \subseteq [phone : Phones, store : Stores]
  BY <1>1, <1>6 DEF MerchantInv, OwnersTyped
<1>9. OwnersTyped'
  <2>1. codes' \in [Phones -> SUBSET [number : 1..MaxCodes, expiresAt : Int]]
    BY <1>1 DEF MerchantInv, OwnersTyped
  <2> QED BY <1>1, <1>4, <1>7, <1>8, <2>1 DEF MerchantInv, OwnersTyped
<1>10. CodesUnused'
  <2>1. \A q \in Phones : AtMostOne(codes'[q])
    BY <1>5 DEF MerchantInv, CodesUnused, AtMostOne
  <2>2. ASSUME NEW q \in Phones, NEW r \in codes'[q]
        PROVE  q # p /\ r \in codes[q] /\ r.number <= codesSent' /\ ownerLogins'[r.number] = 0
    <3>1. q # p /\ r \in codes[q]
      BY <1>5, <2>2
    <3>2. r.number # n
      BY <1>2, <3>1 DEF MerchantInv, CodesUnused
    <3>3. r.number \in 1..MaxCodes /\ r.number <= codesSent /\ ownerLogins[r.number] = 0
      BY <3>1 DEF MerchantInv, CodesUnused, OwnersTyped
    <3> QED BY <1>1, <1>4, <3>1, <3>2, <3>3
  <2>3. \A q, z \in Phones : \A r \in codes'[q], s \in codes'[z] : r.number = s.number => q = z
    BY <2>2 DEF MerchantInv, CodesUnused
  <2>4. \A k \in 1..MaxCodes : k > codesSent' => ownerLogins'[k] = 0
    <3>1. codesSent \in Nat
      BY DEF MerchantInv, OwnersTyped
    <3> QED BY <1>1, <1>4, <3>1 DEF MerchantInv, CodesUnused
  <2> QED BY <2>1, <2>2, <2>3, <2>4 DEF CodesUnused
<1>11. StoresKnown' /\ OneOwner' /\ BoundOnce'
  <2>1. \A s \in sessions' : s \in sessions \/ (s.store \in Stores /\ owner[s.store] # {})
    BY <1>1, <1>6
  <2> QED BY <1>1, <2>1, StoresLeftAlone
<1> QED BY <1>9, <1>10, <1>11 DEF MerchantInv

LEMMA OnboardKeeps ==
  ASSUME MerchantInv, NEW t \in tokens, completeOnboard(t)
  PROVE  MerchantInv'
<1>1. PICK m \in Stores : /\ owner[m] = {} /\ owner' = [owner EXCEPT ![m] = {t.phone}]
                          /\ sessions' = sessions \cup {[phone |-> t.phone, store |-> m]}
  BY DEF completeOnboard, onboardMerchant, Onboarded
<1>2. /\ listMerchantIdsByOwnerPhone(t.phone) = {} /\ consumed' = consumed \cup {t.nonce}
      /\ UNCHANGED <<now, codes, contact, tokens, applying, codesSent, ownerLogins, raced>>
  BY DEF completeOnboard, Unbound
<1>3. t.phone \in Phones /\ t.nonce \in 1..MaxTokens
  BY DEF MerchantInv, OwnersTyped
<1>4. owner'[m] = {t.phone} /\ \A k \in Stores \ {m} : owner'[k] = owner[k]
  BY <1>1 DEF MerchantInv, OwnersTyped
<1>5. contact[m] = {}
  BY <1>1 DEF MerchantInv, StoresKnown
<1>6. OwnersTyped'
  <2>1. owner' \in [Stores -> SUBSET Phones]
    BY <1>1, <1>3 DEF MerchantInv, OwnersTyped
  <2>2. sessions' \subseteq [phone : Phones, store : Stores]
    BY <1>1, <1>3 DEF MerchantInv, OwnersTyped
  <2> QED BY <1>2, <1>3, <2>1, <2>2 DEF MerchantInv, OwnersTyped
<1>7. CodesUnused'
  BY <1>2 DEF MerchantInv, CodesUnused
<1>8. StoresKnown'
  <2>1. \A k \in Stores : owner[k] # {} => owner'[k] # {}
    BY <1>4
  <2> QED BY <1>1, <1>2, <1>4, <2>1 DEF MerchantInv, StoresKnown, OwnersTyped
<1>9. \A k \in Stores : t.phone \notin owner[k] \cup contact[k]
  BY <1>2 DEF listMerchantIdsByOwnerPhone
<1>10. OneOwner'
  BY <1>2, <1>4, <1>9 DEF MerchantInv, OneOwner, AtMostOne
<1>11. BoundOnce'
  <2>1. ASSUME NEW p \in Phones, NEW k \in Stores, p \in owner'[k] \cup contact'[k]
        PROVE  IF p = t.phone THEN k = m ELSE p \in owner[k] \cup contact[k]
    BY <1>2, <1>4, <1>9, <2>1
  <2> QED BY <1>2, <2>1 DEF MerchantInv, BoundOnce, AtMostOne, listMerchantIdsByOwnerPhone
<1> QED BY <1>6, <1>7, <1>8, <1>10, <1>11 DEF MerchantInv

LEMMA CheckKeeps ==
  ASSUME MerchantInv, NEW m \in Stores, NEW p \in Phones, contractCheck(m, p)
  PROVE  MerchantInv'
<1>1. /\ \E s \in sessions : s.store = m
      /\ applying' = applying \cup {[store |-> m, phone |-> p]}
      /\ UNCHANGED <<now, codes, owner, contact, consumed, tokens, sessions, codesSent, ownerLogins, raced>>
  BY DEF contractCheck
<1>2. owner[m] # {}
  BY <1>1 DEF MerchantInv, StoresKnown
<1>3. OwnersTyped' /\ CodesUnused'
  BY <1>1 DEF MerchantInv, OwnersTyped, CodesUnused
<1>4. StoresKnown' /\ OneOwner'
  BY <1>1, <1>2 DEF MerchantInv, StoresKnown, OneOwner
<1>5. BoundOnce'
  BY <1>1 DEF MerchantInv, BoundOnce, listMerchantIdsByOwnerPhone
<1> QED BY <1>3, <1>4, <1>5 DEF MerchantInv

LEMMA ApplyKeeps ==
  ASSUME MerchantInv, NEW a \in applying, contractApply(a)
  PROVE  MerchantInv'
<1>1. /\ applying' = applying \ {a} /\ contact' = [contact EXCEPT ![a.store] = {a.phone}]
      /\ raced' = IF FreeFor(a.store, a.phone) THEN raced ELSE raced \cup {a.phone}
      /\ UNCHANGED <<now, codes, owner, consumed, tokens, sessions, codesSent, ownerLogins>>
  BY DEF contractApply
<1>2. a.store \in Stores /\ a.phone \in Phones /\ owner[a.store] # {}
  BY DEF MerchantInv, OwnersTyped, StoresKnown
<1>3. contact'[a.store] = {a.phone} /\ \A k \in Stores \ {a.store} : contact'[k] = contact[k]
  BY <1>1, <1>2 DEF MerchantInv, OwnersTyped
<1>4. OwnersTyped' /\ CodesUnused'
  BY <1>1, <1>2 DEF MerchantInv, OwnersTyped, CodesUnused
<1>5. StoresKnown'
  BY <1>1, <1>2, <1>3 DEF MerchantInv, StoresKnown
<1>6. OneOwner'
  BY <1>1, <1>3 DEF MerchantInv, OneOwner, AtMostOne
<1>7. BoundOnce'
  <2>1. ASSUME NEW p \in Phones, NEW k \in Stores, p \in owner'[k] \cup contact'[k]
        PROVE  p \in owner[k] \cup contact[k] \/ (p = a.phone /\ k = a.store)
    BY <1>1, <1>3, <2>1
  <2>2. ASSUME NEW p \in Phones, p \notin raced',
               NEW k \in Stores, p \in owner'[k] \cup contact'[k],
               NEW l \in Stores, p \in owner'[l] \cup contact'[l]
        PROVE  k = l
    <3>1. p \notin raced
      BY <1>1, <2>2
    <3>2. CASE p = a.phone
      <4>1. FreeFor(a.store, p)
        BY <1>1, <2>2, <3>2
      <4>2. \A j \in Stores : p \in owner[j] \cup contact[j] => j = a.store
        BY <4>1 DEF FreeFor, listMerchantIdsByOwnerPhone
      <4> QED BY <2>1, <2>2, <4>2
    <3>3. CASE p # a.phone
      <4>1. p \in owner[k] \cup contact[k] /\ p \in owner[l] \cup contact[l]
        BY <2>1, <2>2, <3>3
      <4> QED BY <3>1, <4>1 DEF MerchantInv, BoundOnce, AtMostOne, listMerchantIdsByOwnerPhone
    <3> QED BY <3>2, <3>3
  <2> QED BY <2>2 DEF BoundOnce, AtMostOne, listMerchantIdsByOwnerPhone
<1> QED BY <1>4, <1>5, <1>6, <1>7 DEF MerchantInv

LEMMA MerchantStep == MerchantInv /\ [MerchantNext]_mvars => MerchantInv'
<1> SUFFICES ASSUME MerchantInv, [MerchantNext]_mvars PROVE MerchantInv'
  OBVIOUS
<1>1. CASE UNCHANGED mvars
  <2>1. OwnersTyped'
    BY <1>1 DEF mvars, MerchantInv, OwnersTyped
  <2>2. CodesUnused'
    BY <1>1 DEF mvars, MerchantInv, CodesUnused
  <2>3. StoresKnown' /\ OneOwner' /\ BoundOnce'
    BY <1>1, StoresLeftAlone DEF mvars
  <2> QED BY <2>1, <2>2, <2>3 DEF MerchantInv
<1>2. CASE MerchantTick
  <2>1. now < MaxClock /\ now' = now + 1
        /\ UNCHANGED <<codes, owner, contact, consumed, tokens, sessions, applying, codesSent, ownerLogins, raced>>
    BY <1>2 DEF MerchantTick
  <2>2. OwnersTyped'
    BY <2>1, MerchantBounds DEF MerchantInv, OwnersTyped
  <2>3. CodesUnused'
    BY <2>1 DEF MerchantInv, CodesUnused
  <2>4. StoresKnown' /\ OneOwner' /\ BoundOnce'
    BY <2>1, StoresLeftAlone
  <2> QED BY <2>2, <2>3, <2>4 DEF MerchantInv
<1>3. CASE MerchantNext
  BY <1>2, <1>3, IssueKeeps, LoginKeeps, OnboardKeeps, CheckKeeps, ApplyKeeps DEF MerchantNext
<1> QED BY <1>1, <1>3

LEMMA MerchantInvGives == MerchantInv => OwnersInvariant
<1> SUFFICES ASSUME MerchantInv PROVE OwnersInvariant
  OBVIOUS
<1>1. MerchantTypeOK
  <2>1. ASSUME NEW p \in Phones
        PROVE  Cardinality(codes[p]) <= 1
    BY AtMostOneCounts DEF MerchantInv, CodesUnused
  <2>2. ASSUME NEW m \in Stores
        PROVE  /\ Cardinality(owner[m]) <= 1 /\ Cardinality(contact[m]) <= 1
               /\ contact[m] # {} => m \in Onboarded
    <3>1. Cardinality(owner[m]) \in 0..1 /\ Cardinality(contact[m]) \in 0..1
      BY AtMostOneCounts DEF MerchantInv, OneOwner
    <3> QED BY <3>1 DEF MerchantInv, StoresKnown, Onboarded
  <2>3. \A s \in sessions : s.store \in Onboarded
    BY DEF MerchantInv, StoresKnown, OwnersTyped, Onboarded
  <2> QED BY <2>1, <2>2, <2>3 DEF MerchantTypeOK, MerchantInv, OwnersTyped
<1>2. CodeUsedOnce
  BY DEF CodeUsedOnce, MerchantInv, OwnersTyped
<1>3. OwnerPhonesDiffer
  BY DEF OwnerPhonesDiffer, Onboarded, MerchantInv, OneOwner, OwnersTyped
<1>4. BoundTwiceOnlyByRace
  <2>1. ASSUME NEW p \in Phones, p \notin raced
        PROVE  ~(Cardinality(listMerchantIdsByOwnerPhone(p)) > 1)
    <3>1. Cardinality(listMerchantIdsByOwnerPhone(p)) \in 0..1
      BY <2>1, AtMostOneCounts DEF MerchantInv, BoundOnce
    <3> QED BY <3>1
  <2> QED BY <2>1 DEF BoundTwiceOnlyByRace
<1> QED BY <1>1, <1>2, <1>3, <1>4 DEF OwnersInvariant

(* phone-login, complete-onboard and contract/apply: however codes, tokens *)
(* and applications of several phones interleave, a code logs in once, a   *)
(* phone owns one store, and it leads to a second one only through an      *)
(* application written after its check was overtaken.                      *)
THEOREM OwnersInvariantHolds == MerchantSpec => []OwnersInvariant
<1>1. MerchantInit => MerchantInv BY MerchantStarts
<1>2. MerchantInv /\ [MerchantNext]_mvars => MerchantInv' BY MerchantStep
<1>3. MerchantInv => OwnersInvariant BY MerchantInvGives
<1> QED BY <1>1, <1>2, <1>3, PTL DEF MerchantSpec

(***************************************************************************)
(* Part 3: the customers of stores.                                        *)
(*                                                                         *)
(* A row that names a user without an account at its store is Foreign: he  *)
(* had none there when it was written, and it is an audit row or paid with *)
(* the wallet of another store.  That (RowsFine) is kept by every row that *)
(* is added, an invoice because its payment is a row already; and by       *)
(* a cancellation, which renames all rows of a user at once, a payment and *)
(* its invoice alike, to an alias that is nobody's phone.  A login is      *)
(* answered "new" when it adds the account, and only a cancellation takes  *)
(* an account away: what is new is counted by the cancellations and the    *)
(* account that is there now (NewCounted).                                 *)
(***************************************************************************)
Named == Phones \cup {buildDeletedAlias(u) : u \in Phones}
Row == [kind : {"payment", "invoice", "ledger", "audit"}, store : Stores, user : Named, about : Nat,
        status : {"PENDING", "PAID", "ISSUED", "SUCCESS", "FAILED"}, home : BOOLEAN, wallet : Stores]
Login == [store : Stores, user : Phones, created : BOOLEAN, outcome : {"PENDING", "NO_POLICY", "ERROR"}]

Foreign(row) == ~row.home /\ (row.kind = "audit" \/ row.wallet # row.store)

RowsFine(rs, accounts) ==
    /\ rs \in Seq(Row)
    /\ \A n \in 1..Len(rs) : rs[n].kind = "invoice" =>
           /\ rs[n].about \in 1..Len(rs)
           /\ rs[rs[n].about].store = rs[n].store /\ rs[rs[n].about].user = rs[n].user
    /\ \A n, k \in 1..Len(rs) :
           rs[n].kind = "invoice" /\ rs[k].kind = "invoice" /\ rs[n].about = rs[k].about => n = k
    /\ \A n \in 1..Len(rs) : rs[n].user \in Phones \ accounts[rs[n].store] => Foreign(rs[n])

AccountsTyped ==
    /\ users \in [Stores -> SUBSET Phones]
    /\ identityOf \in [Stores -> [Identities -> Phones \cup {NoUser}]]
    /\ phoneOf \in [Stores -> [Phones -> Phones \cup {NoUser}]]
    /\ logins \in Seq(Login)
    /\ alliance \in [Stores -> [stores : SUBSET Stores, first : Stores, shared : BOOLEAN]]
    /\ \A m \in Stores : alliance[m].first \in alliance[m].stores
    /\ cancelled \in [Stores -> [Phones -> Nat]]

NewTo(ls, m, u) == {n \in 1..Len(ls) : ls[n].store = m /\ ls[n].user = u /\ ls[n].created}
NewCounted ==
    \A m \in Stores, u \in Phones :
        Cardinality(NewTo(logins, m, u)) <= cancelled[m][u] + (IF u \in users[m] THEN 1 ELSE 0)

CustomerInv == AccountsTyped /\ RowsFine(rows, users) /\ NewCounted

LEMMA CustomerStarts == CustomerInit => CustomerInv
<1> SUFFICES ASSUME CustomerInit PROVE CustomerInv
  OBVIOUS
<1>1. AccountsTyped
  BY DEF CustomerInit, AccountsTyped
<1>2. RowsFine(rows, users)
  BY DEF CustomerInit, RowsFine
<1>3. ASSUME NEW m \in Stores, NEW u \in Phones
      PROVE  Cardinality(NewTo(logins, m, u)) = 0 /\ cancelled[m][u] = 0
  <2>1. NewTo(logins, m, u) = {}
    BY DEF CustomerInit, NewTo
  <2>2. Cardinality({}) = 0
    BY FS_EmptySet
  <2>3. cancelled[m][u] = 0
    BY DEF CustomerInit
  <2> QED BY <2>1, <2>2, <2>3
<1>4. ASSUME NEW m \in Stores, NEW u \in Phones
      PROVE  Cardinality(NewTo(logins, m, u)) <= cancelled[m][u] + (IF u \in users[m] THEN 1 ELSE 0)
  BY <1>3
<1>5. NewCounted
  BY <1>4 DEF NewCounted
<1> QED BY <1>1, <1>2, <1>5 DEF CustomerInv

-----------------------------------------------------------------------------
(* Lemmas about the rows                                                   *)

LEMMA MoreAccounts ==
  ASSUME NEW rs, NEW old \in [Stores -> SUBSET Phones], NEW new \in [Stores -> SUBSET Phones],
         RowsFine(rs, old), \A m \in Stores : old[m] \subseteq new[m]
  PROVE  RowsFine(rs, new)
<1>1. ASSUME NEW n \in 1..Len(rs)
      PROVE  rs[n].store \in Stores
  <2>1. rs[n] \in Row
    BY DEF RowsFine
  <2> QED BY <2>1 DEF Row
<1> QED BY <1>1 DEF RowsFine

LEMMA AddRow ==
  ASSUME NEW rs, NEW accounts \in [Stores -> SUBSET Phones], RowsFine(rs, accounts), NEW row \in Row,
         row.kind = "invoice" =>
             /\ row.about \in 1..Len(rs)
             /\ rs[row.about].store = row.store /\ rs[row.about].user = row.user
             /\ \A k \in 1..Len(rs) : ~(rs[k].kind = "invoice" /\ rs[k].about = row.about),
         row.user \in Phones \ accounts[row.store] => Foreign(row)
  PROVE  RowsFine(Append(rs, row), accounts)
<1> DEFINE more == Append(rs, row)
           n == Len(rs)
<1>1. /\ more \in Seq(Row) /\ n \in Nat /\ Len(more) = n + 1 /\ more[n + 1] = row
      /\ \A i \in 1..n : more[i] = rs[i]
  BY DEF RowsFine
<1>2. \A i \in 1..n : rs[i].kind = "invoice" =>
        /\ rs[i].about \in 1..n
        /\ rs[rs[i].about].store = rs[i].store /\ rs[rs[i].about].user = rs[i].user
  BY DEF RowsFine
<1>3. row.kind = "invoice" =>
        /\ row.about \in 1..n
        /\ rs[row.about].store = row.store /\ rs[row.about].user = row.user
        /\ \A k \in 1..n : ~(rs[k].kind = "invoice" /\ rs[k].about = row.about)
  OBVIOUS
<1>4. /\ \A i, k \in 1..n :
           rs[i].kind = "invoice" /\ rs[k].kind = "invoice" /\ rs[i].about = rs[k].about => i = k
      /\ \A i \in 1..n : rs[i].user \in Phones \ accounts[rs[i].store] => Foreign(rs[i])
  BY DEF RowsFine
<1> HIDE DEF more, n
<1>5. \A i \in 1..Len(more) : i \in 1..n \/ i = n + 1
  BY <1>1
<1>6. ASSUME NEW i \in 1..Len(more)
      PROVE  more[i].user \in Phones \ accounts[more[i].store] => Foreign(more[i])
  BY <1>1, <1>4, <1>5
<1>7. ASSUME NEW i \in 1..Len(more), more[i].kind = "invoice"
      PROVE  /\ more[i].about \in 1..n
             /\ more[more[i].about].store = more[i].store /\ more[more[i].about].user = more[i].user
  <2>1. CASE i \in 1..n
    BY <1>1, <1>2, <1>7, <2>1
  <2>2. CASE i = n + 1
    BY <1>1, <1>3, <1>7, <2>2
  <2> QED BY <1>5, <2>1, <2>2
<1>8. ASSUME NEW i \in 1..Len(more), NEW k \in 1..Len(more),
             more[i].kind = "invoice", more[k].kind = "invoice", more[i].about = more[k].about
      PROVE  i = k
  BY <1>1, <1>3, <1>4, <1>5, <1>8
<1>9. 1..n \subseteq 1..Len(more)
  BY <1>1
<1>10. RowsFine(more, accounts)
  BY <1>1, <1>6, <1>7, <1>8, <1>9 DEF RowsFine
<1> QED BY <1>10 DEF more

\* Rows that are renamed, row by row, so that two rows of the same user of the same store
\* still have the same user, and whoever is named has an account.
LEMMA RowsRenamed ==
  ASSUME NEW rs, NEW old \in [Stores -> SUBSET Phones], NEW new \in [Stores -> SUBSET Phones],
         RowsFine(rs, old), NEW rs2 \in Seq(Row), Len(rs2) = Len(rs),
         \A n \in 1..Len(rs) :
             /\ rs2[n].kind = rs[n].kind /\ rs2[n].store = rs[n].store /\ rs2[n].about = rs[n].about
             /\ Foreign(rs[n]) => Foreign(rs2[n]),
         \A n, k \in 1..Len(rs) :
             rs[n].store = rs[k].store /\ rs[n].user = rs[k].user => rs2[n].user = rs2[k].user,
         \A n \in 1..Len(rs) : rs2[n].user \in Phones \ new[rs2[n].store] =>
             rs2[n].user = rs[n].user /\ rs[n].user \in Phones \ old[rs[n].store]
  PROVE  RowsFine(rs2, new)
<1> DEFINE n == Len(rs)
<1>1. n = Len(rs2) /\ rs2 \in Seq(Row)
  OBVIOUS
<1>3. ASSUME NEW i \in 1..n, rs2[i].kind = "invoice"
      PROVE  /\ rs2[i].about \in 1..n
             /\ rs2[rs2[i].about].store = rs2[i].store /\ rs2[rs2[i].about].user = rs2[i].user
  <2>1. rs[i].kind = "invoice" /\ rs2[i].about = rs[i].about
    BY <1>3
  <2>2. /\ rs[i].about \in 1..n
        /\ rs[rs[i].about].store = rs[i].store /\ rs[rs[i].about].user = rs[i].user
    BY <2>1 DEF RowsFine
  <2> QED BY <2>1, <2>2
<1>4. ASSUME NEW i \in 1..n, NEW k \in 1..n,
             rs2[i].kind = "invoice", rs2[k].kind = "invoice", rs2[i].about = rs2[k].about
      PROVE  i = k
  BY <1>4 DEF RowsFine
<1>5. ASSUME NEW i \in 1..n, rs2[i].user \in Phones \ new[rs2[i].store]
      PROVE  Foreign(rs2[i])
  <2>1. Foreign(rs[i])
    BY <1>5 DEF RowsFine
  <2> QED BY <2>1
<1> QED BY <1>1, <1>3, <1>4, <1>5 DEF RowsFine

-----------------------------------------------------------------------------
(* Operations on rows                                                      *)

LEMMA AccountsAreKept ==
  ASSUME CustomerInv, UNCHANGED <<users, identityOf, phoneOf, logins, alliance, cancelled>>
  PROVE  AccountsTyped' /\ NewCounted'
BY DEF CustomerInv, AccountsTyped, NewCounted

LEMMA NamedUsers ==
  ASSUME CustomerInv, NEW n \in 1..Len(rows)
  PROVE  /\ rows[n] \in Row /\ rows[n].store \in Stores /\ rows[n].user \in Named
         /\ users[rows[n].store] \subseteq Phones
<1>1. rows[n] \in Row
  BY DEF CustomerInv, RowsFine
<1> QED BY <1>1 DEF Row, CustomerInv, AccountsTyped

LEMMA RowOf ==
  ASSUME CustomerInv, NEW kind \in {"payment", "invoice", "ledger", "audit"}, NEW m \in Stores,
         NEW u \in Named, NEW about \in Nat,
         NEW status \in {"PENDING", "PAID", "ISSUED", "SUCCESS", "FAILED"}, NEW wallet \in Stores,
         u \in Phones \ users[m] => kind = "audit" \/ wallet # m
  PROVE  LET row == rowOf(kind, m, u, about, status, wallet)
         IN  /\ row \in Row /\ row.kind = kind /\ row.store = m /\ row.user = u /\ row.about = about
             /\ row.user \in Phones \ users[row.store] => Foreign(row)
<1> DEFINE row == rowOf(kind, m, u, about, status, wallet)
<1>1. /\ row.kind = kind /\ row.store = m /\ row.user = u /\ row.about = about
      /\ row.status = status /\ row.wallet = wallet
  BY DEF rowOf
<1>2. row.home = (u \in users[m])
  BY DEF rowOf
<1>3. (u \in users[m]) \in BOOLEAN
  OBVIOUS
<1>4. row \in Row
  BY <1>3, Zenon DEF rowOf, Row
<1>5. ASSUME u \in Phones \ users[m] PROVE Foreign(row)
  <2>1. ~row.home
    BY <1>2, <1>5
  <2>2. row.kind = "audit" \/ row.wallet # row.store
    BY <1>1, <1>5
  <2> QED BY <2>1, <2>2 DEF Foreign
<1>6. row.user \in Phones \ users[row.store] => Foreign(row)
  BY <1>1, <1>5
<1> QED BY <1>1, <1>4, <1>6

LEMMA WalletsAreStores ==
  ASSUME CustomerInv, NEW m \in Stores
  PROVE  resolveWalletScope(m) \in Stores /\ users[resolveWalletScope(m)] \subseteq Phones
<1>1. alliance[m].first \in Stores /\ users \in [Stores -> SUBSET Phones]
  BY DEF CustomerInv, AccountsTyped
<1>2. resolveWalletScope(m) = alliance[m].first \/ resolveWalletScope(m) = m
  BY Zenon DEF resolveWalletScope
<1> QED BY <1>1, <1>2

LEMMA RowsTyped ==
  ASSUME CustomerInv
  PROVE  /\ users \in [Stores -> SUBSET Phones] /\ RowsFine(rows, users) /\ rows \in Seq(Row)
         /\ DOMAIN rows = 1..Len(rows) /\ Len(rows) \in Nat
         /\ \A k \in 1..Len(rows) : rows[k] \in Row
<1>1. users \in [Stores -> SUBSET Phones] /\ RowsFine(rows, users) /\ rows \in Seq(Row)
  BY DEF CustomerInv, AccountsTyped, RowsFine
<1> QED BY <1>1

LEMMA CreateIntentKeeps ==
  ASSUME CustomerInv, NEW m \in Stores, NEW u \in Phones, createIntent(m, u)
  PROVE  CustomerInv'
<1> DEFINE wallet == resolveWalletScope(m)
<1>1. /\ u \in users[wallet]
      /\ UNCHANGED <<users, profile, identityOf, phoneOf, logins, alliance, cancelled, ops>>
  BY DEF createIntent
<1>2. PICK status \in {"PENDING", "PAID"} :
        rows' = rows \o <<rowOf("payment", m, u, 0, status, wallet),
                          rowOf("ledger", m, u, Len(rows) + 1, status, wallet)>>
  BY DEF createIntent
<1>3. wallet \in Stores
  BY WalletsAreStores
<1>4. u \in Named /\ (u \in Phones \ users[m] => wallet # m)
  BY <1>1 DEF Named
<1>5. Len(rows) + 1 \in Nat /\ 0 \in Nat
  BY RowsTyped
<1> DEFINE payment == rowOf("payment", m, u, 0, status, wallet)
           entry == rowOf("ledger", m, u, Len(rows) + 1, status, wallet)
<1>6. /\ payment \in Row /\ payment.kind = "payment"
      /\ payment.user \in Phones \ users[payment.store] => Foreign(payment)
  BY <1>3, <1>4, <1>5, RowOf
<1>7. /\ entry \in Row /\ entry.kind = "ledger"
      /\ entry.user \in Phones \ users[entry.store] => Foreign(entry)
  BY <1>3, <1>4, <1>5, RowOf
<1>8. rows' = rows \o <<payment, entry>>
  BY <1>2
<1> HIDE DEF payment, entry, wallet
<1>9. RowsFine(Append(rows, payment), users)
  BY <1>6, RowsTyped, AddRow
<1>10. RowsFine(Append(Append(rows, payment), entry), users)
  BY <1>7, <1>9, RowsTyped, AddRow
<1>11. rows' = Append(Append(rows, payment), entry)
  BY <1>6, <1>7, <1>8, RowsTyped
<1> QED BY <1>1, <1>10, <1>11, AccountsAreKept DEF CustomerInv

LEMMA AuditKeeps ==
  ASSUME CustomerInv, NEW m \in Stores, NEW u \in Phones, NEW status \in {"SUCCESS", "FAILED"},
         rows' = Append(rows, auditRow(m, u, status)),
         UNCHANGED <<users, profile, identityOf, phoneOf, logins, alliance, cancelled>>
  PROVE  CustomerInv'
<1> DEFINE audited == rowOf("audit", m, u, 0, status, m)
<1>1. u \in Named /\ 0 \in Nat
  BY DEF Named
<1>2. /\ audited \in Row /\ audited.kind = "audit"
      /\ audited.user \in Phones \ users[audited.store] => Foreign(audited)
  BY <1>1, RowOf
<1>3. rows' = Append(rows, audited)
  BY DEF auditRow
<1> HIDE DEF audited
<1>4. RowsFine(Append(rows, audited), users)
  BY <1>2, RowsTyped, AddRow
<1> QED BY <1>3, <1>4, AccountsAreKept DEF CustomerInv

LEMMA ConfirmKeeps ==
  ASSUME CustomerInv, NEW n \in DOMAIN rows, confirmPayment(n)
  PROVE  CustomerInv'
<1> DEFINE paid == [rows EXCEPT ![n].status = "PAID"]
           m == rows[n].store
           wallet == resolveWalletScope(m)
           entry == rowOf("ledger", m, rows[n].user, n, "PAID", wallet)
<1>1. /\ rows[n].user \in users[wallet]
      /\ rows' = Append(paid, entry)
      /\ UNCHANGED <<users, profile, identityOf, phoneOf, logins, alliance, cancelled, ops>>
  BY DEF confirmPayment
<1>2. users \in [Stores -> SUBSET Phones] /\ RowsFine(rows, users) /\ rows \in Seq(Row)
  BY RowsTyped
<1>3. n \in 1..Len(rows) /\ DOMAIN rows = 1..Len(rows) /\ n \in Nat
  BY RowsTyped
<1>4. \A k \in 1..Len(rows) : rows[k] \in Row
  BY RowsTyped
<1>5. /\ paid \in Seq(Row) /\ Len(paid) = Len(rows)
      /\ \A k \in 1..Len(rows) :
           /\ paid[k].kind = rows[k].kind /\ paid[k].store = rows[k].store
           /\ paid[k].about = rows[k].about /\ paid[k].user = rows[k].user
           /\ Foreign(rows[k]) => Foreign(paid[k])
  <2> DEFINE settled == [rows[n] EXCEPT !.status = "PAID"]
  <2>1. rows[n] \in Row
    BY <1>3, <1>4
  <2>2. /\ settled.kind = rows[n].kind /\ settled.store = rows[n].store
        /\ settled.about = rows[n].about /\ settled.user = rows[n].user
        /\ settled.wallet = rows[n].wallet
    BY <2>1 DEF Row
  <2>3. settled.home = rows[n].home
    BY <2>1, Zenon DEF Row
  <2>4. settled \in Row
    <3>1. rows[n].home \in BOOLEAN
      BY <2>1, Zenon DEF Row
    <3> QED BY <2>1, <3>1 DEF Row
  <2>5. Foreign(rows[n]) => Foreign(settled)
    BY <2>2, <2>3 DEF Foreign
  <2> HIDE DEF settled
  <2>6. paid \in Seq(Row) /\ Len(paid) = Len(rows)
    BY <1>2, <1>3, <2>4 DEF settled
  <2>7. ASSUME NEW k \in 1..Len(rows)
        PROVE  paid[k] = IF k = n THEN settled ELSE rows[k]
    BY <1>2, <1>3 DEF settled
  <2> HIDE DEF paid
  <2> QED BY <2>2, <2>5, <2>6, <2>7
<1>6. /\ entry \in Row /\ entry.kind = "ledger"
      /\ entry.user \in Phones \ users[entry.store] => Foreign(entry)
  <2>1. m \in Stores /\ rows[n].user \in Named
    BY <1>3, NamedUsers
  <2>2. wallet \in Stores
    BY <2>1, WalletsAreStores
  <2>3. rows[n].user \in Phones \ users[m] => wallet # m
    BY <1>1
  <2> HIDE DEF m, wallet
  <2> QED BY <1>3, <2>1, <2>2, <2>3, RowOf
<1> HIDE DEF paid, entry
<1>7. RowsFine(paid, users)
  <2>1. \A k \in 1..Len(rows) : paid[k].user \in Phones \ users[paid[k].store] =>
          paid[k].user = rows[k].user /\ rows[k].user \in Phones \ users[rows[k].store]
    BY <1>5
  <2>2. \A k, l \in 1..Len(rows) :
          rows[k].store = rows[l].store /\ rows[k].user = rows[l].user => paid[k].user = paid[l].user
    BY <1>5
  <2> QED BY <1>2, <1>5, <2>1, <2>2, RowsRenamed, SMTT(30)
<1>8. RowsFine(Append(paid, entry), users)
  BY <1>2, <1>6, <1>7, AddRow
<1> QED BY <1>1, <1>8, AccountsAreKept DEF CustomerInv

LEMMA IssueInvoiceKeeps ==
  ASSUME CustomerInv, NEW n \in DOMAIN rows, issueInvoice(n)
  PROVE  CustomerInv'
<1> DEFINE entry == rowOf("invoice", rows[n].store, rows[n].user, n, "ISSUED", rows[n].wallet)
<1>1. /\ rows[n].kind = "payment" /\ InvoicesOf(n) = {} /\ rows' = Append(rows, entry)
      /\ UNCHANGED <<users, profile, identityOf, phoneOf, logins, alliance, cancelled, ops>>
  BY DEF issueInvoice, invoiceRow
<1>2. users \in [Stores -> SUBSET Phones] /\ RowsFine(rows, users) /\ rows \in Seq(Row)
  BY RowsTyped
<1>3. n \in 1..Len(rows) /\ DOMAIN rows = 1..Len(rows) /\ n \in Nat
  BY RowsTyped
<1>4. rows[n].store \in Stores /\ rows[n].user \in Named /\ rows[n].wallet \in Stores
  <2>1. rows[n] \in Row
    BY <1>3, RowsTyped
  <2> QED BY <2>1 DEF Row
<1>5. rows[n].user \in Phones \ users[rows[n].store] => rows[n].wallet # rows[n].store
  BY <1>1, <1>2, <1>3 DEF RowsFine, Foreign
<1>6. /\ entry \in Row /\ entry.kind = "invoice" /\ entry.about = n
      /\ entry.store = rows[n].store /\ entry.user = rows[n].user
      /\ entry.user \in Phones \ users[entry.store] => Foreign(entry)
  BY <1>3, <1>4, <1>5, RowOf
<1>7. \A k \in 1..Len(rows) : ~(rows[k].kind = "invoice" /\ rows[k].about = n)
  BY <1>1, <1>3 DEF InvoicesOf
<1> HIDE DEF entry
<1>8. RowsFine(Append(rows, entry), users)
  BY <1>2, <1>3, <1>6, <1>7, AddRow
<1> QED BY <1>1, <1>8, AccountsAreKept DEF CustomerInv

LEMMA CancelKeeps ==
  ASSUME CustomerInv, NEW m \in Stores, NEW u \in Phones, cancelUserAccount(m, u)
  PROVE  CustomerInv'
<1> DEFINE renamed == [n \in DOMAIN rows |-> replaceUserRef(rows[n], m, u)]
           left == [users EXCEPT ![m] = @ \ {u}]
<1>1. /\ u \in users[m] /\ rows' = renamed /\ users' = left
      /\ cancelled' = [cancelled EXCEPT ![m][u] = @ + 1]
      /\ UNCHANGED <<profile, identityOf, phoneOf, logins, alliance>>
  BY DEF cancelUserAccount
<1>2. /\ users \in [Stores -> SUBSET Phones] /\ RowsFine(rows, users) /\ rows \in Seq(Row)
      /\ cancelled \in [Stores -> [Phones -> Nat]]
  BY DEF CustomerInv, AccountsTyped, RowsFine
<1>3. u \in Phones /\ buildDeletedAlias(u) \in Named /\ buildDeletedAlias(u) \notin Phones
  BY <1>2, CustomerAssumption DEF Named
<1>4. DOMAIN rows = 1..Len(rows) /\ Len(rows) \in Nat /\ \A k \in 1..Len(rows) : rows[k] \in Row
  BY <1>2
<1>5. /\ left \in [Stores -> SUBSET Phones] /\ left[m] = users[m] \ {u}
      /\ \A s \in Stores \ {m} : left[s] = users[s]
  BY <1>2
<1>6. ASSUME NEW k \in 1..Len(rows)
      PROVE  /\ renamed[k] \in Row
             /\ renamed[k].kind = rows[k].kind /\ renamed[k].store = rows[k].store
             /\ renamed[k].about = rows[k].about /\ (Foreign(rows[k]) => Foreign(renamed[k]))
             /\ renamed[k].user = IF rows[k].store = m /\ rows[k].user = u
                                  THEN buildDeletedAlias(u) ELSE rows[k].user
  <2>1. rows[k] \in Row /\ renamed[k] = replaceUserRef(rows[k], m, u)
    BY <1>4
  <2> DEFINE aliased == [rows[k] EXCEPT !.user = buildDeletedAlias(u)]
  <2>2. /\ aliased.kind = rows[k].kind /\ aliased.store = rows[k].store
        /\ aliased.about = rows[k].about /\ aliased.user = buildDeletedAlias(u)
        /\ aliased.wallet = rows[k].wallet
    BY <2>1 DEF Row
  <2>3. aliased.home = rows[k].home
    BY <2>1, Zenon DEF Row
  <2>4. aliased \in Row
    <3>1. rows[k].home \in BOOLEAN
      BY <2>1, Zenon DEF Row
    <3> QED BY <1>3, <2>1, <3>1 DEF Row
  <2>5. Foreign(rows[k]) => Foreign(aliased)
    BY <2>2, <2>3 DEF Foreign
  <2>6. renamed[k] = IF rows[k].store = m /\ rows[k].user = u THEN aliased ELSE rows[k]
    BY <2>1 DEF replaceUserRef
  <2> HIDE DEF aliased, renamed
  <2> QED BY <2>1, <2>2, <2>4, <2>5, <2>6
<1>7. renamed \in Seq(Row) /\ Len(renamed) = Len(rows)
  <2>1. renamed \in [1..Len(rows) -> Row]
    BY <1>4, <1>6
  <2> QED BY <1>4, <2>1
<1> HIDE DEF renamed, left
<1>9. RowsFine(renamed, left)
  <2>1. ASSUME NEW k \in 1..Len(rows), renamed[k].user \in Phones \ left[renamed[k].store]
        PROVE  renamed[k].user = rows[k].user /\ rows[k].user \in Phones \ users[rows[k].store]
    <3>1. rows[k].store \in Stores
      BY NamedUsers
    <3>2. ~(rows[k].store = m /\ rows[k].user = u)
      BY <1>3, <1>6, <2>1
    <3>3. renamed[k].user = rows[k].user /\ rows[k].user \in Phones \ left[rows[k].store]
      BY <1>6, <2>1, <3>2
    <3> QED BY <1>5, <3>1, <3>2, <3>3
  <2>2. \A k, l \in 1..Len(rows) :
          rows[k].store = rows[l].store /\ rows[k].user = rows[l].user => renamed[k].user = renamed[l].user
    BY <1>6
  <2>3. \A k \in 1..Len(rows) :
          /\ renamed[k].kind = rows[k].kind /\ renamed[k].store = rows[k].store
          /\ renamed[k].about = rows[k].about
          /\ Foreign(rows[k]) => Foreign(renamed[k])
    BY <1>6
  <2>4. \A k \in 1..Len(rows) : renamed[k].user \in Phones \ left[renamed[k].store] =>
          renamed[k].user = rows[k].user /\ rows[k].user \in Phones \ users[rows[k].store]
    BY <2>1
  <2>5. /\ users \in [Stores -> SUBSET Phones] /\ left \in [Stores -> SUBSET Phones]
        /\ RowsFine(rows, users) /\ renamed \in Seq(Row) /\ Len(renamed) = Len(rows)
    BY <1>2, <1>5, <1>7
  <2> QED BY <2>2, <2>3, <2>4, <2>5, RowsRenamed, SMTT(30)
<1>11. cancelled' \in [Stores -> [Phones -> Nat]] /\ cancelled'[m][u] = cancelled[m][u] + 1
       /\ \A s \in Stores, v \in Phones : s # m \/ v # u => cancelled'[s][v] = cancelled[s][v]
  BY <1>1, <1>2, <1>3
<1>12. AccountsTyped'
  BY <1>1, <1>5, <1>11 DEF CustomerInv, AccountsTyped
<1>13. ASSUME NEW s \in Stores, NEW v \in Phones
       PROVE  Cardinality(NewTo(logins', s, v)) <= cancelled'[s][v] + (IF v \in users'[s] THEN 1 ELSE 0)
  <2> DEFINE count == Cardinality(NewTo(logins, s, v))
  <2>1. count <= cancelled[s][v] + (IF v \in users[s] THEN 1 ELSE 0) /\ logins' = logins
        /\ cancelled[s][v] \in Nat
    BY <1>1, <1>2 DEF CustomerInv, NewCounted
  <2> HIDE DEF count
  <2>2. count <= cancelled'[s][v] + (IF v \in users'[s] THEN 1 ELSE 0)
    <3>1. CASE s = m /\ v = u
      BY <1>1, <1>5, <1>11, <2>1, <3>1
    <3>2. CASE s # m \/ v # u
      BY <1>1, <1>5, <1>11, <2>1, <3>2
    <3> QED BY <3>1, <3>2
  <2> QED BY <2>1, <2>2 DEF count
<1> QED BY <1>1, <1>9, <1>12, <1>13 DEF CustomerInv, NewCounted

-----------------------------------------------------------------------------
(* Operations on accounts                                                  *)

LEMMA SyncKeeps ==
  ASSUME CustomerInv, NEW m \in Stores, NEW u \in Phones, syncUserAcrossStores(m, u)
  PROVE  CustomerInv'
<1>1. /\ users' = [s \in Stores |-> IF s \in alliance[m].stores THEN users[s] \cup {u} ELSE users[s]]
      /\ UNCHANGED <<identityOf, phoneOf, rows, logins, alliance, cancelled>>
  BY DEF syncUserAcrossStores
<1>2. users \in [Stores -> SUBSET Phones] /\ RowsFine(rows, users) /\ cancelled \in [Stores -> [Phones -> Nat]]
  BY DEF CustomerInv, AccountsTyped
<1>3. users' \in [Stores -> SUBSET Phones] /\ \A s \in Stores : users[s] \subseteq users'[s]
  BY <1>1, <1>2
<1>4. RowsFine(rows', users')
  BY <1>1, <1>2, <1>3, MoreAccounts
<1>5. AccountsTyped'
  BY <1>1, <1>3 DEF CustomerInv, AccountsTyped
<1>6. ASSUME NEW s \in Stores, NEW v \in Phones
      PROVE  Cardinality(NewTo(logins', s, v)) <= cancelled'[s][v] + (IF v \in users'[s] THEN 1 ELSE 0)
  <2> DEFINE count == Cardinality(NewTo(logins, s, v))
  <2>1. count <= cancelled[s][v] + (IF v \in users[s] THEN 1 ELSE 0) /\ cancelled[s][v] \in Nat
        /\ count \in Nat
    <3>1. IsFiniteSet(1..Len(logins)) /\ NewTo(logins, s, v) \subseteq 1..Len(logins)
      BY FS_Interval DEF NewTo, CustomerInv, AccountsTyped
    <3> QED BY <1>2, <3>1, FS_Subset, FS_CardinalityType DEF CustomerInv, NewCounted
  <2>2. (v \in users[s] => v \in users'[s]) /\ logins' = logins /\ cancelled' = cancelled
    BY <1>1, <1>3
  <2> HIDE DEF count
  <2>3. count <= cancelled'[s][v] + (IF v \in users'[s] THEN 1 ELSE 0)
    BY <2>1, <2>2
  <2> QED BY <2>2, <2>3 DEF count
<1> QED BY <1>4, <1>5, <1>6 DEF CustomerInv, NewCounted

LEMMA AllianceKeeps ==
  ASSUME CustomerInv, NEW m \in Stores, NEW s \in SUBSET Stores, NEW shared \in BOOLEAN,
         setAllianceConfig(m, s, shared)
  PROVE  CustomerInv'
<1> DEFINE Config == [stores : SUBSET Stores, first : Stores, shared : BOOLEAN]
<1>1. UNCHANGED <<users, identityOf, phoneOf, rows, logins, cancelled>>
  BY DEF setAllianceConfig
<1>2. alliance \in [Stores -> Config] /\ \A t \in Stores : alliance[t].first \in alliance[t].stores
  BY DEF CustomerInv, AccountsTyped
<1>3. ASSUME NEW config \in Config, config.first \in config.stores,
             alliance' = [alliance EXCEPT ![m] = config]
      PROVE  CustomerInv'
  <2>1. alliance' \in [Stores -> Config]
    BY <1>2, <1>3
  <2>2. \A t \in Stores : alliance'[t] = IF t = m THEN config ELSE alliance[t]
    BY <1>2, <1>3
  <2>3. \A t \in Stores : alliance'[t].first \in alliance'[t].stores
    BY <1>2, <1>3, <2>2
  <2>4. AccountsTyped'
    BY <1>1, <2>1, <2>3 DEF CustomerInv, AccountsTyped
  <2>5. NewCounted' /\ RowsFine(rows', users')
    BY <1>1 DEF CustomerInv, NewCounted
  <2> QED BY <2>4, <2>5 DEF CustomerInv
<1>4. CASE alliance' = [alliance EXCEPT ![m].shared = shared]
  <2> DEFINE config == [alliance[m] EXCEPT !.shared = shared]
  <2>1. alliance[m] \in Config
    BY <1>2
  <2>2. config \in Config /\ config.first = alliance[m].first /\ config.stores = alliance[m].stores
    BY <2>1
  <2>3. alliance' = [alliance EXCEPT ![m] = config]
    BY <1>4
  <2> HIDE DEF config, Config
  <2> QED BY <1>2, <1>3, <2>2, <2>3
<1>5. ASSUME NEW first \in s,
             alliance' = [alliance EXCEPT ![m] = [stores |-> s, first |-> first, shared |-> shared]]
      PROVE  CustomerInv'
  <2> DEFINE config == [stores |-> s, first |-> first, shared |-> shared]
  <2>1. config \in Config /\ config.first \in config.stores
    OBVIOUS
  <2>2. alliance' = [alliance EXCEPT ![m] = config]
    BY <1>5
  <2> HIDE DEF config, Config
  <2> QED BY <1>3, <2>1, <2>2
<1> QED BY <1>4, <1>5 DEF setAllianceConfig

LEMMA DecisionKeeps ==
  ASSUME CustomerInv, NEW n \in DOMAIN logins, executeEntryDecision(n)
  PROVE  CustomerInv'
<1>1. PICK outcome \in {"NO_POLICY", "ERROR"} : logins' = [logins EXCEPT ![n].outcome = outcome]
  BY DEF executeEntryDecision
<1>2. UNCHANGED <<users, identityOf, phoneOf, rows, alliance, cancelled>>
  BY DEF executeEntryDecision
<1>3. logins \in Seq(Login) /\ n \in 1..Len(logins)
  BY DEF CustomerInv, AccountsTyped
<1>4. [logins[n] EXCEPT !.outcome = outcome] \in Login
  <2>1. logins[n] \in Login
    BY <1>3
  <2> QED BY <2>1 DEF Login
<1>5. /\ logins' \in Seq(Login) /\ Len(logins') = Len(logins)
      /\ \A k \in 1..Len(logins) : logins'[k] = IF k = n THEN [logins[n] EXCEPT !.outcome = outcome] ELSE logins[k]
  BY <1>1, <1>3, <1>4
<1>6. \A k \in 1..Len(logins) : /\ logins'[k].store = logins[k].store /\ logins'[k].user = logins[k].user
                                /\ logins'[k].created = logins[k].created
  <2>1. \A k \in 1..Len(logins) : logins[k] \in Login
    BY <1>3
  <2> QED BY <1>5, <2>1 DEF Login
<1>7. \A m, u : NewTo(logins', m, u) = NewTo(logins, m, u)
  BY <1>5, <1>6 DEF NewTo
<1>8. AccountsTyped'
  BY <1>2, <1>5 DEF CustomerInv, AccountsTyped
<1>9. NewCounted' /\ RowsFine(rows', users')
  BY <1>2, <1>7 DEF CustomerInv, NewCounted
<1> QED BY <1>8, <1>9 DEF CustomerInv

LEMMA BindKeeps ==
  ASSUME CustomerInv, NEW m \in Stores, NEW i \in Identities, NEW p \in Phones, NEW name \in BOOLEAN,
         bindCustomerPhoneIdentity(m, i, p, name), UNCHANGED <<rows, alliance, owed, cancelled, ops>>
  PROVE  CustomerInv'
<1> DEFINE bound == Live(m, identityOf[m][i]) \cup Live(m, phoneOf[m][p])
           candidates == IF bound = {} THEN {p} ELSE bound
           user == CHOOSE u \in candidates : TRUE
           created == user \notin users[m]
           login == [store |-> m, user |-> user, created |-> created, outcome |-> "PENDING"]
<1>1. /\ users' = [users EXCEPT ![m] = @ \cup {user}]
      /\ identityOf' = [identityOf EXCEPT ![m][i] = user]
      /\ phoneOf' = [phoneOf EXCEPT ![m][p] = user]
      /\ logins' = Append(logins, login)
      /\ UNCHANGED <<rows, alliance, cancelled>>
  BY DEF bindCustomerPhoneIdentity
<1>2. /\ users \in [Stores -> SUBSET Phones] /\ RowsFine(rows, users) /\ logins \in Seq(Login)
      /\ cancelled \in [Stores -> [Phones -> Nat]]
  BY DEF CustomerInv, AccountsTyped
<1>3. user \in Phones
  <2>1. candidates \subseteq Phones
    BY <1>2 DEF Live
  <2>2. \E u \in candidates : TRUE
    OBVIOUS
  <2>3. user \in candidates
    BY <2>2
  <2> QED BY <2>1, <2>3
<1>4. login \in Login
  BY <1>3 DEF Login
<1>5. login.store = m /\ login.user = user /\ (login.created <=> user \notin users[m])
  OBVIOUS
<1> HIDE DEF user, login
<1>6. /\ users' \in [Stores -> SUBSET Phones] /\ users'[m] = users[m] \cup {user}
      /\ \A s \in Stores : s # m => users'[s] = users[s]
  BY <1>1, <1>2, <1>3
<1>7. RowsFine(rows', users')
  <2>1. \A s \in Stores : users[s] \subseteq users'[s]
    BY <1>6
  <2>2. users \in [Stores -> SUBSET Phones] /\ users' \in [Stores -> SUBSET Phones] /\ RowsFine(rows, users)
    BY <1>2, <1>6
  <2>3. RowsFine(rows, users')
    BY <2>1, <2>2, MoreAccounts
  <2> QED BY <1>1, <2>3
<1> DEFINE n == Len(logins)
<1>8. /\ n \in Nat /\ logins' \in Seq(Login) /\ Len(logins') = n + 1 /\ logins'[n + 1] = login
      /\ \A k \in 1..n : logins'[k] = logins[k]
  BY <1>1, <1>2, <1>4
<1>9. AccountsTyped'
  <2>1. identityOf' \in [Stores -> [Identities -> Phones \cup {NoUser}]]
    BY <1>1, <1>3 DEF CustomerInv, AccountsTyped
  <2>2. phoneOf' \in [Stores -> [Phones -> Phones \cup {NoUser}]]
    BY <1>1, <1>3 DEF CustomerInv, AccountsTyped
  <2> QED BY <1>1, <1>6, <1>8, <2>1, <2>2 DEF CustomerInv, AccountsTyped
<1> HIDE DEF n
<1>10. ASSUME NEW s \in Stores, NEW v \in Phones
       PROVE  Cardinality(NewTo(logins', s, v)) <= cancelled'[s][v] + (IF v \in users'[s] THEN 1 ELSE 0)
  <2> DEFINE old == NewTo(logins, s, v)
             count == Cardinality(old)
  <2>1. IsFiniteSet(old) /\ count \in Nat
    <3>1. IsFiniteSet(1..n) /\ old \subseteq 1..n
      BY <1>8, FS_Interval DEF NewTo, n
    <3> QED BY <3>1, FS_Subset, FS_CardinalityType
  <2>2. count <= cancelled[s][v] + (IF v \in users[s] THEN 1 ELSE 0) /\ cancelled[s][v] \in Nat
    BY <1>2 DEF CustomerInv, NewCounted
  <2>3. n + 1 \notin old
    BY <1>8 DEF NewTo, n
  <2>4. NewTo(logins', s, v) =
          IF s = m /\ v = user /\ user \notin users[m] THEN old \cup {n + 1} ELSE old
    <3>1. \A k \in 1..n + 1 : k \in 1..n \/ k = n + 1
      BY <1>8
    <3>2. 1..n \subseteq 1..n + 1 /\ n + 1 \in 1..n + 1
      BY <1>8
    <3>3. old = {k \in 1..n : logins[k].store = s /\ logins[k].user = v /\ logins[k].created}
      BY DEF NewTo, n
    <3>4. NewTo(logins', s, v) =
            {k \in 1..n + 1 : logins'[k].store = s /\ logins'[k].user = v /\ logins'[k].created}
      BY <1>8 DEF NewTo
    <3> HIDE DEF old
    <3> QED BY <1>5, <1>8, <3>1, <3>2, <3>3, <3>4
  <2>5. cancelled' = cancelled
    BY <1>1
  <2>6. CASE s = m /\ v = user /\ user \notin users[m]
    <3>1. Cardinality(old \cup {n + 1}) = count + 1
      BY <2>1, <2>3, FS_AddElement
    <3> HIDE DEF count, old
    <3> QED BY <1>6, <2>1, <2>2, <2>4, <2>5, <2>6, <3>1
  <2>7. CASE ~(s = m /\ v = user /\ user \notin users[m])
    <3>1. v \in users[s] => v \in users'[s]
      BY <1>6
    <3>2. Cardinality(NewTo(logins', s, v)) = count
      BY <2>4, <2>7
    <3> HIDE DEF count, old
    <3> QED BY <2>1, <2>2, <2>5, <3>1, <3>2
  <2> QED BY <2>6, <2>7
<1> QED BY <1>7, <1>9, <1>10 DEF CustomerInv, NewCounted

LEMMA CustomerLoginKeeps ==
  ASSUME CustomerInv, NEW m \in Stores,
         (\E i \in WeChat : wechatLogin(m, i)) \/ (\E i \in Alipay : alipayLogin(m, i))
  PROVE  CustomerInv'
<1>1. ASSUME NEW i \in Identities, NEW identity, identity = [subject |-> i, phone |-> ProviderPhone[i]],
             customerLogin(m, identity)
      PROVE  CustomerInv'
  <2>0. PICK asked \in {{}} \cup {{p} : p \in Phones}, name \in BOOLEAN :
          \E p \in resolvedPhone(asked, identity) : bindCustomerPhoneIdentity(m, identity.subject, p, name)
    BY <1>1 DEF customerLogin
  <2>1. PICK p \in resolvedPhone(asked, identity) : bindCustomerPhoneIdentity(m, identity.subject, p, name)
    BY <2>0
  <2>2. UNCHANGED <<rows, alliance, owed, cancelled, ops>>
    BY <1>1 DEF customerLogin
  <2>3. identity.subject = i /\ identity.phone = ProviderPhone[i] /\ ProviderPhone[i] \subseteq Phones
    BY <1>1, CustomerAssumption
  <2>4. p \in Phones
    BY <2>1, <2>3 DEF resolvedPhone
  <2>5. bindCustomerPhoneIdentity(m, i, p, name)
    BY <2>1, <2>3
  <2> QED BY <2>2, <2>4, <2>5, BindKeeps
<1>2. ASSUME NEW i \in WeChat, wechatLogin(m, i)
      PROVE  CustomerInv'
  <2>1. i \in Identities /\ customerLogin(m, [subject |-> i, phone |-> ProviderPhone[i]])
    BY <1>2 DEF wechatLogin, verifyWeChatMiniAppCode, Identities
  <2> QED BY <1>1, <2>1
<1>3. ASSUME NEW i \in Alipay, alipayLogin(m, i)
      PROVE  CustomerInv'
  <2>1. i \in Identities /\ customerLogin(m, [subject |-> i, phone |-> ProviderPhone[i]])
    BY <1>3 DEF alipayLogin, verifyAlipayCode, Identities
  <2> QED BY <1>1, <2>1
<1> QED BY <1>2, <1>3

LEMMA CustomerStep == CustomerInv /\ [CustomerNext]_cvars => CustomerInv'
<1> SUFFICES ASSUME CustomerInv, [CustomerNext]_cvars PROVE CustomerInv'
  OBVIOUS
<1>1. CASE UNCHANGED cvars
  <2>1. UNCHANGED <<users, identityOf, phoneOf, logins, alliance, cancelled>> /\ UNCHANGED rows
    BY <1>1 DEF cvars
  <2>2. RowsFine(rows', users')
    BY <2>1 DEF CustomerInv
  <2> QED BY <2>1, <2>2, AccountsAreKept DEF CustomerInv
<1>2. ASSUME NEW m \in Stores, NEW u \in Phones, deleteUserData(m, u)
      PROVE  CustomerInv'
  <2>1. UNCHANGED <<users, identityOf, phoneOf, logins, alliance, cancelled>> /\ UNCHANGED rows
    BY <1>2 DEF deleteUserData
  <2>2. RowsFine(rows', users')
    BY <2>1 DEF CustomerInv
  <2> QED BY <2>1, <2>2, AccountsAreKept DEF CustomerInv
<1>3. ASSUME NEW m \in Stores, NEW u \in Phones, auditDone(m, u) \/ auditCall(m, u)
      PROVE  CustomerInv'
  <2>1. UNCHANGED <<users, profile, identityOf, phoneOf, logins, alliance, cancelled>>
    BY <1>3 DEF auditDone, auditCall
  <2>2. \E status \in {"SUCCESS", "FAILED"} : rows' = Append(rows, auditRow(m, u, status))
    BY <1>3 DEF auditDone, auditCall
  <2> QED BY <2>1, <2>2, AuditKeeps
<1>4. CASE CustomerNext
  BY <1>2, <1>3, <1>4, CustomerLoginKeeps, DecisionKeeps, ConfirmKeeps, IssueInvoiceKeeps,
     CreateIntentKeeps, CancelKeeps, SyncKeeps, AllianceKeeps DEF CustomerNext
<1> QED BY <1>1, <1>4

LEMMA CustomerInvGives == CustomerInv => CustomersInvariant
<1> SUFFICES ASSUME CustomerInv PROVE CustomersInvariant
  OBVIOUS
<1>0. /\ DOMAIN rows = 1..Len(rows) /\ DOMAIN logins = 1..Len(logins)
      /\ \A n \in 1..Len(rows) : rows[n].user \in Named
  <2>1. rows \in Seq(Row) /\ logins \in Seq(Login)
    BY DEF CustomerInv, RowsFine, AccountsTyped
  <2> QED BY <2>1, NamedUsers
<1>1. CustomerTypeOK
  BY <1>0 DEF CustomerTypeOK, CustomerInv, AccountsTyped, Named
<1>2. RowsNameAccounts
  <2>1. ASSUME NEW m \in Stores, NEW u \in Phones \ users[m], NEW n \in DOMAIN rows,
               rows[n].store = m, rows[n].user = u
        PROVE  ~rows[n].home /\ (rows[n].kind = "audit" \/ rows[n].wallet # m)
    <3>1. RowsFine(rows, users) /\ n \in 1..Len(rows) /\ rows[n].user \in Phones \ users[rows[n].store]
      BY <1>0, <2>1 DEF CustomerInv
    <3>2. Foreign(rows[n])
      BY <3>1 DEF RowsFine
    <3> QED BY <2>1, <3>2 DEF Foreign
  <2> QED BY <2>1 DEF RowsNameAccounts, exportUserData
<1>3. InvoiceFollowsPayment
  <2>1. ASSUME NEW n \in PaymentsOf
        PROVE  /\ AtMostOne(InvoicesOf(n))
               /\ InvoicesOf(n) \subseteq exportUserData(rows[n].store, rows[n].user)
    <3>1. ASSUME NEW k \in InvoicesOf(n)
          PROVE  /\ k \in 1..Len(rows) /\ rows[k].kind = "invoice" /\ rows[k].about = n
                 /\ rows[n].store = rows[k].store /\ rows[n].user = rows[k].user
      <4>1. k \in 1..Len(rows) /\ rows[k].kind = "invoice" /\ rows[k].about = n
        BY <1>0 DEF InvoicesOf
      <4> QED BY <4>1 DEF CustomerInv, RowsFine
    <3>2. AtMostOne(InvoicesOf(n))
      BY <3>1 DEF AtMostOne, CustomerInv, RowsFine
    <3>3. InvoicesOf(n) \subseteq exportUserData(rows[n].store, rows[n].user)
      BY <1>0, <3>1 DEF exportUserData
    <3> QED BY <3>2, <3>3
  <2>2. ASSUME NEW n \in PaymentsOf
        PROVE  Cardinality(InvoicesOf(n)) <= 1
    <3>1. Cardinality(InvoicesOf(n)) \in 0..1
      BY <2>1, AtMostOneCounts
    <3> QED BY <3>1
  <2> QED BY <2>1, <2>2 DEF InvoiceFollowsPayment
<1>4. NewOncePerAccount
  <2>1. ASSUME NEW m \in Stores, NEW u \in Phones
        PROVE  Cardinality({n \in DOMAIN logins : logins[n].store = m /\ logins[n].user = u /\ logins[n].created})
               <= cancelled[m][u] + 1
    <3>1. {n \in DOMAIN logins : logins[n].store = m /\ logins[n].user = u /\ logins[n].created}
          = NewTo(logins, m, u)
      BY <1>0 DEF NewTo
    <3> DEFINE count == Cardinality(NewTo(logins, m, u))
    <3>2. /\ count <= cancelled[m][u] + (IF u \in users[m] THEN 1 ELSE 0) /\ cancelled[m][u] \in Nat
          /\ count \in Nat
      <4>1. IsFiniteSet(1..Len(logins)) /\ NewTo(logins, m, u) \subseteq 1..Len(logins)
        BY FS_Interval DEF NewTo, CustomerInv, AccountsTyped
      <4> QED BY <4>1, FS_Subset, FS_CardinalityType DEF CustomerInv, NewCounted, AccountsTyped
    <3> HIDE DEF count
    <3>3. count <= cancelled[m][u] + 1
      BY <3>2
    <3> QED BY <3>1, <3>3 DEF count
  <2> QED BY <2>1 DEF NewOncePerAccount
<1> QED BY <1>1, <1>2, <1>3, <1>4 DEF CustomersInvariant

(* bindCustomerPhoneIdentity, issueInvoice, cancelUserAccount and           *)
(* syncUserAcrossStores: whatever logins, payments, invoices, deletions,    *)
(* cancellations, calls of customers who have cancelled, shared wallets and *)
(* copies do in any number of stores, no row written while a user had an    *)
(* account names him after it has gone, what names him then is audited or   *)
(* paid elsewhere, an invoice names whom its payment names, and an account  *)
(* is new to one login for each time it was created.                        *)
THEOREM CustomersInvariantHolds == CustomerSpec => []CustomersInvariant
<1>1. CustomerInit => CustomerInv BY CustomerStarts
<1>2. CustomerInv /\ [CustomerNext]_cvars => CustomerInv' BY CustomerStep
<1>3. CustomerInv => CustomersInvariant BY CustomerInvGives
<1> QED BY <1>1, <1>2, <1>3, PTL DEF CustomerSpec

(***************************************************************************)
(* Part 4: the facts of an entry.                                          *)
(*                                                                         *)
(* The days are walked back by a recursive function.  Whatever function    *)
(* satisfies the recursion, its value at a day is the length of the run of *)
(* days that ends there (WalkIsRun), and there is such a function, because *)
(* every run has a length (RunExists).  The days of the page that was read *)
(* are the newest: no day left out of it is later than one of it.          *)
(***************************************************************************)
Run(days, d, n) == /\ n \in Nat /\ n <= d + 1 /\ d - n \notin days
                   /\ \A k \in Nat : k < n => d - k \in days
Walk(back, days, top) == back = [d \in -1..top |-> IF d \in days THEN 1 + back[d - 1] ELSE 0]

LEMMA RunExists ==
  ASSUME NEW days \in SUBSET Nat, NEW d \in Int, d >= -1
  PROVE  \E n : Run(days, d, n)
<1> DEFINE top == d + 1
           S == {n \in 0..top : d - n \notin days}
<1>1. top \in Nat
  OBVIOUS
<1>2. S \in SUBSET Nat /\ IsFiniteSet(S)
  <2>1. IsFiniteSet(0..top)
    BY <1>1, FS_Interval
  <2>2. S \in SUBSET (0..top) /\ 0..top \in SUBSET Nat
    BY <1>1
  <2> HIDE DEF S, top
  <2> QED BY <2>1, <2>2, FS_Subset
<1>3. top \in S
  <2>1. d - top = -1
    OBVIOUS
  <2>2. -1 \notin days
    OBVIOUS
  <2>3. top \in 0..top
    BY <1>1
  <2> QED BY <2>1, <2>2, <2>3
<1>4. PICK n \in S : \A k \in S : n <= k
  <2> HIDE DEF S
  <2> QED BY <1>2, <1>3, LeastNumber
<1>5. n \in Nat /\ n <= d + 1 /\ d - n \notin days
  OBVIOUS
<1>6. ASSUME NEW k \in Nat, k < n PROVE d - k \in days
  <2>1. k \in 0..top /\ ~(n <= k)
    BY <1>5, <1>6
  <2> QED BY <1>4, <2>1
<1> QED BY <1>5, <1>6 DEF Run

LEMMA RunUnique ==
  ASSUME NEW days, NEW d \in Int, NEW m, NEW n, Run(days, d, m), Run(days, d, n)
  PROVE  m = n
<1>1. m \in Nat /\ n \in Nat /\ ~(m < n) /\ ~(n < m)
  BY DEF Run
<1> QED BY <1>1

LEMMA RunGoesOn ==
  ASSUME NEW days, NEW d \in Int, d >= -1
  PROVE  /\ d \notin days => Run(days, d, 0)
         /\ \A n : d \in days /\ Run(days, d - 1, n) => Run(days, d, n + 1)
<1>1. ASSUME d \notin days PROVE Run(days, d, 0)
  <2>1. d - 0 = d /\ 0 <= d + 1 /\ \A k \in Nat : ~(k < 0)
    OBVIOUS
  <2> QED BY <1>1, <2>1 DEF Run
<1>2. ASSUME NEW n, d \in days, Run(days, d - 1, n) PROVE Run(days, d, n + 1)
  <2>1. /\ n \in Nat /\ n <= (d - 1) + 1 /\ (d - 1) - n \notin days
        /\ \A k \in Nat : k < n => (d - 1) - k \in days
    BY <1>2 DEF Run
  <2>2. n + 1 \in Nat /\ n + 1 <= d + 1 /\ d - (n + 1) = (d - 1) - n
    BY <2>1
  <2>3. ASSUME NEW k \in Nat, k < n + 1 PROVE d - k \in days
    <3>1. CASE k = 0
      BY <1>2, <3>1
    <3>2. CASE k # 0
      <4>1. k - 1 \in Nat /\ k - 1 < n /\ (d - 1) - (k - 1) = d - k
        BY <2>1, <2>3, <3>2
      <4> QED BY <2>1, <4>1
    <3> QED BY <3>1, <3>2
  <2> QED BY <2>1, <2>2, <2>3 DEF Run
<1> QED BY <1>1, <1>2

LEMMA WalkExists ==
  ASSUME NEW days \in SUBSET Nat, NEW top \in Nat
  PROVE  \E back : Walk(back, days, top)
<1> DEFINE Length(d) == CHOOSE n : Run(days, d, n)
           back == [d \in -1..top |-> Length(d)]
<1>1. \A d \in -1..top : d \in Int /\ d >= -1 /\ Run(days, d, Length(d))
  BY RunExists
<1>2. ASSUME NEW d \in -1..top PROVE Length(d) = IF d \in days THEN 1 + back[d - 1] ELSE 0
  <2>1. d \in Int /\ d >= -1 /\ Run(days, d, Length(d))
    BY <1>1
  <2>2. CASE d \notin days
    <3> HIDE DEF Length
    <3> QED BY <2>1, <2>2, RunGoesOn, RunUnique
  <2>3. CASE d \in days
    <3>1. d - 1 \in -1..top
      <4>1. d # -1
        BY <2>3
      <4> QED BY <2>1, <4>1
    <3>2. back[d - 1] = Length(d - 1) /\ Run(days, d - 1, Length(d - 1))
      BY <1>1, <3>1
    <3> HIDE DEF Length, back
    <3>3. Run(days, d, Length(d - 1) + 1) /\ Length(d - 1) \in Nat
      BY <2>1, <2>3, <3>2, RunGoesOn DEF Run
    <3>4. Length(d) = Length(d - 1) + 1
      BY <2>1, <3>3, RunUnique
    <3> QED BY <2>3, <3>2, <3>3, <3>4
  <2> QED BY <2>2, <2>3
<1>3. Walk(back, days, top)
  <2>1. back = [d \in -1..top |-> IF d \in days THEN 1 + back[d - 1] ELSE 0]
    <3>1. back = [d \in -1..top |-> Length(d)]
      OBVIOUS
    <3> HIDE DEF back, Length
    <3> QED BY <1>2, <3>1
  <2> HIDE DEF back
  <2> QED BY <2>1 DEF Walk
<1> QED BY <1>3

LEMMA WalkIsRun ==
  ASSUME NEW days \in SUBSET Nat, NEW top \in Nat, NEW back, Walk(back, days, top)
  PROVE  Run(days, top, back[top])
<1> DEFINE Wrong(e) == ~Run(days, e - 1, back[e - 1])
           B == {e \in 0..top + 1 : Wrong(e)}
<1>0. \A d \in -1..top : back[d] = IF d \in days THEN 1 + back[d - 1] ELSE 0
  BY DEF Walk
<1>1. SUFFICES ASSUME B # {} PROVE FALSE
  <2>1. top + 1 \in 0..top + 1 /\ (top + 1) - 1 = top
    OBVIOUS
  <2> QED BY <2>1
<1>2. B \in SUBSET Nat /\ IsFiniteSet(B)
  <2> DEFINE all == 0..top + 1
  <2>1. IsFiniteSet(all)
    BY FS_Interval
  <2>2. B \in SUBSET all /\ all \in SUBSET Nat
    OBVIOUS
  <2> HIDE DEF B, all
  <2> QED BY <2>1, <2>2, FS_Subset
<1>3. PICK e \in B : \A k \in B : e <= k
  <2> HIDE DEF B
  <2> QED BY <1>1, <1>2, LeastNumber
<1> DEFINE d == e - 1
<1>4. /\ e \in Nat /\ e <= top + 1 /\ d \in -1..top /\ d \in Int /\ d >= -1
      /\ ~Run(days, d, back[d])
  OBVIOUS
<1>5. d \in days
  <2> SUFFICES ASSUME d \notin days PROVE FALSE
    OBVIOUS
  <2> HIDE DEF d
  <2> QED BY <1>0, <1>4, RunGoesOn
<1>6. e # 0
  <2>1. e = 0 => d = -1
    OBVIOUS
  <2>2. -1 \notin days
    OBVIOUS
  <2> QED BY <1>5, <2>1, <2>2
<1>7. Run(days, d - 1, back[d - 1])
  <2>1. e - 1 \in 0..top + 1 /\ ~(e <= e - 1)
    BY <1>4, <1>6
  <2>2. e - 1 \notin B
    BY <1>3, <2>1
  <2>3. ~Wrong(e - 1)
    BY <2>1, <2>2
  <2> QED BY <2>3
<1> HIDE DEF d
<1>8. Run(days, d, back[d - 1] + 1) /\ back[d - 1] \in Nat
  BY <1>4, <1>5, <1>7, RunGoesOn DEF Run
<1>9. back[d] = 1 + back[d - 1]
  BY <1>0, <1>4, <1>5
<1>10. back[d] = back[d - 1] + 1
  BY <1>8, <1>9
<1> QED BY <1>4, <1>8, <1>10

LEMMA StreakIsRun ==
  ASSUME NEW page, Range(page) \in SUBSET Nat, today \in Nat
  PROVE  Run(Range(page) \cup {today}, today, checkinStreakDays(page))
<1> DEFINE days == Range(page) \cup {today}
           back == CHOOSE back : Walk(back, days, today)
<1>1. days \in SUBSET Nat
  OBVIOUS
<1>2. checkinStreakDays(page) = back[today]
  BY DEF checkinStreakDays, Walk
<1> HIDE DEF days
<1>3. Walk(back, days, today)
  BY <1>1, WalkExists
<1> HIDE DEF back
<1>4. Run(days, today, back[today])
  BY <1>1, <1>3, WalkIsRun
<1> QED BY <1>2, <1>4 DEF days

\* What Max and Min are.
LEMMA MaxIs ==
  ASSUME NEW S \in SUBSET Int, NEW m \in S, \A k \in S : k <= m
  PROVE  Max(S) = m
<1>1. \A x \in S : x \in Int /\ (x >= m => x = m)
  OBVIOUS
<1>2. \A y \in S : m >= y
  OBVIOUS
<1> QED BY <1>1, <1>2 DEF Max

LEMMA MinIs ==
  ASSUME NEW a \in Nat, NEW b \in Nat
  PROVE  Min({a, b}) = IF a <= b THEN a ELSE b
<1>1. \A x \in {a, b} : (\A y \in {a, b} : x <= y) => x = IF a <= b THEN a ELSE b
  OBVIOUS
<1>2. \E x \in {a, b} : \A y \in {a, b} : x <= y
  OBVIOUS
<1> QED BY <1>1, <1>2 DEF Min

\* The page that is read has the newest days.
Ordered(days) == \A i, j \in DOMAIN days : i < j => days[i] <= days[j]
LEMMA PageIs ==
  ASSUME NEW days \in Seq(Nat), Ordered(days)
  PROVE  /\ Range(listDecisions(days)) \subseteq Range(days)
         /\ Len(days) <= Limit => Range(listDecisions(days)) = Range(days)
         /\ \A d \in Range(days) \ Range(listDecisions(days)), e \in Range(listDecisions(days)) : d <= e
<1> DEFINE n == Len(days)
           k == Min({Limit, n})
           from == n - k
           page == listDecisions(days)
<1>1. n \in Nat /\ DOMAIN days = 1..n
  OBVIOUS
<1>2. k \in Nat /\ k <= n /\ (n <= Limit => k = n)
  <2> HIDE DEF n
  <2>1. k = IF Limit <= n THEN Limit ELSE n
    BY <1>1, ActivationAssumption, MinIs
  <2> HIDE DEF k
  <2> QED BY <1>1, <2>1, ActivationAssumption
<1>3. from \in Nat /\ from + k = n
  <2> HIDE DEF n, k
  <2> QED BY <1>1, <1>2
<1>4. page = SubSeq(days, from + 1, n)
  BY DEF listDecisions
<1> HIDE DEF n, k, from, page
<1>5. page = [i \in 1..((n - (from + 1)) + 1) |-> days[(i + (from + 1)) - 1]]
  BY <1>1, <1>3, <1>4
<1>6. (n - (from + 1)) + 1 = k /\ \A i \in 1..k : (i + (from + 1)) - 1 = from + i
  BY <1>1, <1>2, <1>3
<1>7. DOMAIN page = 1..k /\ \A i \in 1..k : page[i] = days[from + i]
  BY <1>5, <1>6
<1>8. \A i \in 1..k : from + i \in 1..n /\ from + i > from
  BY <1>1, <1>2, <1>3
<1>9. ASSUME NEW j \in 1..n PROVE j <= from \/ days[j] \in Range(page)
  <2> SUFFICES ASSUME j > from PROVE days[j] \in Range(page)
    BY <1>1, <1>3
  <2>1. j - from \in 1..k /\ from + (j - from) = j
    BY <1>1, <1>2, <1>3
  <2> QED BY <1>7, <2>1 DEF Range
<1>10. Range(page) \subseteq Range(days)
  BY <1>1, <1>7, <1>8 DEF Range
<1>11. ASSUME n <= Limit PROVE Range(days) \subseteq Range(page)
  <2>1. from = 0
    BY <1>1, <1>2, <1>3, <1>11
  <2>2. \A j \in 1..n : ~(j <= from)
    BY <2>1
  <2> QED BY <1>1, <1>9, <2>2 DEF Range
<1>12. ASSUME NEW d \in Range(days) \ Range(page), NEW e \in Range(page) PROVE d <= e
  <2>1. PICK j \in 1..n : d = days[j]
    BY <1>1 DEF Range
  <2>2. PICK i \in 1..k : e = days[from + i]
    BY <1>7 DEF Range
  <2>3. j <= from
    BY <1>9, <2>1
  <2>4. j < from + i /\ from + i \in 1..n
    BY <1>2, <1>3, <1>8, <2>3
  <2> QED BY <1>1, <2>1, <2>2, <2>4 DEF Ordered
<1> QED BY <1>10, <1>11, <1>12 DEF n, page

-----------------------------------------------------------------------------
EntryInv == /\ EntryFactsTrue
            /\ Ordered(entered) /\ \A i \in DOMAIN entered : entered[i] <= today

LEMMA EntriesStart == ActivationInit => EntryInv
<1> SUFFICES ASSUME ActivationInit PROVE EntryInv
  OBVIOUS
<1>1. entered = <<>> /\ today = 0 /\ context.streak = 0
  BY DEF ActivationInit
<1>2. ActivationTypeOK
  BY <1>1, ActivationAssumption DEF ActivationTypeOK
<1>3. Ordered(entered) /\ \A i \in DOMAIN entered : entered[i] <= today
  BY <1>1 DEF Ordered
<1> QED BY <1>1, <1>2, <1>3 DEF EntryInv, EntryFactsTrue, StreakIsRunOfDays, AbsenceIsReal

\* The run of days that ends with the last entry, as the property words it.
LEMMA RunIsMax ==
  ASSUME NEW days \in SUBSET Nat, NEW d \in Nat, NEW r, Run(days, d, r), d \in days
  PROVE  Max({n \in 1..d + 1 : (d - n + 1)..d \subseteq days}) = r
<1> DEFINE S == {n \in 1..d + 1 : (d - n + 1)..d \subseteq days}
<1>1. r \in Nat /\ r <= d + 1 /\ d - r \notin days /\ \A k \in Nat : k < r => d - k \in days
  BY DEF Run
<1>2. r \in S
  <2>1. r # 0
    BY <1>1
  <2>2. r \in 1..d + 1
    BY <1>1, <2>1
  <2>3. ASSUME NEW e \in (d - r + 1)..d PROVE e \in days
    <3>1. d - e \in Nat /\ d - e < r /\ d - (d - e) = e
      BY <1>1
    <3> QED BY <1>1, <3>1
  <2> QED BY <2>2, <2>3
<1>3. ASSUME NEW n \in S PROVE n <= r
  <2>1. n \in 1..d + 1 /\ (d - n + 1)..d \subseteq days
    OBVIOUS
  <2> SUFFICES ASSUME r < n PROVE FALSE
    BY <1>1, <2>1
  <2>2. d - r \in (d - n + 1)..d
    BY <1>1, <2>1
  <2> QED BY <1>1, <2>1, <2>2
<1>4. S \in SUBSET Int
  OBVIOUS
<1> HIDE DEF S
<1>5. Max(S) = r
  BY <1>2, <1>3, <1>4, MaxIs
<1> QED BY <1>5 DEF S

\* A finite set of days up to d that is not empty has a last one.
LEMMA LastDay ==
  ASSUME NEW d \in Nat, NEW S \in SUBSET (0..d), S # {}
  PROVE  Max(S) \in S /\ \A k \in S : k <= Max(S)
<1> DEFINE T == {n \in 0..d : d - n \in S}
<1>1. T \in SUBSET Nat /\ IsFiniteSet(T)
  <2>1. IsFiniteSet(0..d)
    BY FS_Interval
  <2>2. T \in SUBSET (0..d) /\ 0..d \in SUBSET Nat
    OBVIOUS
  <2> HIDE DEF T
  <2> QED BY <2>1, <2>2, FS_Subset
<1>2. \A k \in S : d - k \in T /\ k \in Int
  <2> SUFFICES ASSUME NEW k \in S PROVE d - k \in T /\ k \in Int
    OBVIOUS
  <2>1. k \in 0..d
    OBVIOUS
  <2>2. d - k \in 0..d /\ d - (d - k) = k
    BY <2>1
  <2> QED BY <2>1, <2>2
<1>3. T # {}
  BY <1>2
<1>4. PICK n \in T : \A k \in T : n <= k
  <2> HIDE DEF T
  <2> QED BY <1>1, <1>3, LeastNumber
<1> DEFINE m == d - n
<1>5. m \in S /\ n \in Nat
  OBVIOUS
<1>6. ASSUME NEW k \in S PROVE k <= m
  <2>1. n <= d - k /\ k \in Int
    BY <1>2, <1>4
  <2> QED BY <1>5, <2>1
<1>7. S \in SUBSET Int
  OBVIOUS
<1> HIDE DEF m, T
<1>8. Max(S) = m
  BY <1>5, <1>6, <1>7, MaxIs
<1> QED BY <1>5, <1>6, <1>8

\* An entry keeps the days in order, and its facts are true.
LEMMA EnterKeeps ==
  ASSUME EntryInv, Enter
  PROVE  EntryInv'
<1> DEFINE page == listDecisions(entered)
           seen == Range(page) \cup {today}
           all == Range(entered) \cup {today}
           n == checkinStreakDays(page)
           start == (today - n) + 1
           before == {d \in Range(page) : d < start}
<1>1. /\ MaxDay \in Nat /\ today \in 0..MaxDay /\ today \in Nat /\ today <= MaxDay
      /\ entered \in Seq(0..MaxDay) /\ entered \in Seq(Nat)
  <2>1. today \in 0..MaxDay /\ entered \in Seq(0..MaxDay)
    BY DEF EntryInv, EntryFactsTrue, ActivationTypeOK
  <2> QED BY <2>1, ActivationAssumption
<1>2. Ordered(entered) /\ \A i \in DOMAIN entered : entered[i] <= today
  BY DEF EntryInv
<1>3. \A d \in Range(entered) : d \in Nat /\ d <= today
  BY <1>1, <1>2 DEF Range
<1>4. /\ entered' = Append(entered, today) /\ today' = today
      /\ context' = [streak |-> Max({1, n}), inactive |-> inactiveDays(page)]
  BY DEF Enter, buildActivationContext
<1>5. /\ entered' \in Seq(0..MaxDay) /\ entered' # <<>> /\ Len(entered') = Len(entered) + 1
      /\ DOMAIN entered' = 1..Len(entered) + 1 /\ DOMAIN entered = 1..Len(entered) /\ Len(entered) \in Nat
      /\ \A i \in DOMAIN entered : entered'[i] = entered[i]
      /\ entered'[Len(entered) + 1] = today
  BY <1>1, <1>4
<1>6. LastEntry' = today /\ Days' = all
  <2>1. LastEntry' = today
    BY <1>5 DEF LastEntry, Last
  <2>2. \A i \in DOMAIN entered' : i \in DOMAIN entered \/ i = Len(entered) + 1
    BY <1>5
  <2>3. DOMAIN entered \subseteq DOMAIN entered' /\ Len(entered) + 1 \in DOMAIN entered'
    BY <1>5
  <2>4. Range(entered') = all
    BY <1>5, <2>2, <2>3 DEF Range
  <2> QED BY <2>1, <2>4 DEF Days
<1>7. /\ Range(page) \subseteq Range(entered)
      /\ Len(entered) <= Limit => Range(page) = Range(entered)
      /\ \A d \in Range(entered) \ Range(page), e \in Range(page) : d <= e
  BY <1>1, <1>2, PageIs
<1>8. Run(seen, today, n)
  <2>1. Range(page) \in SUBSET Nat
    BY <1>3, <1>7
  <2> QED BY <1>1, <2>1, StreakIsRun
<1>9. inactiveDays(page) = IF before = {} THEN Never ELSE (start - Max(before)) - 1
  BY DEF inactiveDays
<1>10. seen \subseteq all /\ all \in SUBSET Nat /\ today \in seen /\ Range(page) \subseteq seen
  BY <1>1, <1>3, <1>7
<1>11. /\ n \in Nat /\ n <= today + 1 /\ today - n \notin seen
       /\ \A k \in Nat : k < n => today - k \in seen
  BY <1>8 DEF Run
<1> HIDE DEF n
<1>12. n >= 1
  <2>1. n # 0
    BY <1>1, <1>10, <1>11
  <2> QED BY <1>11, <2>1
<1>13. context'.streak = n /\ context'.inactive = inactiveDays(page)
  <2>1. {1, n} \in SUBSET Int /\ n \in {1, n} /\ \A k \in {1, n} : k <= n
    BY <1>11, <1>12
  <2>2. Max({1, n}) = n
    BY <2>1, MaxIs
  <2> QED BY <1>4, <2>2
<1>14. ActivationTypeOK'
  <2>1. n \in 0..MaxDay + 1
    BY <1>1, <1>11
  <2> QED BY <1>1, <1>4, <1>5, <1>13, <2>1 DEF ActivationTypeOK
<1>15. StreakIsRunOfDays'
  <2>1. PICK r : Run(all, today, r)
    <3>1. today \in Int /\ today >= -1 /\ all \in SUBSET Nat
      BY <1>1, <1>10
    <3> HIDE DEF all
    <3> QED BY <3>1, RunExists
  <2>2. Max({k \in 1..today + 1 : (today - k + 1)..today \subseteq all}) = r
    BY <1>1, <1>10, <2>1, RunIsMax
  <2>3. r \in Nat /\ today - r \notin all
    BY <2>1 DEF Run
  <2>4. n <= r
    <3>1. ~(r < n)
      BY <1>10, <1>11, <2>3
    <3> QED BY <1>11, <2>3, <3>1
  <2>5. Len(entered) <= Limit => n = r
    <3> SUFFICES ASSUME Len(entered) <= Limit PROVE n = r
      OBVIOUS
    <3>1. Range(page) = Range(entered)
      BY <1>7
    <3>2. Run(all, today, n)
      BY <1>8, <3>1 DEF n
    <3> QED BY <1>1, <2>1, <3>2, RunUnique
  <2>6. Len(entered') - 1 = Len(entered)
    BY <1>5
  <2> HIDE DEF all
  <2> QED BY <1>6, <1>13, <2>2, <2>4, <2>5, <2>6 DEF StreakIsRunOfDays
<1>16. AbsenceIsReal'
  <2> SUFFICES ASSUME context'.inactive # Never
               PROVE  /\ context'.inactive > 0
                      /\ ((start - context'.inactive)..(start - 1)) \cap all = {}
                      /\ (start - context'.inactive) - 1 \in all
    BY <1>6, <1>13 DEF AbsenceIsReal
  <2>1. before # {} /\ context'.inactive = (start - Max(before)) - 1
    BY <1>9, <1>13
  <2> DEFINE m == Max(before)
  <2>2. m \in before /\ \A k \in before : k <= m
    <3>1. before \in SUBSET (0..today)
      BY <1>3, <1>7
    <3> HIDE DEF before
    <3> QED BY <1>1, <2>1, <3>1, LastDay
  <2> HIDE DEF m
  <2>3. m \in Nat /\ m < start /\ m \in Range(page) /\ start \in Int
    BY <1>1, <1>3, <1>7, <1>11, <2>2
  <2>4. m # start - 1
    <3>1. start - 1 = today - n
      BY <1>1, <1>11
    <3> QED BY <1>10, <1>11, <2>3, <3>1
  <2>5. context'.inactive = (start - m) - 1
    BY <2>1 DEF m
  <2> DEFINE away == context'.inactive
  <2>6. away > 0 /\ start - away = m + 1 /\ (start - away) - 1 = m
    BY <2>3, <2>4, <2>5
  <2>7. ASSUME NEW d \in (m + 1)..(start - 1), d \in all PROVE FALSE
    <3>1. d \in Int /\ m < d /\ d < start
      BY <2>3, <2>7
    <3>2. d # today
      <4>1. start <= today
        BY <1>1, <1>11, <1>12
      <4> QED BY <1>1, <2>3, <3>1, <4>1
    <3>3. d \in Range(entered)
      BY <2>7, <3>2
    <3>4. CASE d \in Range(page)
      BY <2>2, <2>3, <3>1, <3>4
    <3>5. CASE d \notin Range(page)
      <4>1. d <= m
        BY <1>7, <2>3, <3>3, <3>5
      <4> QED BY <2>3, <3>1, <4>1
    <3> QED BY <3>4, <3>5
  <2>8. m \in all
    BY <1>10, <2>3
  <2> HIDE DEF away, start, all
  <2> QED BY <2>6, <2>7, <2>8 DEF away
<1>17. Ordered(entered') /\ \A i \in DOMAIN entered' : entered'[i] <= today'
  <2>1. \A i \in DOMAIN entered' : i \in DOMAIN entered \/ i = Len(entered) + 1
    BY <1>5
  <2>2. \A i \in DOMAIN entered' : entered'[i] <= today
    BY <1>1, <1>2, <1>5, <2>1
  <2>3. ASSUME NEW i \in DOMAIN entered', NEW j \in DOMAIN entered', i < j
        PROVE  entered'[i] <= entered'[j]
    <3>1. CASE j = Len(entered) + 1
      BY <1>5, <2>2, <3>1
    <3>2. CASE j # Len(entered) + 1
      <4>1. i \in DOMAIN entered /\ j \in DOMAIN entered
        BY <1>5, <2>3, <3>2
      <4> QED BY <1>2, <1>5, <2>3, <4>1 DEF Ordered
    <3> QED BY <3>1, <3>2
  <2> QED BY <1>4, <2>2, <2>3 DEF Ordered
<1> QED BY <1>14, <1>15, <1>16, <1>17 DEF EntryInv, EntryFactsTrue

LEMMA NextDayKeeps ==
  ASSUME EntryInv, NextDay
  PROVE  EntryInv'
<1>1. today < MaxDay /\ today' = today + 1 /\ entered' = entered /\ context' = context
  BY DEF NextDay
<1>2. today \in 0..MaxDay /\ entered \in Seq(0..MaxDay)
  BY DEF EntryInv, EntryFactsTrue, ActivationTypeOK
<1>3. today' \in 0..MaxDay
  BY <1>1, <1>2, ActivationAssumption
<1>4. ActivationTypeOK'
  BY <1>1, <1>3 DEF EntryInv, EntryFactsTrue, ActivationTypeOK
<1>5. StreakIsRunOfDays' /\ AbsenceIsReal'
  BY <1>1 DEF EntryInv, EntryFactsTrue, StreakIsRunOfDays, AbsenceIsReal, LastEntry, Days
<1>6. \A i \in DOMAIN entered' : entered'[i] <= today'
  <2>1. \A i \in DOMAIN entered : entered[i] <= today
    BY DEF EntryInv
  <2>2. entered \in Seq(Nat) /\ today \in Nat
    BY <1>2, ActivationAssumption
  <2>3. \A i \in DOMAIN entered : entered[i] <= today + 1
    BY <2>1, <2>2
  <2> QED BY <1>1, <2>3
<1>7. Ordered(entered')
  BY <1>1 DEF EntryInv
<1> QED BY <1>4, <1>5, <1>6, <1>7 DEF EntryInv, EntryFactsTrue

\* What the decision at the door is told is true, however many entries a customer
\* has a day and however few of them are read: the streak is the run of days and
\* an absence is real (policyOsRoutes.ts, buildActivationContext).
THEOREM EntryFactsHold == ActivationSpec => []EntryFactsTrue
<1>1. EntryInv /\ [ActivationNext]_avars => EntryInv'
  <2> SUFFICES ASSUME EntryInv, [ActivationNext]_avars PROVE EntryInv'
    OBVIOUS
  <2>1. CASE Enter
    BY <2>1, EnterKeeps
  <2>2. CASE NextDay
    BY <2>2, NextDayKeeps
  <2>3. CASE UNCHANGED avars
    <3>1. today' = today /\ entered' = entered /\ context' = context
      BY <2>3 DEF avars
    <3> QED BY <3>1 DEF EntryInv, EntryFactsTrue, ActivationTypeOK, StreakIsRunOfDays, AbsenceIsReal,
                        LastEntry, Days
  <2> QED BY <2>1, <2>2, <2>3 DEF ActivationNext
<1>2. EntryInv => EntryFactsTrue
  BY DEF EntryInv
<1> QED BY <1>1, <1>2, EntriesStart, PTL DEF ActivationSpec

(***************************************************************************)
(* Part 5: the notifications and the feedback tickets.                     *)
(*                                                                         *)
(* A cap limits the deliveries counted for it, and no call but a delivery  *)
(* looks at it, so Capped says why that limits the notifications there     *)
(* are: every one in the window is counted.  Notifications are kept in the *)
(* order of creation (InTime), so the newest rows are the last ones, a     *)
(* page ends at its least row (InboxPage), and every page of a reading     *)
(* lies above the cursor (ReadingOK).  A ticket that is updated moves to   *)
(* the front of the list, above the cursor (PagingOK).  Every event of a   *)
(* ticket is told or logged once, and none before it happens (NewsOK).     *)
(*                                                                         *)
(* createAll is a recursive function: DeliveriesExist shows that there is  *)
(* one, AllDelivered that each delivery keeps the parts (DbOK) and adds    *)
(* one row for its recipient, both by the least step that would not.       *)
(***************************************************************************)
\* The pairs of G put S in a strict total order: the first of a pair comes first.
Orders(G, S) ==
    /\ \A i \in S : <<i, i>> \notin G
    /\ \A i, j \in S : i = j \/ <<i, j>> \in G \/ <<j, i>> \in G
    /\ \A i, j, k \in S : <<i, j>> \in G /\ <<j, k>> \in G => <<i, k>> \in G

\* A finite set in a strict order has a first element.
LEMMA FirstExists ==
  ASSUME NEW S, IsFiniteSet(S), S # {}, NEW G, Orders(G, S)
  PROVE  \E t \in S : \A i \in S : i = t \/ <<t, i>> \in G
<1> DEFINE Before(i) == {j \in S : <<j, i>> \in G}
           B == {Before(i) : i \in S}
<1>1. PICK T \in B : \A U \in B : ~(U \subseteq T /\ U # T)
  <2>1. B \subseteq FiniteSubsetsOf(S) /\ B # {}
    <3>1. \A i \in S : Before(i) \in SUBSET S
      OBVIOUS
    <3>2. \A V \in SUBSET S : IsFiniteSet(V)
      BY FS_Subset
    <3> HIDE DEF Before
    <3> QED BY <3>1, <3>2 DEF FiniteSubsetsOf
  <2> HIDE DEF B
  <2> QED BY <2>1, LeastSet
<1>2. PICK t \in S : T = Before(t)
  OBVIOUS
<1>3. ASSUME NEW i \in S, i # t, <<t, i>> \notin G PROVE FALSE
  <2>1. <<i, t>> \in G
    BY <1>3 DEF Orders
  <2>2. Before(i) \subseteq Before(t)
    BY <2>1 DEF Orders
  <2>3. i \in Before(t) /\ i \notin Before(i)
    BY <2>1 DEF Orders
  <2>4. Before(i) \in B
    OBVIOUS
  <2> HIDE DEF B, Before
  <2> QED BY <1>1, <1>2, <2>2, <2>3, <2>4
<1> QED BY <1>3

\* A finite set in a strict order has a last element.
LEMMA LastExists ==
  ASSUME NEW S, IsFiniteSet(S), S # {}, NEW G, Orders(G, S)
  PROVE  \E t \in S : \A i \in S : i = t \/ <<i, t>> \in G
<1> DEFINE R == {e \in S \X S : <<e[2], e[1]>> \in G}
<1>1. \A i, j \in S : <<i, j>> \in R <=> <<j, i>> \in G
  OBVIOUS
<1>2. Orders(R, S)
  <2> HIDE DEF R
  <2> QED BY <1>1 DEF Orders
<1>3. PICK t \in S : \A i \in S : i = t \/ <<t, i>> \in R
  <2> HIDE DEF R
  <2> QED BY <1>2, FirstExists
<1> HIDE DEF R
<1> QED BY <1>1, <1>3

\* The first P of S.
FirstOf(S, P, G) == {i \in S : Cardinality({j \in S : <<j, i>> \in G}) < P}

\* The first P of a set are not empty unless it is, and come before what is left out.
LEMMA PageOf ==
  ASSUME NEW S, IsFiniteSet(S), NEW P \in Nat \ {0}, NEW G, Orders(G, S)
  PROVE  /\ FirstOf(S, P, G) \subseteq S
         /\ S # {} => FirstOf(S, P, G) # {}
         /\ \A i \in S : i \notin FirstOf(S, P, G) =>
              Cardinality(S) > P /\ \A k \in FirstOf(S, P, G) : <<k, i>> \in G
<1> DEFINE Before(i) == {j \in S : <<j, i>> \in G}
           items == FirstOf(S, P, G)
<1>0. items = {i \in S : Cardinality(Before(i)) < P}
  BY DEF FirstOf
<1>1. \A i \in S : /\ IsFiniteSet(Before(i)) /\ Cardinality(Before(i)) \in Nat
                   /\ Cardinality(Before(i)) < Cardinality(S)
  <2> SUFFICES ASSUME NEW i \in S
               PROVE  /\ IsFiniteSet(Before(i)) /\ Cardinality(Before(i)) \in Nat
                      /\ Cardinality(Before(i)) < Cardinality(S)
    OBVIOUS
  <2>1. Before(i) \in SUBSET S /\ i \notin Before(i)
    BY DEF Orders
  <2>2. Before(i) # S
    BY <2>1
  <2> HIDE DEF Before
  <2>3. /\ IsFiniteSet(Before(i)) /\ Cardinality(Before(i)) <= Cardinality(S)
        /\ Cardinality(S) # Cardinality(Before(i))
    BY <2>1, <2>2, FS_Subset
  <2>4. Cardinality(S) \in Nat /\ Cardinality(Before(i)) \in Nat
    BY <2>3, FS_CardinalityType
  <2> QED BY <2>3, <2>4
<1>2. ASSUME S # {} PROVE items # {}
  <2>1. PICK t \in S : \A i \in S : i = t \/ <<t, i>> \in G
    BY <1>2, FirstExists
  <2>2. Before(t) = {}
    BY <2>1 DEF Orders
  <2>3. Cardinality(Before(t)) = 0
    BY <2>2, FS_EmptySet
  <2>4. t \in items
    BY <1>0, <2>1, <2>3
  <2> QED BY <2>4
<1>3. ASSUME NEW i \in S, i \notin items
      PROVE  Cardinality(S) > P /\ \A k \in items : <<k, i>> \in G
  <2>1. Cardinality(Before(i)) \in Nat /\ ~(Cardinality(Before(i)) < P)
    BY <1>0, <1>1, <1>3
  <2>2. Cardinality(S) > P
    <3>1. Cardinality(S) \in Nat /\ Cardinality(Before(i)) < Cardinality(S)
      BY <1>1, FS_CardinalityType
    <3> HIDE DEF Before
    <3> QED BY <2>1, <3>1
  <2>3. ASSUME NEW k \in items PROVE <<k, i>> \in G
    <3> SUFFICES ASSUME <<k, i>> \notin G PROVE FALSE
      OBVIOUS
    <3>1. k \in S /\ Cardinality(Before(k)) < P
      BY <1>0
    <3>2. <<i, k>> \in G
      BY <1>3, <3>1 DEF Orders
    <3>3. Before(i) \in SUBSET Before(k)
      BY <3>1, <3>2 DEF Orders
    <3>4. Cardinality(Before(i)) <= Cardinality(Before(k)) /\ Cardinality(Before(k)) \in Nat
      <4> HIDE DEF Before
      <4> QED BY <1>1, <3>1, <3>3, FS_Subset
    <3> HIDE DEF Before
    <3> QED BY <2>1, <3>1, <3>4
  <2> QED BY <2>2, <2>3
<1>4. items \subseteq S
  BY <1>0
<1> QED BY <1>2, <1>3, <1>4

\* The sequence of a finite set names each of its elements once and nothing else.
LEMMA SetToSeqIs ==
  ASSUME NEW S, IsFiniteSet(S)
  PROVE  /\ SetToSeq(S) \in Seq(S) /\ Len(SetToSeq(S)) = Cardinality(S)
         /\ Cardinality(S) \in Nat
         /\ \A i, j \in 1..Len(SetToSeq(S)) : SetToSeq(S)[i] = SetToSeq(S)[j] => i = j
         /\ \A x \in S : \E i \in 1..Len(SetToSeq(S)) : SetToSeq(S)[i] = x
<1> DEFINE n == Cardinality(S)
           f == SetToSeq(S)
<1>1. n \in Nat /\ ExistsBijection(1..n, S)
  BY FS_CardinalityType
<1>2. \E g \in [1..n -> S] : IsInjective(g)
  BY <1>1 DEF ExistsBijection, Bijection, Injection
<1>3. f \in [1..n -> S] /\ IsInjective(f)
  BY <1>2 DEF SetToSeq
<1>4. f \in Injection(1..n, S)
  BY <1>3 DEF Injection
<1>5. IsFiniteSet(1..n) /\ Cardinality(1..n) = n
  BY <1>1, FS_Interval
<1> HIDE DEF n, f
<1>6. f \in Surjection(1..n, S)
  <2>1. Cardinality(1..n) = Cardinality(S)
    BY <1>5 DEF n
  <2> QED BY <1>4, <2>1, FS_Injection
<1>7. f \in Seq(S) /\ Len(f) = n
  BY <1>1, <1>3
<1>8. \A i, j \in 1..n : f[i] = f[j] => i = j
  BY <1>3 DEF IsInjective
<1>9. \A x \in S : \E i \in 1..n : f[i] = x
  BY <1>6 DEF Surjection
<1> QED BY <1>1, <1>7, <1>8, <1>9 DEF f, n

-----------------------------------------------------------------------------
Reasons == {"", "PREFERENCE_DISABLED", "FREQUENCY_CAP_REACHED"}
Subjects == {"approval", "decision", "ticket"} \X Nat \X Nat
Note == [to : Recipients, category : Categories, about : Subjects,
         createdAt : Nat, expiresAt : Nat, status : {"UNREAD", "READ"}]
Suppressed == [to : Recipients, category : Categories, about : Subjects, reason : Reasons]
SocketState == [open : BOOLEAN, unread : SUBSET Nat]
Db == [dispatchState : [Recipients \X Categories -> SUBSET Nat],
       notes : Seq(Note), audit : Seq(Suppressed), sockets : [Sockets -> SocketState]]

GoodCap(cap) == cap \in Cap /\ cap.window > 0 /\ cap.max > 0
PreferencesOK ==
    /\ DOMAIN preferences = Recipients
    /\ \A r \in Recipients :
        /\ preferences[r].off \subseteq Categories
        /\ DOMAIN preferences[r].caps \subseteq Categories
        /\ \A c \in DOMAIN preferences[r].caps : GoodCap(preferences[r].caps[c])
CapsOf(r) == getRecipientPreference(r).caps

\* What a delivery keeps of the notifications ns, the deliveries counted and the sockets.
SentTo(ns, r, c) == {i \in DOMAIN ns : ns[i].to = r /\ ns[i].category = c}
UnreadOf(ns, r) == {i \in DOMAIN ns : ns[i].to = r /\ ns[i].status = "UNREAD"}
Recent(ns, r, c, window) ==
    {i \in since[r] + 1..Len(ns) : /\ ns[i].to = r /\ ns[i].category = c
                                   /\ ns[i].createdAt >= clock - window}

InTime(ns) ==
    /\ \A r \in Recipients : since[r] \in 0..Len(ns)
    /\ \A i \in DOMAIN ns : ns[i].createdAt <= clock
    /\ \A i, j \in DOMAIN ns : i < j => ns[i].createdAt <= ns[j].createdAt
CountedOK(counted, ns) ==
    \A r \in Recipients, c \in Categories : counted[<<r, c>>] \subseteq SentTo(ns, r, c)
Capped(counted, ns) ==
    \A r \in Recipients : \A c \in DOMAIN CapsOf(r) :
        /\ Recent(ns, r, c, CapsOf(r)[c].window) \subseteq counted[<<r, c>>]
        /\ Cardinality(Recent(ns, r, c, CapsOf(r)[c].window)) <= CapsOf(r)[c].max
Tells(socks, ns) ==
    \A s \in Sockets : socks[s].unread = IF socks[s].open THEN UnreadOf(ns, Holder[s]) ELSE {}
DbOK(db) ==
    /\ db \in Db /\ InTime(db.notes)
    /\ CountedOK(db.dispatchState, db.notes) /\ Capped(db.dispatchState, db.notes)
    /\ Tells(db.sockets, db.notes)

\* What is saved over the default is a cap with a window and a limit, and there is one for
\* execution results.
LEMMA CapsAre ==
  ASSUME NotificationAssumption, PreferencesOK, NEW r \in Recipients
  PROVE  /\ getRecipientPreference(r).off \subseteq Categories
         /\ DOMAIN CapsOf(r) \subseteq Categories /\ ExecutionResult \in DOMAIN CapsOf(r)
         /\ \A c \in DOMAIN CapsOf(r) : GoodCap(CapsOf(r)[c])
<1> DEFINE saved == preferences[r].caps
           base == [c \in {ExecutionResult} |-> DefaultCap]
<1>1. /\ DOMAIN saved \subseteq Categories /\ preferences[r].off \subseteq Categories
      /\ \A c \in DOMAIN saved : GoodCap(saved[c])
  BY DEF PreferencesOK
<1>2. GoodCap(DefaultCap) /\ ExecutionResult \in Categories
  BY DEF NotificationAssumption, GoodCap
<1>3. CapsOf(r) = normalizeFrequencyCaps(saved, base)
  BY DEF CapsOf, getRecipientPreference
<1>4. getRecipientPreference(r).off = preferences[r].off
  BY DEF getRecipientPreference
<1>5. {c \in DOMAIN saved : ~(saved[c].window > 0 /\ saved[c].max > 0)} = {}
  BY <1>1 DEF GoodCap
<1>6. CapsOf(r) = [c \in {ExecutionResult} \cup DOMAIN saved |->
                     IF c \in DOMAIN saved THEN saved[c] ELSE base[c]]
  BY <1>3, <1>5 DEF normalizeFrequencyCaps
<1> QED BY <1>1, <1>2, <1>4, <1>6

\* A preference that is set is as good as the one before, and nobody else's changes.
LEMMA NewPreference ==
  ASSUME NotificationAssumption, PreferencesOK, NEW r \in Recipients,
         NEW switches \in SwitchPatches, NEW caps \in CapPatches,
         setRecipientPreference(r, switches, caps)
  PROVE  /\ PreferencesOK'
         /\ \A q \in Recipients : q # r => preferences'[q] = preferences[q]
<1> DEFINE current == getRecipientPreference(r)
           off == normalizeCategorySwitches(switches, current.off)
           new == normalizeFrequencyCaps(caps, current.caps)
<1>1. preferences' = [preferences EXCEPT ![r] = [off |-> off, caps |-> new]]
  BY DEF setRecipientPreference
<1>2. off \subseteq Categories
  BY DEF normalizeCategorySwitches
<1>3. DOMAIN new \subseteq Categories /\ \A c \in DOMAIN new : GoodCap(new[c])
  <2> DEFINE old == current.caps
             dropped == {c \in DOMAIN caps : ~(caps[c].window > 0 /\ caps[c].max > 0)}
  <2>1. DOMAIN old \subseteq Categories /\ \A c \in DOMAIN old : GoodCap(old[c])
    BY CapsAre DEF CapsOf
  <2>2. \A c \in DOMAIN caps : c \in Categories /\ caps[c] \in Cap
    BY DEF NotificationAssumption
  <2>3. new = [c \in (DOMAIN old \cup DOMAIN caps) \ dropped |->
                 IF c \in DOMAIN caps THEN caps[c] ELSE old[c]]
    BY DEF normalizeFrequencyCaps
  <2>4. DOMAIN new = (DOMAIN old \cup DOMAIN caps) \ dropped
    BY <2>3
  <2>5. ASSUME NEW c \in DOMAIN new PROVE c \in Categories /\ GoodCap(new[c])
    <3>1. new[c] = IF c \in DOMAIN caps THEN caps[c] ELSE old[c]
      BY <2>3, <2>5
    <3>2. c \in DOMAIN caps => caps[c].window > 0 /\ caps[c].max > 0
      BY <2>4, <2>5
    <3> HIDE DEF old, dropped, new
    <3> QED BY <2>1, <2>2, <2>4, <2>5, <3>1, <3>2 DEF GoodCap
  <2> QED BY <2>5
<1> HIDE DEF current, off, new
<1> QED BY <1>1, <1>2, <1>3 DEF PreferencesOK

\* The deliveries kept hold all of the window, and one more when it is allowed.
LEMMA ShouldDeliver ==
  ASSUME NotificationAssumption, PreferencesOK, NEW db, DbOK(db),
         NEW r \in Recipients, NEW c \in Categories, clock \in Nat
  PROVE  LET d == shouldDeliverNotification(db, r, c)
             counted == db.dispatchState[<<r, c>>]
             n == Len(db.notes) + 1
         IN  /\ d.allowed \in BOOLEAN /\ d.reason \in Reasons
             /\ d.counted \subseteq counted \cup (IF d.allowed THEN {n} ELSE {})
             /\ c \in DOMAIN CapsOf(r) =>
                  LET kept == retained(db, counted, CapsOf(r)[c])
                  IN  /\ kept \subseteq d.counted
                      /\ d.allowed => n \in d.counted /\ ~(Cardinality(kept) >= CapsOf(r)[c].max)
<1> DEFINE off == getRecipientPreference(r).off
           caps == CapsOf(r)
           counted == db.dispatchState[<<r, c>>]
           kept == retained(db, counted, caps[c])
           n == Len(db.notes) + 1
           d == shouldDeliverNotification(db, r, c)
<1>1. d = IF c \in off
          THEN [allowed |-> FALSE, reason |-> "PREFERENCE_DISABLED", counted |-> counted]
          ELSE IF c \notin DOMAIN caps
          THEN [allowed |-> TRUE, reason |-> "", counted |-> counted]
          ELSE IF Cardinality(kept) >= caps[c].max
          THEN [allowed |-> FALSE, reason |-> "FREQUENCY_CAP_REACHED", counted |-> kept]
          ELSE [allowed |-> TRUE, reason |-> "", counted |-> kept \cup {n}]
  BY DEF shouldDeliverNotification, CapsOf
<1>2. kept \subseteq counted
  BY DEF retained
<1> SUFFICES /\ d.allowed \in BOOLEAN /\ d.reason \in Reasons
             /\ d.counted \subseteq counted \cup (IF d.allowed THEN {n} ELSE {})
             /\ c \in DOMAIN caps =>
                  /\ kept \subseteq d.counted
                  /\ d.allowed => n \in d.counted /\ ~(Cardinality(kept) >= caps[c].max)
  OBVIOUS
<1> HIDE DEF d, kept, counted, caps, off, n
<1>3. CASE c \in off
  <2>1. d.allowed = FALSE /\ d.reason = "PREFERENCE_DISABLED" /\ d.counted = counted
    BY <1>1, <1>3
  <2>2. d.allowed \in BOOLEAN /\ ~d.allowed
    BY <2>1, Zenon
  <2>3. d.reason \in Reasons
    BY <2>1 DEF Reasons
  <2> QED BY <1>2, <2>1, <2>2, <2>3, Zenon
<1>4. CASE c \notin off /\ c \notin DOMAIN caps
  <2>1. d.allowed = TRUE /\ d.reason = "" /\ d.counted = counted
    BY <1>1, <1>4
  <2>2. d.allowed \in BOOLEAN /\ d.allowed
    BY <2>1, Zenon
  <2>3. d.reason \in Reasons
    BY <2>1 DEF Reasons
  <2> QED BY <1>4, <2>1, <2>2, <2>3, Zenon
<1>5. CASE c \notin off /\ c \in DOMAIN caps /\ Cardinality(kept) >= caps[c].max
  <2>1. d.allowed = FALSE /\ d.reason = "FREQUENCY_CAP_REACHED" /\ d.counted = kept
    BY <1>1, <1>5
  <2>2. d.allowed \in BOOLEAN /\ ~d.allowed
    BY <2>1, Zenon
  <2>3. d.reason \in Reasons
    BY <2>1 DEF Reasons
  <2> QED BY <1>2, <2>1, <2>2, <2>3, Zenon
<1>6. CASE c \notin off /\ c \in DOMAIN caps /\ ~(Cardinality(kept) >= caps[c].max)
  <2>1. d.allowed = TRUE /\ d.reason = "" /\ d.counted = kept \cup {n}
    BY <1>1, <1>6
  <2>2. d.allowed \in BOOLEAN /\ d.allowed
    BY <2>1, Zenon
  <2>3. d.reason \in Reasons
    BY <2>1 DEF Reasons
  <2> QED BY <1>2, <1>6, <2>1, <2>2, <2>3, Zenon
<1> QED BY <1>3, <1>4, <1>5, <1>6

Mentions(s, q, a) == {i \in DOMAIN s : s[i].to = q /\ s[i].about = a}
ToldIn(db, q, a) == Cardinality(Mentions(db.notes, q, a)) + Cardinality(Mentions(db.audit, q, a))
KeepsNotes(ns, ms) == Len(ns) <= Len(ms) /\ \A i \in DOMAIN ns : ms[i] = ns[i]

\* What a sequence says to one recipient of one subject can be counted.
LEMMA MentionsFinite ==
  ASSUME NEW T, NEW s \in Seq(T), NEW q, NEW a
  PROVE  IsFiniteSet(Mentions(s, q, a)) /\ Cardinality(Mentions(s, q, a)) \in Nat
<1>1. DOMAIN s = 1..Len(s) /\ Len(s) \in Nat
  OBVIOUS
<1>2. IsFiniteSet(1..Len(s))
  BY <1>1, FS_Interval
<1>3. Mentions(s, q, a) \in SUBSET (1..Len(s))
  BY <1>1 DEF Mentions
<1> QED BY <1>2, <1>3, FS_Subset, FS_CardinalityType

\* One more row counts once for whom it names.
LEMMA MentionsMore ==
  ASSUME NEW T, NEW s \in Seq(T), NEW x \in T, NEW q, NEW a
  PROVE  Cardinality(Mentions(Append(s, x), q, a)) =
           Cardinality(Mentions(s, q, a)) + (IF x.to = q /\ x.about = a THEN 1 ELSE 0)
<1> DEFINE n == Len(s) + 1
           old == Mentions(s, q, a)
           new == Mentions(Append(s, x), q, a)
<1>1. /\ DOMAIN s = 1..Len(s) /\ Len(s) \in Nat /\ DOMAIN Append(s, x) = 1..n
      /\ \A i \in 1..Len(s) : Append(s, x)[i] = s[i]
      /\ Append(s, x)[n] = x
  OBVIOUS
<1>2. new = old \cup (IF x.to = q /\ x.about = a THEN {n} ELSE {})
  BY <1>1 DEF Mentions
<1>3. n \notin old /\ IsFiniteSet(old) /\ Cardinality(old) \in Nat
  <2>1. n \notin old
    BY <1>1 DEF Mentions
  <2>2. IsFiniteSet(old) /\ Cardinality(old) \in Nat
    <3> HIDE DEF n
    <3> QED BY MentionsFinite
  <2> QED BY <2>1, <2>2
<1> HIDE DEF new, old, n
<1>4. CASE x.to = q /\ x.about = a
  <2>1. new = old \cup {n}
    BY <1>2, <1>4
  <2>2. Cardinality(new) = Cardinality(old) + 1
    BY <1>3, <2>1, FS_AddElement
  <2> QED BY <1>4, <2>2 DEF new, old
<1>5. CASE ~(x.to = q /\ x.about = a)
  <2>1. new = old
    BY <1>2, <1>5
  <2> QED BY <1>3, <1>5, <2>1 DEF new, old
<1> QED BY <1>4, <1>5

\* A broadcast of a new notification tells the sockets of its recipient and no other.
LEMMA BroadcastTells ==
  ASSUME NotificationAssumption, NEW socks \in [Sockets -> SocketState], NEW ns \in Seq(Note),
         Tells(socks, ns), NEW note \in Note, note.status = "UNREAD"
  PROVE  LET new == broadcastToRecipients(socks, note.to, {Len(ns) + 1}, {})
         IN  new \in [Sockets -> SocketState] /\ Tells(new, Append(ns, note))
<1> DEFINE n == Len(ns) + 1
           ms == Append(ns, note)
           r == note.to
           new == broadcastToRecipients(socks, r, {n}, {})
<1>1. /\ DOMAIN ns = 1..Len(ns) /\ Len(ns) \in Nat /\ DOMAIN ms = 1..n
      /\ \A i \in 1..Len(ns) : ms[i] = ns[i]
      /\ ms[n] = note
  OBVIOUS
<1>2. \A q : UnreadOf(ms, q) = UnreadOf(ns, q) \cup (IF q = r THEN {n} ELSE {})
  BY <1>1 DEF UnreadOf
<1>3. ASSUME NEW s \in Sockets
      PROVE  /\ new[s] \in SocketState
             /\ new[s].unread = IF new[s].open THEN UnreadOf(ms, Holder[s]) ELSE {}
  <2>1. isRecipientMatched(s, r) <=> Holder[s] = r
    <3>1. Holder[s] \in Recipients /\ r \in Recipients
      BY DEF NotificationAssumption, Note
    <3> QED BY <3>1 DEF isRecipientMatched, Recipients
  <2>2. new[s] = IF socks[s].open /\ isRecipientMatched(s, r)
                 THEN [socks[s] EXCEPT !.unread = (socks[s].unread \cup {n}) \ {}] ELSE socks[s]
    BY DEF broadcastToRecipients
  <2>3. socks[s] \in SocketState /\ n \in Nat
    BY <1>1
  <2>4. socks[s].unread = IF socks[s].open THEN UnreadOf(ns, Holder[s]) ELSE {}
    BY DEF Tells
  <2>5. UnreadOf(ms, Holder[s]) = UnreadOf(ns, Holder[s]) \cup (IF Holder[s] = r THEN {n} ELSE {})
    BY <1>2
  <2> HIDE DEF new, ms, n, r
  <2>6. CASE socks[s].open /\ Holder[s] = r
    <3>1. new[s] = [socks[s] EXCEPT !.unread = (socks[s].unread \cup {n}) \ {}]
      BY <2>1, <2>2, <2>6
    <3>2. new[s].open = socks[s].open /\ new[s].unread = socks[s].unread \cup {n}
      BY <2>3, <3>1 DEF SocketState
    <3>3. new[s] \in SocketState
      BY <2>3, <3>1 DEF SocketState
    <3> QED BY <2>4, <2>5, <2>6, <3>2, <3>3
  <2>7. CASE ~(socks[s].open /\ Holder[s] = r)
    <3>1. new[s] = socks[s]
      BY <2>1, <2>2, <2>7
    <3> QED BY <2>3, <2>4, <2>5, <2>7, <3>1
  <2> QED BY <2>6, <2>7
<1>4. new = [s \in Sockets |-> new[s]]
  BY DEF broadcastToRecipients
<1> HIDE DEF new, ms
<1>5. new \in [Sockets -> SocketState] /\ Tells(new, ms)
  BY <1>3, <1>4 DEF Tells
<1> QED BY <1>5 DEF new, ms

\* The first notification of a window that reaches one further is counted.
LEMMA WindowMore ==
  ASSUME NEW ns \in Seq(Note), NEW note \in Note, InTime(ns),
         NEW r \in Recipients, NEW c \in Categories, NEW window \in Int
  PROVE  /\ Recent(Append(ns, note), r, c, window) \subseteq
              Recent(ns, r, c, window)
                \cup (IF note.to = r /\ note.category = c THEN {Len(ns) + 1} ELSE {})
         /\ SentTo(Append(ns, note), r, c) =
              SentTo(ns, r, c) \cup (IF note.to = r /\ note.category = c THEN {Len(ns) + 1} ELSE {})
<1> DEFINE n == Len(ns) + 1
           ms == Append(ns, note)
<1>1. /\ DOMAIN ns = 1..Len(ns) /\ Len(ns) \in Nat /\ DOMAIN ms = 1..n /\ Len(ms) = n
      /\ \A i \in 1..Len(ns) : ms[i] = ns[i]
      /\ ms[n] = note
  OBVIOUS
<1>2. since[r] \in Nat
  BY <1>1 DEF InTime
<1> HIDE DEF ms
<1>3. SentTo(ms, r, c) = SentTo(ns, r, c) \cup (IF note.to = r /\ note.category = c THEN {n} ELSE {})
  BY <1>1 DEF SentTo
<1>4. Recent(ms, r, c, window) \subseteq
        Recent(ns, r, c, window) \cup (IF note.to = r /\ note.category = c THEN {n} ELSE {})
  <2> SUFFICES ASSUME NEW i \in Recent(ms, r, c, window), i # n
               PROVE  i \in Recent(ns, r, c, window)
    BY <1>1 DEF Recent
  <2>1. /\ i \in since[r] + 1..n /\ ms[i].to = r /\ ms[i].category = c
        /\ ms[i].createdAt >= clock - window
    BY <1>1 DEF Recent
  <2>2. i \in since[r] + 1..Len(ns) /\ i \in 1..Len(ns)
    BY <1>1, <1>2, <2>1
  <2>3. ms[i] = ns[i]
    BY <1>1, <2>2
  <2> QED BY <2>1, <2>2, <2>3 DEF Recent
<1> QED BY <1>3, <1>4 DEF ms

\* The notifications in a window can be counted.
LEMMA RecentIsFinite ==
  ASSUME NEW ns \in Seq(Note), InTime(ns), NEW r \in Recipients, NEW c, NEW window
  PROVE  IsFiniteSet(Recent(ns, r, c, window))
<1>1. since[r] + 1 \in Int /\ Len(ns) \in Int
  BY DEF InTime
<1>2. IsFiniteSet(since[r] + 1..Len(ns))
  BY <1>1, FS_Interval
<1>3. Recent(ns, r, c, window) \in SUBSET (since[r] + 1..Len(ns))
  BY DEF Recent
<1> QED BY <1>2, <1>3, FS_Subset

\* What is in the window and counted is retained.
LEMMA RecentIsRetained ==
  ASSUME NotificationAssumption, PreferencesOK, NEW db, DbOK(db), clock \in Nat,
         NEW r \in Recipients, NEW c \in DOMAIN CapsOf(r)
  PROVE  /\ Recent(db.notes, r, c, CapsOf(r)[c].window) \subseteq
              retained(db, db.dispatchState[<<r, c>>], CapsOf(r)[c])
         /\ CapsOf(r)[c] \in Cap /\ c \in Categories
         /\ IsFiniteSet(retained(db, db.dispatchState[<<r, c>>], CapsOf(r)[c]))
<1> DEFINE cap == CapsOf(r)[c]
           counted == db.dispatchState[<<r, c>>]
           kept == retained(db, counted, cap)
<1>1. cap \in Cap /\ c \in Categories
  BY CapsAre DEF GoodCap
<1>2. Recent(db.notes, r, c, cap.window) \subseteq counted
  BY DEF DbOK, Capped
<1>3. \A i \in Recent(db.notes, r, c, cap.window) : db.notes[i].createdAt >= clock - cap.window
  BY DEF Recent
<1>4. kept = {i \in counted : db.notes[i].createdAt >= clock - cap.window}
  BY DEF retained
<1>5. counted \subseteq SentTo(db.notes, r, c)
  BY <1>1 DEF DbOK, CountedOK
<1>6. IsFiniteSet(kept)
  <2>1. Len(db.notes) \in Nat /\ DOMAIN db.notes = 1..Len(db.notes)
    BY DEF DbOK, Db
  <2>2. IsFiniteSet(1..Len(db.notes))
    <3>1. \A n \in Nat : IsFiniteSet(1..n)
      BY FS_Interval
    <3> QED BY <2>1, <3>1
  <2>3. kept \in SUBSET (1..Len(db.notes))
    BY <1>4, <1>5, <2>1 DEF SentTo
  <2> QED BY <2>2, <2>3, FS_Subset
<1> HIDE DEF cap, counted, kept
<1>7. Recent(db.notes, r, c, cap.window) \subseteq kept
  BY <1>2, <1>3, <1>4
<1> QED BY <1>1, <1>6, <1>7 DEF cap, counted, kept

\* What holds when the caps agree that the deliveries counted are those kept.
CountsOne(counted, kept, cap, n, allowed) ==
    /\ kept \subseteq counted
    /\ allowed => n \in counted /\ ~(Cardinality(kept) >= cap.max)

\* A delivery that is allowed keeps what a database holds.
LEMMA AllowedKeeps ==
  ASSUME NotificationAssumption, PreferencesOK, clock \in Nat, NEW db, DbOK(db),
         NEW r \in Recipients, NEW c \in Categories, NEW about \in Subjects, NEW answer,
         answer \subseteq db.dispatchState[<<r, c>>] \cup {Len(db.notes) + 1},
         c \in DOMAIN CapsOf(r) =>
           CountsOne(answer, retained(db, db.dispatchState[<<r, c>>], CapsOf(r)[c]), CapsOf(r)[c],
                  Len(db.notes) + 1, TRUE),
         NEW note, note = [to |-> r, category |-> c, about |-> about, createdAt |-> clock,
                           expiresAt |-> clock + Retention, status |-> "UNREAD"],
         NEW new, new = [dispatchState |-> [db.dispatchState EXCEPT ![<<r, c>>] = answer],
                         notes |-> Append(db.notes, note), audit |-> db.audit,
                         sockets |-> broadcastToRecipients(db.sockets, r, {Len(db.notes) + 1}, {})]
  PROVE  DbOK(new)
<1> DEFINE ns == db.notes
           n == Len(ns) + 1
           ms == Append(ns, note)
           old == db.dispatchState
           counted == [old EXCEPT ![<<r, c>>] = answer]
           socks == broadcastToRecipients(db.sockets, r, {n}, {})
<1>1. /\ ns \in Seq(Note) /\ old \in [Recipients \X Categories -> SUBSET Nat]
      /\ db.audit \in Seq(Suppressed) /\ db.sockets \in [Sockets -> SocketState]
      /\ InTime(ns) /\ CountedOK(old, ns) /\ Capped(old, ns) /\ Tells(db.sockets, ns)
  BY DEF DbOK, Db
<1>2. /\ note \in Note /\ note.to = r /\ note.category = c
      /\ note.createdAt = clock /\ note.status = "UNREAD"
  <2>1. clock + Retention \in Nat
    BY DEF NotificationAssumption
  <2> QED BY <2>1 DEF Note
<1>3. /\ DOMAIN ns = 1..Len(ns) /\ Len(ns) \in Nat /\ DOMAIN ms = 1..n /\ Len(ms) = n
      /\ \A i \in 1..Len(ns) : ms[i] = ns[i]
      /\ ms[n] = note /\ ms \in Seq(Note)
  BY <1>1, <1>2
<1>4. new.dispatchState = counted /\ new.notes = ms /\ new.audit = db.audit /\ new.sockets = socks
  OBVIOUS
<1>5. socks \in [Sockets -> SocketState] /\ Tells(socks, ms)
  BY <1>1, <1>2, BroadcastTells
<1>6. /\ \A k \in Recipients \X Categories : counted[k] = IF k = <<r, c>> THEN answer ELSE old[k]
      /\ DOMAIN counted = Recipients \X Categories
  BY <1>1
<1>7. n \in Nat /\ answer \subseteq old[<<r, c>>] \cup {n}
  BY <1>3
<1>8. c \in DOMAIN CapsOf(r) =>
        CountsOne(answer, retained(db, old[<<r, c>>], CapsOf(r)[c]), CapsOf(r)[c], n, TRUE)
  OBVIOUS
<1>9. new \in [dispatchState : {counted}, notes : {ms}, audit : {db.audit}, sockets : {socks}]
  OBVIOUS
<1>10. counted = [k \in Recipients \X Categories |-> counted[k]]
  BY <1>1
<1> HIDE DEF ns, n, ms, old, counted, socks
<1>11. InTime(ms)
  <2>1. \A q \in Recipients : since[q] \in 0..Len(ms)
    BY <1>1, <1>3 DEF InTime, n
  <2>2. \A i \in DOMAIN ms : ms[i].createdAt <= clock
    <3> SUFFICES ASSUME NEW i \in 1..n PROVE ms[i].createdAt <= clock
      BY <1>3
    <3>1. CASE i = n
      BY <1>2, <1>3, <3>1
    <3>2. CASE i # n
      <4>1. i \in 1..Len(ns)
        BY <1>3, <3>2 DEF n
      <4> QED BY <1>1, <1>3, <4>1 DEF InTime
    <3> QED BY <3>1, <3>2
  <2>3. ASSUME NEW i \in DOMAIN ms, NEW j \in DOMAIN ms, i < j
        PROVE  ms[i].createdAt <= ms[j].createdAt
    <3>1. i \in 1..Len(ns) /\ i \in Nat /\ j \in Nat
      BY <1>3, <2>3 DEF n
    <3>2. CASE j = n
      <4>1. ms[j].createdAt = clock
        BY <1>2, <1>3, <3>2
      <4> QED BY <2>2, <4>1
    <3>3. CASE j # n
      <4>1. j \in 1..Len(ns)
        BY <1>3, <3>3 DEF n
      <4> QED BY <1>1, <1>3, <2>3, <3>1, <4>1 DEF InTime
    <3> QED BY <3>2, <3>3
  <2> QED BY <2>1, <2>2, <2>3 DEF InTime
<1>12. ASSUME NEW q \in Recipients, NEW d \in Categories
       PROVE  counted[<<q, d>>] \subseteq SentTo(ms, q, d)
  <2>1. /\ old[<<q, d>>] \subseteq SentTo(ns, q, d)
        /\ SentTo(ms, q, d) = SentTo(ns, q, d) \cup (IF r = q /\ c = d THEN {n} ELSE {})
    <3>1. SentTo(Append(ns, note), q, d) =
            SentTo(ns, q, d) \cup (IF note.to = q /\ note.category = d THEN {Len(ns) + 1} ELSE {})
      BY <1>1, <1>2, WindowMore, 0 \in Int
    <3> QED BY <1>1, <1>2, <3>1 DEF CountedOK, ms, n
  <2>2. <<q, d>> \in Recipients \X Categories
    OBVIOUS
  <2>3. CASE q = r /\ d = c
    <3>1. counted[<<q, d>>] = answer
      BY <1>6, <2>2, <2>3
    <3> QED BY <1>7, <2>1, <2>3, <3>1
  <2>4. CASE ~(q = r /\ d = c)
    <3>1. counted[<<q, d>>] = old[<<q, d>>]
      BY <1>6, <2>2, <2>4
    <3> QED BY <2>1, <3>1
  <2> QED BY <2>3, <2>4
<1>13. ASSUME NEW q \in Recipients, NEW d \in DOMAIN CapsOf(q)
       PROVE  LET recent == Recent(ms, q, d, CapsOf(q)[d].window)
              IN  recent \subseteq counted[<<q, d>>] /\ Cardinality(recent) <= CapsOf(q)[d].max
  <2> DEFINE cap == CapsOf(q)[d]
             recent == Recent(ms, q, d, cap.window)
             before == Recent(ns, q, d, cap.window)
             kept == retained(db, old[<<q, d>>], cap)
  <2>1. before \subseteq kept /\ cap \in Cap /\ d \in Categories /\ IsFiniteSet(kept)
    BY RecentIsRetained DEF ns, old
  <2>2. cap.window \in Int /\ cap.max \in Int
    BY <2>1 DEF Cap
  <2>3. IsFiniteSet(before) /\ IsFiniteSet(recent)
    BY <1>1, <1>3, <1>11, RecentIsFinite
  <2>4. before \subseteq old[<<q, d>>] /\ Cardinality(before) <= cap.max
    BY <1>1 DEF Capped
  <2>5. recent \subseteq before \cup (IF r = q /\ c = d THEN {n} ELSE {})
    <3> HIDE DEF cap
    <3>1. Recent(Append(ns, note), q, d, cap.window) \subseteq
            before \cup (IF note.to = q /\ note.category = d THEN {Len(ns) + 1} ELSE {})
      BY <1>1, <1>2, <2>1, <2>2, WindowMore
    <3> QED BY <1>2, <3>1 DEF ms, n
  <2>6. <<q, d>> \in Recipients \X Categories
    BY <2>1
  <2>7. q = r /\ d = c => CountsOne(answer, kept, cap, n, TRUE)
    BY <1>8
  <2> HIDE DEF recent, before, kept, cap
  <2>8. CASE q = r /\ d = c
    <3>1. counted[<<q, d>>] = answer
      BY <1>6, <2>6, <2>8
    <3>2. recent \subseteq kept \cup {n} /\ kept \subseteq answer /\ n \in answer
      BY <2>1, <2>5, <2>7, <2>8 DEF CountsOne
    <3>3. ~(Cardinality(kept) >= cap.max)
      BY <2>7, <2>8 DEF CountsOne
    <3>4. /\ IsFiniteSet(kept \cup {n}) /\ Cardinality(kept) \in Nat
          /\ Cardinality(kept \cup {n}) = IF n \in kept THEN Cardinality(kept) ELSE Cardinality(kept) + 1
      BY <2>1, FS_AddElement, FS_CardinalityType
    <3>5. Cardinality(recent) <= Cardinality(kept \cup {n}) /\ Cardinality(recent) \in Nat
      BY <2>3, <3>2, <3>4, FS_Subset, FS_CardinalityType
    <3>6. Cardinality(recent) <= cap.max
      BY <2>2, <3>3, <3>4, <3>5
    <3> QED BY <3>1, <3>2, <3>6 DEF recent, cap
  <2>9. CASE ~(q = r /\ d = c)
    <3>1. counted[<<q, d>>] = old[<<q, d>>]
      BY <1>6, <2>6, <2>9
    <3>2. recent \subseteq before
      BY <2>5, <2>9
    <3>3. /\ Cardinality(recent) <= Cardinality(before)
          /\ Cardinality(recent) \in Nat /\ Cardinality(before) \in Nat
      BY <2>3, <3>2, FS_Subset, FS_CardinalityType
    <3>4. Cardinality(recent) <= cap.max
      BY <2>2, <2>4, <3>3
    <3> QED BY <2>4, <3>1, <3>2, <3>4 DEF recent, cap
  <2> QED BY <2>8, <2>9
<1>14. \A k \in Recipients \X Categories : counted[k] \subseteq Nat
  <2>1. \A k \in Recipients \X Categories : old[k] \subseteq Nat
    BY <1>1
  <2>2. <<r, c>> \in Recipients \X Categories
    OBVIOUS
  <2>3. answer \subseteq Nat
    BY <1>7, <2>1, <2>2
  <2> QED BY <1>6, <2>1, <2>3
<1>15. counted \in [Recipients \X Categories -> SUBSET Nat]
  BY <1>10, <1>14
<1>16. new \in Db
  BY <1>1, <1>3, <1>5, <1>9, <1>15 DEF Db
<1>17. CountedOK(counted, ms)
  BY <1>12 DEF CountedOK
<1>18. Capped(counted, ms)
  BY <1>13 DEF Capped
<1> QED BY <1>4, <1>5, <1>11, <1>16, <1>17, <1>18 DEF DbOK

\* A delivery that is suppressed keeps what a database holds.
LEMMA RefusedKeeps ==
  ASSUME NotificationAssumption, PreferencesOK, clock \in Nat, NEW db, DbOK(db),
         NEW r \in Recipients, NEW c \in Categories, NEW answer,
         answer \subseteq db.dispatchState[<<r, c>>],
         c \in DOMAIN CapsOf(r) =>
           retained(db, db.dispatchState[<<r, c>>], CapsOf(r)[c]) \subseteq answer,
         NEW entry \in Suppressed,
         NEW new, new = [dispatchState |-> [db.dispatchState EXCEPT ![<<r, c>>] = answer],
                         notes |-> db.notes, audit |-> Append(db.audit, entry),
                         sockets |-> db.sockets]
  PROVE  DbOK(new)
<1> DEFINE ns == db.notes
           old == db.dispatchState
           counted == [old EXCEPT ![<<r, c>>] = answer]
           log == Append(db.audit, entry)
<1>1. /\ ns \in Seq(Note) /\ old \in [Recipients \X Categories -> SUBSET Nat]
      /\ db.audit \in Seq(Suppressed) /\ db.sockets \in [Sockets -> SocketState]
      /\ InTime(ns) /\ CountedOK(old, ns) /\ Capped(old, ns) /\ Tells(db.sockets, ns)
  BY DEF DbOK, Db
<1>2. log \in Seq(Suppressed)
  BY <1>1
<1>3. new.dispatchState = counted /\ new.notes = ns /\ new.audit = log /\ new.sockets = db.sockets
  OBVIOUS
<1>4. /\ \A k \in Recipients \X Categories : counted[k] = IF k = <<r, c>> THEN answer ELSE old[k]
      /\ counted = [k \in Recipients \X Categories |-> counted[k]]
  BY <1>1
<1>5. new \in [dispatchState : {counted}, notes : {ns}, audit : {log}, sockets : {db.sockets}]
  OBVIOUS
<1>6. answer \subseteq old[<<r, c>>] /\ <<r, c>> \in Recipients \X Categories
  OBVIOUS
<1>7. c \in DOMAIN CapsOf(r) => retained(db, old[<<r, c>>], CapsOf(r)[c]) \subseteq answer
  OBVIOUS
<1> HIDE DEF ns, old, counted, log
<1>8. \A k \in Recipients \X Categories : counted[k] \subseteq old[k] /\ old[k] \subseteq Nat
  BY <1>1, <1>4, <1>6
<1>9. counted \in [Recipients \X Categories -> SUBSET Nat]
  <2>1. \A k \in Recipients \X Categories : counted[k] \in SUBSET Nat
    BY <1>8
  <2> QED BY <1>4, <2>1
<1>10. new \in Db
  BY <1>1, <1>2, <1>5, <1>9 DEF Db
<1>11. CountedOK(counted, ns)
  <2> SUFFICES ASSUME NEW q \in Recipients, NEW d \in Categories
               PROVE  counted[<<q, d>>] \subseteq SentTo(ns, q, d)
    BY DEF CountedOK
  <2>1. old[<<q, d>>] \subseteq SentTo(ns, q, d)
    BY <1>1 DEF CountedOK
  <2>2. counted[<<q, d>>] \subseteq old[<<q, d>>]
    BY <1>8
  <2> QED BY <2>1, <2>2
<1>12. ASSUME NEW q \in Recipients, NEW d \in DOMAIN CapsOf(q)
       PROVE  LET recent == Recent(ns, q, d, CapsOf(q)[d].window)
              IN  recent \subseteq counted[<<q, d>>] /\ Cardinality(recent) <= CapsOf(q)[d].max
  <2> DEFINE cap == CapsOf(q)[d]
             recent == Recent(ns, q, d, cap.window)
             kept == retained(db, old[<<q, d>>], cap)
  <2>1. recent \subseteq kept /\ d \in Categories
    BY RecentIsRetained DEF ns, old
  <2>2. recent \subseteq old[<<q, d>>] /\ Cardinality(recent) <= cap.max
    BY <1>1 DEF Capped
  <2>3. q = r /\ d = c => kept \subseteq answer
    BY <1>7
  <2>4. <<q, d>> \in Recipients \X Categories
    BY <2>1
  <2>5. counted[<<q, d>>] = IF q = r /\ d = c THEN answer ELSE old[<<q, d>>]
    BY <1>4, <2>4
  <2> HIDE DEF recent, kept, cap
  <2>6. recent \subseteq counted[<<q, d>>] /\ Cardinality(recent) <= cap.max
    BY <2>1, <2>2, <2>3, <2>5
  <2> QED BY <2>6 DEF recent, cap
<1>13. Capped(counted, ns)
  BY <1>12 DEF Capped
<1> QED BY <1>1, <1>3, <1>10, <1>11, <1>13 DEF DbOK

\* One delivery: what it writes stays in order, and it is told of once.
LEMMA CreateKeeps ==
  ASSUME NotificationAssumption, PreferencesOK, clock \in Nat, NEW db, DbOK(db),
         NEW r \in Recipients, NEW c \in Categories, NEW about \in Subjects
  PROVE  LET new == createNotification(db, r, c, about)
         IN  /\ DbOK(new) /\ KeepsNotes(db.notes, new.notes)
             /\ \A q, a : ToldIn(new, q, a) = ToldIn(db, q, a) + (IF q = r /\ a = about THEN 1 ELSE 0)
             /\ \A q, a : ToldIn(db, q, a) \in Nat
<1> DEFINE d == shouldDeliverNotification(db, r, c)
           old == db.dispatchState[<<r, c>>]
           n == Len(db.notes) + 1
           kept == retained(db, old, CapsOf(r)[c])
           counted == [db.dispatchState EXCEPT ![<<r, c>>] = d.counted]
           note == [to |-> r, category |-> c, about |-> about, createdAt |-> clock,
                    expiresAt |-> clock + Retention, status |-> "UNREAD"]
           entry == [to |-> r, category |-> c, about |-> about, reason |-> d.reason]
           sentTo == [dispatchState |-> counted, notes |-> Append(db.notes, note), audit |-> db.audit,
                    sockets |-> broadcastToRecipients(db.sockets, r, {n}, {})]
           refused == [dispatchState |-> counted, notes |-> db.notes,
                       audit |-> Append(db.audit, entry), sockets |-> db.sockets]
           new == createNotification(db, r, c, about)
<1>1. new = IF d.allowed THEN sentTo ELSE refused
  BY DEF createNotification
<1>2. /\ d.allowed \in BOOLEAN /\ d.reason \in Reasons
      /\ d.counted \subseteq old \cup (IF d.allowed THEN {n} ELSE {})
      /\ c \in DOMAIN CapsOf(r) =>
           /\ kept \subseteq d.counted
           /\ d.allowed => n \in d.counted /\ ~(Cardinality(kept) >= CapsOf(r)[c].max)
  BY ShouldDeliver
<1>3. db.notes \in Seq(Note) /\ db.audit \in Seq(Suppressed)
  BY DEF DbOK, Db
<1>4. note \in Note /\ note.to = r /\ note.about = about
  <2>1. clock + Retention \in Nat
    BY DEF NotificationAssumption
  <2> QED BY <2>1 DEF Note
<1>5. entry \in Suppressed /\ entry.to = r /\ entry.about = about
  BY <1>2 DEF Suppressed
<1>6. \A q, a : /\ Cardinality(Mentions(db.notes, q, a)) \in Nat
                /\ Cardinality(Mentions(db.audit, q, a)) \in Nat
  BY <1>3, MentionsFinite
<1> DEFINE one(q, a) == IF q = r /\ a = about THEN 1 ELSE 0
<1>7. ASSUME d.allowed
      PROVE  /\ DbOK(sentTo) /\ KeepsNotes(db.notes, sentTo.notes)
             /\ \A q, a : ToldIn(sentTo, q, a) = ToldIn(db, q, a) + one(q, a)
  <2>1. d.counted \subseteq old \cup {n}
    BY <1>2, <1>7
  <2>2. c \in DOMAIN CapsOf(r) => CountsOne(d.counted, kept, CapsOf(r)[c], n, TRUE)
    BY <1>2, <1>7 DEF CountsOne
  <2>3. DbOK(sentTo)
    <3> HIDE DEF d
    <3> QED BY <2>1, <2>2, AllowedKeeps
  <2>4. sentTo.notes = Append(db.notes, note) /\ sentTo.audit = db.audit
    OBVIOUS
  <2> HIDE DEF sentTo, note
  <2>5. KeepsNotes(db.notes, sentTo.notes)
    BY <1>3, <1>4, <2>4 DEF KeepsNotes
  <2>6. ASSUME NEW q, NEW a PROVE ToldIn(sentTo, q, a) = ToldIn(db, q, a) + one(q, a)
    <3>1. Cardinality(Mentions(Append(db.notes, note), q, a)) =
            Cardinality(Mentions(db.notes, q, a)) + (IF note.to = q /\ note.about = a THEN 1 ELSE 0)
      BY <1>3, <1>4, MentionsMore
    <3> QED BY <1>4, <1>6, <2>4, <3>1 DEF ToldIn
  <2> QED BY <2>3, <2>5, <2>6
<1>8. ASSUME ~d.allowed
      PROVE  /\ DbOK(refused) /\ KeepsNotes(db.notes, refused.notes)
             /\ \A q, a : ToldIn(refused, q, a) = ToldIn(db, q, a) + one(q, a)
  <2>1. d.counted \subseteq old
    BY <1>2, <1>8
  <2>2. c \in DOMAIN CapsOf(r) => kept \subseteq d.counted
    BY <1>2
  <2>3. DbOK(refused)
    <3> HIDE DEF d, entry
    <3> QED BY <1>5, <2>1, <2>2, RefusedKeeps
  <2>4. refused.notes = db.notes /\ refused.audit = Append(db.audit, entry)
    OBVIOUS
  <2> HIDE DEF refused, entry
  <2>5. KeepsNotes(db.notes, refused.notes)
    BY <1>3, <2>4 DEF KeepsNotes
  <2>6. ASSUME NEW q, NEW a PROVE ToldIn(refused, q, a) = ToldIn(db, q, a) + one(q, a)
    <3>1. Cardinality(Mentions(Append(db.audit, entry), q, a)) =
            Cardinality(Mentions(db.audit, q, a)) + (IF entry.to = q /\ entry.about = a THEN 1 ELSE 0)
      BY <1>3, <1>5, MentionsMore
    <3> QED BY <1>5, <1>6, <2>4, <3>1 DEF ToldIn
  <2> QED BY <2>3, <2>5, <2>6
<1>9. \A q, a : ToldIn(db, q, a) \in Nat
  BY <1>6 DEF ToldIn
<1> HIDE DEF new, sentTo, refused, d
<1>10. CASE d.allowed
  <2>1. new = sentTo
    BY <1>1, <1>10
  <2> QED BY <1>7, <1>9, <1>10, <2>1 DEF new
<1>11. CASE ~d.allowed
  <2>1. new = refused
    BY <1>1, <1>11
  <2> QED BY <1>8, <1>9, <1>11, <2>1 DEF new
<1> QED BY <1>10, <1>11

\* The recursion of createAll, up to the k-th recipient.
Deliveries(f, k, db, rs, c, about) ==
    f = [n \in 0..k |-> IF n = 0 THEN db ELSE createNotification(f[n - 1], rs[n], c, about)]

\* The recursion of createAll has a solution.
LEMMA DeliveriesExist ==
  ASSUME NEW db, NEW rs, NEW c, NEW about, NEW m \in Nat
  PROVE  \E f : Deliveries(f, m, db, rs, c, about)
<1> DEFINE B == {k \in 0..m : ~\E f : Deliveries(f, k, db, rs, c, about)}
<1>1. SUFFICES ASSUME B # {} PROVE FALSE
  OBVIOUS
<1>2. B \in SUBSET Nat /\ IsFiniteSet(B)
  <2> DEFINE all == 0..m
  <2>1. IsFiniteSet(all)
    BY FS_Interval
  <2>2. B \in SUBSET all /\ all \in SUBSET Nat
    OBVIOUS
  <2> HIDE DEF B, all
  <2> QED BY <2>1, <2>2, FS_Subset
<1>3. PICK k \in B : \A j \in B : k <= j
  <2> HIDE DEF B
  <2> QED BY <1>1, <1>2, LeastNumber
<1>4. k \in 0..m /\ ~\E f : Deliveries(f, k, db, rs, c, about)
  OBVIOUS
<1>5. CASE k = 0
  <2> DEFINE f == [n \in 0..0 |-> db]
  <2>1. f = [n \in 0..0 |-> IF n = 0 THEN db ELSE createNotification(f[n - 1], rs[n], c, about)]
    <3>1. \A n \in 0..0 : n = 0
      OBVIOUS
    <3> QED BY <3>1
  <2>2. Deliveries(f, 0, db, rs, c, about)
    BY <2>1 DEF Deliveries
  <2> QED BY <1>4, <1>5, <2>2
<1>6. CASE k # 0
  <2>1. k - 1 \in 0..m /\ ~(k <= k - 1) /\ k \in Nat
    BY <1>4, <1>6
  <2>2. k - 1 \notin B
    BY <1>3, <2>1
  <2>3. PICK f : Deliveries(f, k - 1, db, rs, c, about)
    BY <2>1, <2>2
  <2> DEFINE step(g, n) == IF n = 0 THEN db ELSE createNotification(g[n - 1], rs[n], c, about)
             g == [n \in 0..k |-> IF n = k THEN step(f, k) ELSE f[n]]
  <2>4. \A n \in 0..k - 1 : f[n] = step(f, n)
    BY <2>3 DEF Deliveries
  <2>5. \A n \in 0..k - 1 : n # k /\ n \in 0..k
    BY <2>1
  <2>6. \A n \in 0..k : n # k => n \in 0..k - 1
    BY <2>1
  <2>7. \A n \in 0..k : n # 0 => n - 1 \in 0..k - 1
    BY <2>1
  <2>8. \A n \in 0..k - 1 : g[n] = f[n]
    BY <2>5
  <2>9. \A n \in 0..k : step(f, n) = step(g, n)
    BY <2>7, <2>8
  <2>10. \A n \in 0..k : g[n] = step(g, n)
    <3>1. \A n \in 0..k : g[n] = step(f, n)
      BY <2>4, <2>6
    <3> HIDE DEF g, step
    <3> QED BY <2>9, <3>1
  <2>11. g = [n \in 0..k |-> g[n]]
    OBVIOUS
  <2>12. g = [n \in 0..k |-> step(g, n)]
    <3> HIDE DEF g, step
    <3> QED BY <2>10, <2>11
  <2>13. Deliveries(g, k, db, rs, c, about)
    <3> HIDE DEF g
    <3> QED BY <2>12 DEF Deliveries
  <2> QED BY <1>4, <2>13
<1> QED BY <1>5, <1>6

\* createAll: every recipient once, in order.
LEMMA AllDelivered ==
  ASSUME NotificationAssumption, PreferencesOK, clock \in Nat, NEW db, DbOK(db),
         NEW rs \in Seq(Recipients), NEW c \in Categories, NEW about \in Subjects
  PROVE  LET new == createAll(db, rs, c, about)
         IN  /\ DbOK(new) /\ KeepsNotes(db.notes, new.notes)
             /\ \A q, a : a # about => ToldIn(new, q, a) = ToldIn(db, q, a)
             /\ \A q : (\A i \in 1..Len(rs) : rs[i] # q) => ToldIn(new, q, about) = ToldIn(db, q, about)
             /\ \A q : (\A i, j \in 1..Len(rs) : rs[i] = rs[j] => i = j) /\ (\E i \in 1..Len(rs) : rs[i] = q)
                        => ToldIn(new, q, about) = ToldIn(db, q, about) + 1
             /\ \A q, a : ToldIn(db, q, a) \in Nat
<1> DEFINE m == Len(rs)
           after == CHOOSE f : Deliveries(f, m, db, rs, c, about)
           new == createAll(db, rs, c, about)
           distinct == \A i, j \in 1..m : rs[i] = rs[j] => i = j
           Right(n) == /\ DbOK(after[n]) /\ KeepsNotes(db.notes, after[n].notes)
                       /\ \A q, a : a # about => ToldIn(after[n], q, a) = ToldIn(db, q, a)
                       /\ \A q : (\A i \in 1..n : rs[i] # q) => ToldIn(after[n], q, about) = ToldIn(db, q, about)
                       /\ \A q : distinct /\ (\E i \in 1..n : rs[i] = q)
                                   => ToldIn(after[n], q, about) = ToldIn(db, q, about) + 1
           B == {n \in 0..m : ~Right(n)}
           Goal(x) ==
             /\ DbOK(x) /\ KeepsNotes(db.notes, x.notes)
             /\ \A q, a : a # about => ToldIn(x, q, a) = ToldIn(db, q, a)
             /\ \A q : (\A i \in 1..m : rs[i] # q) => ToldIn(x, q, about) = ToldIn(db, q, about)
             /\ \A q : distinct /\ (\E i \in 1..m : rs[i] = q)
                         => ToldIn(x, q, about) = ToldIn(db, q, about) + 1
             /\ \A q, a : ToldIn(db, q, a) \in Nat
<1> SUFFICES Goal(new)
  OBVIOUS
<1>1. m \in Nat /\ \A i \in 1..m : rs[i] \in Recipients
  OBVIOUS
<1>2. new = after[m]
  BY DEF createAll, Deliveries
<1>3. Deliveries(after, m, db, rs, c, about)
  BY <1>1, DeliveriesExist
<1> HIDE DEF after, m
<1>4. \A n \in 0..m : after[n] = IF n = 0 THEN db ELSE createNotification(after[n - 1], rs[n], c, about)
  BY <1>3 DEF Deliveries
<1>5. \A q, a : ToldIn(db, q, a) \in Nat
  <2>1. db.notes \in Seq(Note) /\ db.audit \in Seq(Suppressed)
    BY DEF DbOK, Db
  <2>2. \A q, a : /\ Cardinality(Mentions(db.notes, q, a)) \in Nat
                  /\ Cardinality(Mentions(db.audit, q, a)) \in Nat
    BY <2>1, MentionsFinite
  <2> QED BY <2>2 DEF ToldIn
<1>6. Right(0)
  <2>1. 0 \in 0..m
    BY <1>1
  <2>2. after[0] = db
    BY <1>4, <2>1
  <2>3. KeepsNotes(db.notes, db.notes)
    <3>1. Len(db.notes) \in Nat
      BY DEF DbOK, Db
    <3> QED BY <3>1 DEF KeepsNotes
  <2>4. \A i \in 1..0 : FALSE
    OBVIOUS
  <2> QED BY <2>2, <2>3, <2>4
<1>7. ASSUME NEW n \in 1..m, Right(n - 1) PROVE Right(n)
  <2> DEFINE prev == after[n - 1]
             next == after[n]
  <2>1. /\ n \in 0..m /\ n # 0 /\ rs[n] \in Recipients /\ n \in Nat
        /\ \A i \in 1..n - 1 : i \in 1..n /\ i \in 1..m /\ i # n
        /\ \A i \in 1..n : i \in 1..n - 1 \/ i = n
        /\ n \in 1..n
    BY <1>1
  <2>2. next = createNotification(prev, rs[n], c, about)
    BY <1>4, <2>1
  <2>3. DbOK(prev) /\ KeepsNotes(db.notes, prev.notes)
    BY <1>7
  <2>4. \A q, a : a # about => ToldIn(prev, q, a) = ToldIn(db, q, a)
    BY <1>7
  <2>5. \A q : (\A i \in 1..n - 1 : rs[i] # q) => ToldIn(prev, q, about) = ToldIn(db, q, about)
    BY <1>7
  <2>6. \A q : distinct /\ (\E i \in 1..n - 1 : rs[i] = q)
                  => ToldIn(prev, q, about) = ToldIn(db, q, about) + 1
    BY <1>7
  <2> HIDE DEF prev, next
  <2>7. /\ DbOK(next) /\ KeepsNotes(prev.notes, next.notes)
        /\ \A q, a : ToldIn(next, q, a) = ToldIn(prev, q, a) + (IF q = rs[n] /\ a = about THEN 1 ELSE 0)
        /\ \A q, a : ToldIn(prev, q, a) \in Nat
    BY <2>1, <2>2, <2>3, CreateKeeps
  <2>8. KeepsNotes(db.notes, next.notes)
    <3>1. /\ Len(db.notes) \in Nat /\ Len(prev.notes) \in Nat /\ Len(next.notes) \in Nat
          /\ DOMAIN db.notes = 1..Len(db.notes) /\ DOMAIN prev.notes = 1..Len(prev.notes)
      BY <2>3, <2>7 DEF DbOK, Db
    <3> QED BY <2>3, <2>7, <3>1 DEF KeepsNotes
  <2>9. ASSUME NEW q, NEW a, a # about PROVE ToldIn(next, q, a) = ToldIn(db, q, a)
    BY <2>4, <2>7, <2>9
  <2>10. ASSUME NEW q, \A i \in 1..n : rs[i] # q PROVE ToldIn(next, q, about) = ToldIn(db, q, about)
    <3>1. ToldIn(prev, q, about) = ToldIn(db, q, about) /\ rs[n] # q
      BY <2>1, <2>5, <2>10
    <3> QED BY <2>7, <3>1
  <2>11. ASSUME NEW q, distinct, \E i \in 1..n : rs[i] = q
         PROVE  ToldIn(next, q, about) = ToldIn(db, q, about) + 1
    <3>1. CASE rs[n] = q
      <4>1. \A i \in 1..n - 1 : rs[i] # q
        BY <2>1, <2>11, <3>1
      <4> QED BY <2>5, <2>7, <3>1, <4>1
    <3>2. CASE rs[n] # q
      <4>1. \E i \in 1..n - 1 : rs[i] = q
        BY <2>1, <2>11, <3>2
      <4>2. ToldIn(prev, q, about) = ToldIn(db, q, about) + 1
        BY <2>6, <2>11, <4>1
      <4> QED BY <2>7, <3>2, <4>2
    <3> QED BY <3>1, <3>2
  <2> HIDE DEF distinct
  <2> QED BY <2>7, <2>8, <2>9, <2>10, <2>11 DEF next
<1>8. Right(m)
  <2> SUFFICES ASSUME B # {} PROVE FALSE
    BY <1>1
  <2>1. B \in SUBSET Nat /\ IsFiniteSet(B)
    <3> DEFINE all == 0..m
    <3>1. IsFiniteSet(all)
      BY <1>1, FS_Interval
    <3>2. B \in SUBSET all /\ all \in SUBSET Nat
      OBVIOUS
    <3> HIDE DEF B, all
    <3> QED BY <3>1, <3>2, FS_Subset
  <2>2. PICK k \in B : \A j \in B : k <= j
    <3> HIDE DEF B
    <3> QED BY <2>1, LeastNumber
  <2>3. k \in 0..m /\ ~Right(k)
    OBVIOUS
  <2> HIDE DEF Right
  <2>4. k # 0
    BY <1>6, <2>3
  <2>5. k \in 1..m /\ k - 1 \in 0..m /\ ~(k <= k - 1)
    BY <1>1, <2>3, <2>4
  <2>6. Right(k - 1)
    BY <2>2, <2>5
  <2> QED BY <1>7, <2>3, <2>5, <2>6
<1> HIDE DEF new
<1>9. Goal(after[m])
  <2> HIDE DEF distinct
  <2> QED BY <1>5, <1>8, Zenon
<1> HIDE DEF Goal, Right
<1> QED BY <1>2, <1>9

-----------------------------------------------------------------------------
Seen(pages, i) == \E k \in DOMAIN pages : i \in pages[k]
Disjoint(pages) == \A k, l \in DOMAIN pages : k # l => pages[k] \cap pages[l] = {}
Reading == [who : SUBSET Recipients, status : {"ALL", "UNREAD", "READ"}, cursor : Nat,
            pages : Seq(SUBSET Nat), began : SUBSET Nat, more : BOOLEAN]
ReadingOK ==
    /\ reading \in Reading /\ reading.cursor <= Len(notes) /\ reading.began \subseteq DOMAIN notes
    /\ reading.status = "READ" => \A i \in reading.began : notes[i].status = "READ"
    /\ Disjoint(reading.pages)
    /\ \A i \in Nat : Seen(reading.pages, i) => reading.cursor > 0 /\ i >= reading.cursor
    /\ \A r \in reading.who : \A i \in reading.began :
        i \in listRowsForRecipient(r, reading.status) =>
            \/ Seen(reading.pages, i)
            \/ reading.more /\ (reading.cursor = 0 \/ i < reading.cursor)

Event == [from : {""} \cup Statuses, to : Statuses, at : Nat]
Ticket == [user : Users, status : Statuses, updatedAt : Nat, timeline : Seq(Event)]
TicketsOK ==
    /\ tickets \in Seq(Ticket)
    /\ \A t \in 1..Len(tickets) :
        LET ticket == tickets[t]
            last == ticket.timeline[Len(ticket.timeline)]
        IN  /\ Len(ticket.timeline) >= 1 /\ ticket.updatedAt <= clock
            /\ ticket.status = last.to /\ ticket.updatedAt = last.at

Paging == [who : SUBSET ({"STAFF"} \cup Users), cursor : [at : Nat, ticket : Nat],
           pages : Seq(SUBSET Nat), began : Nat, at : Nat, more : BOOLEAN]
PagingOK ==
    /\ paging \in Paging /\ paging.began <= Len(tickets) /\ paging.at <= clock
    /\ Disjoint(paging.pages)
    /\ \A t \in Nat : Seen(paging.pages, t) => t \in 1..Len(tickets) /\ ~PastTicket(paging.cursor, t)
    /\ \A who \in paging.who : \A t \in 1..paging.began :
        ensureTicketAccess(who, t) =>
            \/ Seen(paging.pages, t) \/ tickets[t].updatedAt >= paging.at
            \/ paging.more /\ PastTicket(paging.cursor, t)

\* Every event there is was told those it is for, and nobody else; none that is not.
NewsOK ==
    \A r \in Recipients, t, n \in Nat :
        /\ /\ t \in 1..Len(tickets) /\ n \in 1..Len(tickets[t].timeline) /\ r \in ToldOf(t, n)
           => Told(r, About(t, n)) = 1
        /\ \/ t > Len(tickets)
           \/ t \in 1..Len(tickets) /\ n > Len(tickets[t].timeline)
           \/ t \in 1..Len(tickets) /\ n \in 1..Len(tickets[t].timeline) /\ r \notin ToldOf(t, n)
           => Told(r, About(t, n)) = 0

DbHolds ==
    /\ dispatchState \in [Recipients \X Categories -> SUBSET Nat]
    /\ notes \in Seq(Note) /\ audit \in Seq(Suppressed) /\ sockets \in [Sockets -> SocketState]
    /\ InTime(notes) /\ CountedOK(dispatchState, notes) /\ Capped(dispatchState, notes)
    /\ Tells(sockets, notes)
CountersOK ==
    /\ clock \in 0..MaxTime /\ emits \in 0..MaxEmits /\ calls \in 0..MaxCalls
    /\ DOMAIN since = Recipients
InboxInv ==
    /\ CountersOK /\ PreferencesOK /\ DbHolds /\ ReadingOK /\ TicketsOK /\ PagingOK /\ NewsOK

\* The variables hold what a database of them holds.
LEMMA TheDb ==
  /\ DbHolds <=> DbOK(DeliveryState)
  /\ DeliveryState.notes = notes
  /\ \A q, a : Told(q, a) = ToldIn(DeliveryState, q, a)
<1>1. /\ DeliveryState.notes = notes /\ DeliveryState.audit = audit
      /\ DeliveryState.dispatchState = dispatchState /\ DeliveryState.sockets = sockets
  BY DEF DeliveryState
<1>2. DeliveryState \in Db <=> /\ dispatchState \in [Recipients \X Categories -> SUBSET Nat]
                               /\ notes \in Seq(Note) /\ audit \in Seq(Suppressed)
                               /\ sockets \in [Sockets -> SocketState]
  BY DEF Db, DeliveryState
<1>3. DbHolds <=> DbOK(DeliveryState)
  BY <1>1, <1>2 DEF DbHolds, DbOK
<1>4. \A q, a : Told(q, a) = ToldIn(DeliveryState, q, a)
  BY <1>1 DEF Told, ToldIn, Mentions
<1> QED BY <1>1, <1>3, <1>4

\* The caps are those of the preferences.
LEMMA SameCaps ==
  ASSUME UNCHANGED preferences
  PROVE  \A r : CapsOf(r)' = CapsOf(r)
<1> QED BY DEF CapsOf, getRecipientPreference

\* What is delivered is what the variables hold next.
LEMMA DeliverKeeps ==
  ASSUME NEW db, DbOK(db), Deliver(db), UNCHANGED <<clock, preferences, since>>
  PROVE  /\ DbHolds' /\ notes' = db.notes
         /\ \A q, a : Told(q, a)' = ToldIn(db, q, a)
<1>1. /\ notes' = db.notes /\ audit' = db.audit /\ dispatchState' = db.dispatchState
      /\ sockets' = db.sockets /\ clock' = clock /\ since' = since
  BY DEF Deliver
<1>2. \A q, a : Told(q, a)' = ToldIn(db, q, a)
  BY <1>1 DEF Told, ToldIn, Mentions
<1>3. /\ dispatchState' \in [Recipients \X Categories -> SUBSET Nat]
      /\ notes' \in Seq(Note) /\ audit' \in Seq(Suppressed) /\ sockets' \in [Sockets -> SocketState]
  BY <1>1 DEF DbOK, Db
<1>4. InTime(notes)'
  BY <1>1 DEF DbOK, InTime
<1>5. CountedOK(dispatchState, notes)'
  BY <1>1 DEF DbOK, CountedOK, SentTo
<1>6. Tells(sockets, notes)'
  BY <1>1 DEF DbOK, Tells, UnreadOf
<1>7. Capped(dispatchState, notes)'
  <2>1. \A r : CapsOf(r)' = CapsOf(r)
    BY SameCaps
  <2>2. \A r, c, w : Recent(notes, r, c, w)' = Recent(db.notes, r, c, w)
    BY <1>1 DEF Recent
  <2>3. Capped(db.dispatchState, db.notes)
    BY DEF DbOK
  <2> QED BY <1>1, <2>1, <2>2, <2>3 DEF Capped
<1> QED BY <1>1, <1>2, <1>3, <1>4, <1>5, <1>6, <1>7 DEF DbHolds

\* What the pages of an inbox need of a step that does not read.
LEMMA ReadingKeeps ==
  ASSUME ReadingOK, clock \in Nat, clock' \in Nat, clock <= clock', UNCHANGED reading,
         notes \in Seq(Note), notes' \in Seq(Note), Len(notes) <= Len(notes'),
         \A i \in DOMAIN notes : /\ notes'[i].to = notes[i].to
                                 /\ notes'[i].expiresAt = notes[i].expiresAt
                                 /\ notes[i].status = "READ" => notes'[i].status = "READ"
  PROVE  ReadingOK'
<1>1. /\ Len(notes) \in Nat /\ Len(notes') \in Nat /\ DOMAIN notes = 1..Len(notes)
      /\ DOMAIN notes' = 1..Len(notes') /\ DOMAIN notes \subseteq DOMAIN notes'
  OBVIOUS
<1>2. \A i \in DOMAIN notes : /\ notes[i].status \in {"UNREAD", "READ"} /\ notes[i].expiresAt \in Nat
                              /\ notes'[i].status \in {"UNREAD", "READ"}
  <2> SUFFICES ASSUME NEW i \in DOMAIN notes
               PROVE  /\ notes[i].status \in {"UNREAD", "READ"} /\ notes[i].expiresAt \in Nat
                      /\ notes'[i].status \in {"UNREAD", "READ"}
    OBVIOUS
  <2>1. notes[i] \in Note /\ notes'[i] \in Note
    BY <1>1
  <2> QED BY <2>1 DEF Note
<1>3. \A r \in reading.who : \A i \in reading.began :
        i \in listRowsForRecipient(r, reading.status)' => i \in listRowsForRecipient(r, reading.status)
  <2> SUFFICES ASSUME NEW r \in reading.who, NEW i \in reading.began,
                      i \in listRowsForRecipient(r, reading.status)'
               PROVE  i \in listRowsForRecipient(r, reading.status)
    OBVIOUS
  <2>1. /\ i \in DOMAIN notes /\ reading' = reading
        /\ reading.status \in {"ALL", "UNREAD", "READ"}
        /\ reading.status = "READ" => notes[i].status = "READ"
    BY DEF ReadingOK, Reading
  <2>2. /\ notes'[i].to = r /\ notes'[i].expiresAt >= clock'
        /\ reading.status = "ALL" \/ notes'[i].status = reading.status
    BY <2>1 DEF listRowsForRecipient, Owned
  <2>3. notes[i].to = r /\ notes[i].expiresAt >= clock
    BY <1>2, <2>1, <2>2
  <2>4. reading.status = "ALL" \/ notes[i].status = reading.status
    BY <1>2, <2>1, <2>2
  <2> QED BY <2>1, <2>3, <2>4 DEF listRowsForRecipient, Owned
<1>5. /\ reading' = reading /\ reading.cursor \in Nat
      /\ reading.cursor <= Len(notes') /\ reading.began \subseteq DOMAIN notes'
  BY <1>1 DEF ReadingOK, Reading
<1>6. reading.status = "READ" => \A i \in reading.began : notes'[i].status = "READ"
  BY DEF ReadingOK
<1> QED BY <1>3, <1>5, <1>6 DEF ReadingOK

\* The tickets and their news, after a step that touches neither.
LEMMA TicketsStay ==
  ASSUME CountersOK, CountersOK', clock <= clock', UNCHANGED <<tickets, paging>>,
         TicketsOK, PagingOK, NewsOK,
         \A q, t, n : Told(q, About(t, n))' = Told(q, About(t, n))
  PROVE  TicketsOK' /\ PagingOK' /\ NewsOK'
<1>0. clock \in Nat /\ clock' \in Nat
  BY DEF CountersOK
<1>1. TicketsOK'
  <2> SUFFICES ASSUME NEW t \in 1..Len(tickets) PROVE tickets[t].updatedAt <= clock'
    BY DEF TicketsOK
  <2>1. tickets[t] \in Ticket /\ tickets[t].updatedAt <= clock
    BY DEF TicketsOK
  <2>2. tickets[t].updatedAt \in Nat
    BY <2>1 DEF Ticket
  <2> QED BY <1>0, <2>1, <2>2
<1>2. PagingOK'
  <2>1. paging.at <= clock'
    <3>1. paging.at \in Nat /\ paging.at <= clock
      BY DEF PagingOK, Paging
    <3> QED BY <1>0, <3>1
  <2> QED BY <2>1 DEF PagingOK, PastTicket, ensureTicketAccess
<1>3. NewsOK'
  BY DEF NewsOK, ToldOf
<1> QED BY <1>1, <1>2, <1>3

\* A ticket is not an approval or a decision.
LEMMA SubjectsDiffer ==
  ASSUME NEW t, NEW n, NEW m
  PROVE  About(t, n) # <<"approval", m, 0>> /\ About(t, n) # <<"decision", m, 0>>
<1> QED BY DEF About

\* A delivery that is not about a ticket.
LEMMA EmitKeeps ==
  ASSUME NotificationAssumption, InboxInv, NEW rs \in Seq(Recipients), NEW c \in Categories,
         NEW about \in Subjects, \A t, n : About(t, n) # about,
         Deliver(createAll(DeliveryState, rs, c, about)),
         UNCHANGED <<clock, preferences, reading, since, calls, tickets, paging>>,
         emits' \in 0..MaxEmits
  PROVE  InboxInv'
<1> DEFINE db == createAll(DeliveryState, rs, c, about)
<1>1. /\ CountersOK /\ PreferencesOK /\ DbHolds /\ ReadingOK /\ TicketsOK /\ PagingOK /\ NewsOK
      /\ clock \in Nat
  BY DEF InboxInv, CountersOK
<1>2. /\ DbOK(DeliveryState) /\ DeliveryState.notes = notes
      /\ \A q, a : Told(q, a) = ToldIn(DeliveryState, q, a)
  BY <1>1, TheDb
<1>3. /\ DbOK(db) /\ KeepsNotes(notes, db.notes)
      /\ \A q, a : a # about => ToldIn(db, q, a) = ToldIn(DeliveryState, q, a)
  BY <1>1, <1>2, AllDelivered
<1> HIDE DEF db
<1>4. Deliver(db)
  BY DEF db
<1>5. DbHolds' /\ notes' = db.notes /\ \A q, a : Told(q, a)' = ToldIn(db, q, a)
  BY <1>3, <1>4, DeliverKeeps
<1>6. CountersOK'
  BY <1>1 DEF CountersOK
<1>7. PreferencesOK'
  BY <1>1 DEF PreferencesOK
<1>8. ReadingOK'
  <2>1. /\ notes \in Seq(Note) /\ notes' \in Seq(Note) /\ Len(notes) <= Len(notes')
        /\ \A i \in DOMAIN notes : notes'[i] = notes[i]
    BY <1>1, <1>3, <1>5 DEF DbHolds, KeepsNotes
  <2>2. clock <= clock' /\ clock' \in Nat
    BY <1>1
  <2> QED BY <1>1, <2>1, <2>2, ReadingKeeps
<1>9. \A q, t, n : Told(q, About(t, n))' = Told(q, About(t, n))
  BY <1>2, <1>3, <1>5
<1>10. TicketsOK' /\ PagingOK' /\ NewsOK'
  <2>1. clock <= clock'
    BY <1>1
  <2> QED BY <1>1, <1>6, <1>9, <2>1, TicketsStay
<1> QED BY <1>5, <1>6, <1>7, <1>8, <1>10 DEF InboxInv

\* Recipients named by a set of members of the staff, or of users.
LEMMA NamedRecipients ==
  ASSUME NotificationAssumption, NEW roles \in SUBSET Staff, NEW named \in SUBSET Users
  PROVE  LET staff == listMerchantStaffRecipientIds(roles)
             customers == SetToSeq({[type |-> CustomerUser, id |-> u] : u \in named})
         IN  /\ staff \in Seq(Recipients) /\ customers \in Seq(Recipients)
             /\ staff \o customers \in Seq(Recipients)
             /\ \A i, j \in 1..Len(staff) : staff[i] = staff[j] => i = j
             /\ \A q : (\E i \in 1..Len(staff) : staff[i] = q) <=>
                       q \in {[type |-> MerchantStaff, id |-> i] : i \in roles}
<1> DEFINE S == {[type |-> MerchantStaff, id |-> i] : i \in roles}
           C == {[type |-> CustomerUser, id |-> u] : u \in named}
           staff == SetToSeq(S)
           customers == SetToSeq(C)
<1>1. S \subseteq Recipients /\ C \subseteq Recipients
  BY DEF Recipients
<1>2. IsFiniteSet(S)
  <2>1. IsFiniteSet(roles)
    BY FS_Subset DEF NotificationAssumption
  <2> DEFINE f == [i \in roles |-> [type |-> MerchantStaff, id |-> i]]
  <2>2. f \in Surjection(roles, S)
    BY DEF Surjection
  <2> HIDE DEF f, S
  <2> QED BY <2>1, <2>2, FS_Surjection
<1>3. IsFiniteSet(C)
  <2>1. IsFiniteSet(named)
    BY FS_Subset DEF NotificationAssumption
  <2> DEFINE f == [i \in named |-> [type |-> CustomerUser, id |-> i]]
  <2>2. f \in Surjection(named, C)
    BY DEF Surjection
  <2> HIDE DEF f, C
  <2> QED BY <2>1, <2>2, FS_Surjection
<1>4. listMerchantStaffRecipientIds(roles) = staff
  BY DEF listMerchantStaffRecipientIds
<1> HIDE DEF S, C
<1>5. /\ staff \in Seq(S)
      /\ \A i, j \in 1..Len(staff) : staff[i] = staff[j] => i = j
      /\ \A x \in S : \E i \in 1..Len(staff) : staff[i] = x
  BY <1>2, SetToSeqIs
<1>6. customers \in Seq(C)
  BY <1>3, SetToSeqIs
<1> HIDE DEF staff, customers
<1>7. staff \in Seq(Recipients) /\ customers \in Seq(Recipients)
  BY <1>1, <1>5, <1>6
<1>8. staff \o customers \in Seq(Recipients)
  BY <1>7
<1>9. \A q : (\E i \in 1..Len(staff) : staff[i] = q) <=> q \in S
  BY <1>5
<1> QED BY <1>4, <1>5, <1>7, <1>8, <1>9 DEF staff, customers, S, C

\* The approval that owners are told of.
LEMMA EmitApprovalKeeps ==
  ASSUME NotificationAssumption, InboxInv, emitApprovalTodo, UNCHANGED <<tickets, paging>>
  PROVE  InboxInv'
<1> DEFINE rs == listMerchantStaffRecipientIds(Owners)
           about == <<"approval", emits', 0>>
<1>1. rs \in Seq(Recipients) /\ ApprovalTodo \in Categories
  <2>1. Owners \in SUBSET Staff /\ {} \in SUBSET Users
    BY DEF NotificationAssumption
  <2> QED BY <2>1, NamedRecipients DEF NotificationAssumption
<1>2. emits' \in 0..MaxEmits /\ emits' \in Nat
  BY DEF emitApprovalTodo, InboxInv, CountersOK, NotificationAssumption
<1>3. about \in Subjects /\ \A t, n : About(t, n) # about
  BY <1>2, SubjectsDiffer DEF Subjects
<1>4. /\ Deliver(createAll(DeliveryState, rs, ApprovalTodo, about))
      /\ UNCHANGED <<clock, preferences, reading, since, calls, tickets, paging>>
  BY DEF emitApprovalTodo
<1> HIDE DEF rs, about
<1> QED BY <1>1, <1>2, <1>3, <1>4, EmitKeeps

\* The decision that the staff and its customer are told of.
LEMMA EmitResultKeeps ==
  ASSUME NotificationAssumption, InboxInv, NEW named \in SUBSET Users, emitExecutionResult(named),
         UNCHANGED <<tickets, paging>>
  PROVE  InboxInv'
<1> DEFINE rs == listMerchantStaffRecipientIds(Staff)
                   \o SetToSeq({[type |-> CustomerUser, id |-> u] : u \in named})
           about == <<"decision", emits', 0>>
<1>1. rs \in Seq(Recipients) /\ ExecutionResult \in Categories
  <2>1. Staff \in SUBSET Staff
    OBVIOUS
  <2> QED BY <2>1, NamedRecipients DEF NotificationAssumption
<1>2. emits' \in 0..MaxEmits /\ emits' \in Nat
  BY DEF emitExecutionResult, InboxInv, CountersOK, NotificationAssumption
<1>3. about \in Subjects /\ \A t, n : About(t, n) # about
  BY <1>2, SubjectsDiffer DEF Subjects
<1>4. /\ Deliver(createAll(DeliveryState, rs, ExecutionResult, about))
      /\ UNCHANGED <<clock, preferences, reading, since, calls, tickets, paging>>
  BY DEF emitExecutionResult
<1> HIDE DEF rs, about
<1> QED BY <1>1, <1>2, <1>3, <1>4, EmitKeeps

\* A cap holds in a window that reaches less far back.
LEMMA TickKeeps ==
  ASSUME NotificationAssumption, InboxInv, Tick, UNCHANGED <<tickets, paging>>
  PROVE  InboxInv'
<1>1. /\ CountersOK /\ PreferencesOK /\ DbHolds /\ ReadingOK /\ TicketsOK /\ PagingOK /\ NewsOK
      /\ clock \in Nat
  BY DEF InboxInv, CountersOK
<1>2. /\ clock' = clock + 1 /\ clock' \in 0..MaxTime /\ preferences' = preferences
      /\ dispatchState' = dispatchState /\ notes' = notes /\ audit' = audit /\ sockets' = sockets
      /\ reading' = reading /\ since' = since /\ emits' = emits /\ calls' = calls
  BY <1>1 DEF Tick, NotificationAssumption
<1>3. CountersOK' /\ PreferencesOK'
  BY <1>1, <1>2 DEF CountersOK, PreferencesOK
<1>4. InTime(notes)'
  <2> SUFFICES ASSUME NEW i \in DOMAIN notes PROVE notes[i].createdAt <= clock'
    BY <1>1, <1>2 DEF DbHolds, InTime
  <2>1. notes[i] \in Note /\ notes[i].createdAt <= clock
    BY <1>1 DEF DbHolds, InTime
  <2>2. notes[i].createdAt \in Nat
    BY <2>1 DEF Note
  <2> QED BY <1>1, <1>2, <2>1, <2>2
<1>5. CountedOK(dispatchState, notes)' /\ Tells(sockets, notes)'
  <2>1. CountedOK(dispatchState, notes)'
    BY <1>1, <1>2 DEF DbHolds, CountedOK, SentTo
  <2>2. Tells(sockets, notes)'
    BY <1>1, <1>2 DEF DbHolds, Tells, UnreadOf
  <2> QED BY <2>1, <2>2
<1>6. Capped(dispatchState, notes)'
  <2>1. \A r : CapsOf(r)' = CapsOf(r)
    BY <1>2, SameCaps
  <2>2. ASSUME NEW r \in Recipients, NEW c \in DOMAIN CapsOf(r)
        PROVE  LET after == Recent(notes, r, c, CapsOf(r)[c].window)'
               IN  after \subseteq dispatchState[<<r, c>>] /\ Cardinality(after) <= CapsOf(r)[c].max
    <3> DEFINE w == CapsOf(r)[c].window
               before == Recent(notes, r, c, w)
               after == {i \in since[r] + 1..Len(notes) : /\ notes[i].to = r /\ notes[i].category = c
                                                          /\ notes[i].createdAt >= clock' - w}
    <3>1. CapsOf(r)[c] \in Cap
      BY <1>1, CapsAre DEF GoodCap
    <3>2. w \in Int /\ CapsOf(r)[c].max \in Int
      BY <3>1 DEF Cap
    <3>3. before \subseteq dispatchState[<<r, c>>] /\ Cardinality(before) <= CapsOf(r)[c].max
      BY <1>1 DEF DbHolds, Capped
    <3>4. Recent(notes, r, c, CapsOf(r)[c].window)' = after
      BY <1>2, <2>1 DEF Recent
    <3>5. \A i \in DOMAIN notes : notes[i].createdAt \in Nat
      <4>1. \A i \in DOMAIN notes : notes[i] \in Note
        BY <1>1 DEF DbHolds
      <4> QED BY <4>1 DEF Note
    <3>6. IsFiniteSet(before) /\ notes \in Seq(Note) /\ since[r] \in Nat /\ InTime(notes)
      BY <1>1, RecentIsFinite DEF DbHolds, InTime
    <3>7. after \subseteq before
      <4> SUFFICES ASSUME NEW i \in after PROVE i \in before
        OBVIOUS
      <4>1. i \in since[r] + 1..Len(notes) /\ i \in DOMAIN notes
        BY <3>6
      <4>2. notes[i].createdAt >= clock' - w /\ notes[i].createdAt \in Nat
        BY <3>5, <4>1
      <4> HIDE DEF w
      <4>3. notes[i].createdAt >= clock - w
        BY <1>1, <1>2, <3>2, <4>2
      <4> QED BY <4>1, <4>3 DEF Recent
    <3> HIDE DEF before, after, w
    <3>8. /\ Cardinality(after) <= Cardinality(before)
          /\ Cardinality(after) \in Nat /\ Cardinality(before) \in Nat
      BY <3>6, <3>7, FS_Subset, FS_CardinalityType
    <3>9. after \subseteq dispatchState[<<r, c>>] /\ Cardinality(after) <= CapsOf(r)[c].max
      BY <3>2, <3>3, <3>7, <3>8
    <3> QED BY <3>4, <3>9
  <2> QED BY <1>2, <2>1, <2>2 DEF Capped
<1>7. DbHolds'
  BY <1>1, <1>2, <1>4, <1>5, <1>6 DEF DbHolds
<1>8. ReadingOK'
  <2>1. /\ notes \in Seq(Note) /\ notes' \in Seq(Note) /\ Len(notes) <= Len(notes')
        /\ \A i \in DOMAIN notes : notes'[i] = notes[i]
    BY <1>1, <1>2 DEF DbHolds
  <2>2. clock <= clock' /\ clock' \in Nat
    BY <1>1, <1>2
  <2> QED BY <1>1, <1>2, <2>1, <2>2, ReadingKeeps
<1>9. TicketsOK' /\ PagingOK' /\ NewsOK'
  <2>1. clock <= clock'
    BY <1>1, <1>2
  <2>2. \A q, t, n : Told(q, About(t, n))' = Told(q, About(t, n))
    BY <1>2 DEF Told
  <2> QED BY <1>1, <1>3, <2>1, <2>2, TicketsStay
<1> QED BY <1>3, <1>7, <1>8, <1>9 DEF InboxInv

\* A saved preference starts the count of its recipient anew.
LEMMA PreferenceKeeps ==
  ASSUME NotificationAssumption, InboxInv, NEW r \in Recipients, PutPreferences(r),
         UNCHANGED <<tickets, paging>>
  PROVE  InboxInv'
<1>1. /\ CountersOK /\ PreferencesOK /\ DbHolds /\ ReadingOK /\ TicketsOK /\ PagingOK /\ NewsOK
      /\ clock \in Nat
  BY DEF InboxInv, CountersOK
<1>2. PICK switches \in SwitchPatches, caps \in CapPatches : setRecipientPreference(r, switches, caps)
  BY DEF PutPreferences
<1>3. /\ calls' \in 0..MaxCalls /\ clock' = clock
      /\ dispatchState' = dispatchState /\ notes' = notes /\ audit' = audit /\ sockets' = sockets
      /\ reading' = reading /\ emits' = emits /\ tickets' = tickets /\ paging' = paging
  BY <1>1 DEF PutPreferences, CountersOK, NotificationAssumption
<1>4. since' = [since EXCEPT ![r] = Len(notes)]
  BY <1>2 DEF setRecipientPreference
<1>5. PreferencesOK' /\ \A q \in Recipients : q # r => preferences'[q] = preferences[q]
  BY <1>1, <1>2, NewPreference
<1>6. CountersOK'
  BY <1>1, <1>3, <1>4 DEF CountersOK
<1>7. /\ notes \in Seq(Note) /\ Len(notes) \in Nat /\ InTime(notes)
      /\ \A q \in Recipients : since'[q] = IF q = r THEN Len(notes) ELSE since[q]
  BY <1>1, <1>4 DEF DbHolds, CountersOK
<1>8. InTime(notes)'
  BY <1>3, <1>7 DEF InTime
<1>9. CountedOK(dispatchState, notes)'
  BY <1>1, <1>3 DEF DbHolds, CountedOK, SentTo
<1>10. Tells(sockets, notes)'
  BY <1>1, <1>3 DEF DbHolds, Tells, UnreadOf
<1>11. Capped(dispatchState, notes)'
  <2>1. ASSUME NEW q \in Recipients, NEW c \in DOMAIN (CapsOf(q)')
        PROVE  LET recent == Recent(notes, q, c, CapsOf(q)[c].window)'
               IN  recent \subseteq dispatchState[<<q, c>>] /\ Cardinality(recent) <= (CapsOf(q)')[c].max
    <3>1. CASE q = r
      <4>1. Recent(notes, q, c, CapsOf(q)[c].window)' = {}
        <5>1. \A i \in since'[q] + 1..Len(notes') : FALSE
          BY <1>3, <1>7, <3>1
        <5> QED BY <5>1 DEF Recent
      <4>2. NotificationAssumption /\ PreferencesOK'
        BY <1>5
      <4>3. GoodCap((CapsOf(q)')[c])
        <5> DEFINE saved == preferences'[q].caps
                   base == [d \in {ExecutionResult} |-> DefaultCap]
        <5>1. \A d \in DOMAIN saved : GoodCap(saved[d])
          BY <1>5 DEF PreferencesOK
        <5>2. GoodCap(DefaultCap)
          BY DEF NotificationAssumption, GoodCap
        <5>3. CapsOf(q)' = normalizeFrequencyCaps(saved, base)
          BY DEF CapsOf, getRecipientPreference
        <5>4. \A d \in DOMAIN (CapsOf(q)') :
                (CapsOf(q)')[d] = IF d \in DOMAIN saved THEN saved[d] ELSE base[d]
          BY <5>3 DEF normalizeFrequencyCaps
        <5>5. DOMAIN (CapsOf(q)') \subseteq {ExecutionResult} \cup DOMAIN saved
          BY <5>3 DEF normalizeFrequencyCaps
        <5> HIDE DEF saved
        <5> QED BY <5>1, <5>2, <5>4, <5>5
      <4>4. Cardinality({}) = 0 /\ 0 <= (CapsOf(q)')[c].max
        BY <4>3, FS_EmptySet DEF GoodCap, Cap
      <4> QED BY <4>1, <4>4
    <3>2. CASE q # r
      <4>1. CapsOf(q)' = CapsOf(q) /\ since'[q] = since[q]
        BY <1>5, <1>7, <3>2 DEF CapsOf, getRecipientPreference
      <4>2. Recent(notes, q, c, CapsOf(q)[c].window)' = Recent(notes, q, c, CapsOf(q)[c].window)
        BY <1>3, <4>1 DEF Recent
      <4>3. c \in DOMAIN CapsOf(q) /\ Capped(dispatchState, notes)
        BY <1>1, <4>1 DEF DbHolds
      <4> QED BY <4>1, <4>2, <4>3 DEF Capped
    <3> QED BY <3>1, <3>2
  <2> QED BY <1>3, <2>1 DEF Capped
<1>12. DbHolds'
  BY <1>1, <1>3, <1>8, <1>9, <1>10, <1>11 DEF DbHolds
<1>13. ReadingOK'
  <2>1. /\ notes' \in Seq(Note) /\ Len(notes) <= Len(notes')
        /\ \A i \in DOMAIN notes : notes'[i] = notes[i]
    BY <1>3, <1>7
  <2>2. clock <= clock' /\ clock' \in Nat
    BY <1>1, <1>3
  <2> QED BY <1>1, <1>3, <1>7, <2>1, <2>2, ReadingKeeps
<1>14. TicketsOK' /\ PagingOK' /\ NewsOK'
  <2>1. clock <= clock'
    BY <1>1, <1>3
  <2>2. \A q, t, n : Told(q, About(t, n))' = Told(q, About(t, n))
    BY <1>3 DEF Told
  <2> QED BY <1>1, <1>3, <1>6, <2>1, <2>2, TicketsStay
<1> QED BY <1>5, <1>6, <1>12, <1>13, <1>14 DEF InboxInv

\* Rows marked as read: only the unread ones of the caller.
LEMMA ReadKeeps ==
  ASSUME NotificationAssumption, InboxInv, NEW r \in Recipients, PostRead(r),
         UNCHANGED <<tickets, paging>>
  PROVE  InboxInv'
<1>1. /\ CountersOK /\ PreferencesOK /\ DbHolds /\ ReadingOK /\ TicketsOK /\ PagingOK /\ NewsOK
      /\ clock \in Nat
  BY DEF InboxInv, CountersOK
<1>2. /\ calls' \in 0..MaxCalls /\ clock' = clock /\ preferences' = preferences
      /\ dispatchState' = dispatchState /\ audit' = audit
      /\ reading' = reading /\ since' = since /\ emits' = emits /\ tickets' = tickets /\ paging' = paging
  BY <1>1 DEF PostRead, CountersOK, NotificationAssumption
<1>3. PICK markAll \in BOOLEAN, one \in DOMAIN notes : markRead(r, {one}, markAll)
  BY DEF PostRead
<1> DEFINE targets == {i \in listRowsForRecipient(r, "UNREAD") : markAll \/ i \in {one}}
<1>4. /\ notes' = [i \in DOMAIN notes |-> IF i \in targets THEN [notes[i] EXCEPT !.status = "READ"]
                                          ELSE notes[i]]
      /\ sockets' = IF targets = {} THEN sockets ELSE broadcastToRecipients(sockets, r, {}, targets)
  BY <1>3 DEF markRead
<1>5. \A i \in targets : /\ i \in DOMAIN notes /\ notes[i].to = r /\ notes[i].status = "UNREAD"
  BY DEF listRowsForRecipient, Owned
<1>6. /\ notes \in Seq(Note) /\ Len(notes) \in Nat /\ DOMAIN notes = 1..Len(notes)
      /\ sockets \in [Sockets -> SocketState] /\ InTime(notes) /\ Tells(sockets, notes)
  BY <1>1 DEF DbHolds
<1> HIDE DEF targets
<1>7. \A i \in DOMAIN notes :
        /\ notes'[i] \in Note /\ notes'[i].to = notes[i].to /\ notes'[i].category = notes[i].category
        /\ notes'[i].about = notes[i].about /\ notes'[i].createdAt = notes[i].createdAt
        /\ notes'[i].expiresAt = notes[i].expiresAt
        /\ notes'[i].status = IF i \in targets THEN "READ" ELSE notes[i].status
  <2> SUFFICES ASSUME NEW i \in DOMAIN notes
               PROVE  /\ notes'[i] \in Note /\ notes'[i].to = notes[i].to
                      /\ notes'[i].category = notes[i].category
                      /\ notes'[i].about = notes[i].about /\ notes'[i].createdAt = notes[i].createdAt
                      /\ notes'[i].expiresAt = notes[i].expiresAt
                      /\ notes'[i].status = IF i \in targets THEN "READ" ELSE notes[i].status
    OBVIOUS
  <2>1. notes[i] \in Note
    BY <1>6
  <2>2. notes'[i] = IF i \in targets THEN [notes[i] EXCEPT !.status = "READ"] ELSE notes[i]
    BY <1>4
  <2>3. CASE i \in targets
    <3>1. notes'[i] = [notes[i] EXCEPT !.status = "READ"]
      BY <2>2, <2>3
    <3> QED BY <2>1, <2>3, <3>1 DEF Note
  <2>4. CASE i \notin targets
    BY <2>1, <2>2, <2>4
  <2> QED BY <2>3, <2>4
<1>8. DOMAIN notes' = 1..Len(notes) /\ notes' \in Seq(Note) /\ Len(notes') = Len(notes)
  <2>1. notes' = [i \in 1..Len(notes) |-> notes'[i]]
    BY <1>4, <1>6
  <2>2. \A i \in 1..Len(notes) : notes'[i] \in Note
    BY <1>6, <1>7
  <2> QED BY <1>6, <2>1, <2>2
<1>9. CountersOK' /\ PreferencesOK'
  BY <1>1, <1>2 DEF CountersOK, PreferencesOK
<1>10. InTime(notes)'
  BY <1>2, <1>6, <1>7, <1>8 DEF InTime
<1>11. CountedOK(dispatchState, notes)'
  <2>1. \A q, c : SentTo(notes, q, c)' = SentTo(notes, q, c)
    BY <1>6, <1>7, <1>8 DEF SentTo
  <2> QED BY <1>1, <1>2, <2>1 DEF DbHolds, CountedOK
<1>12. Capped(dispatchState, notes)'
  <2>1. \A q : CapsOf(q)' = CapsOf(q)
    BY <1>2, SameCaps
  <2>2. \A q \in Recipients : \A c, w : Recent(notes, q, c, w)' = Recent(notes, q, c, w)
    <3> SUFFICES ASSUME NEW q \in Recipients, NEW c, NEW w
                 PROVE  Recent(notes, q, c, w)' = Recent(notes, q, c, w)
      OBVIOUS
    <3>1. \A i \in since[q] + 1..Len(notes) : i \in DOMAIN notes
      BY <1>6 DEF InTime
    <3> QED BY <1>2, <1>7, <1>8, <3>1 DEF Recent
  <2>3. Capped(dispatchState, notes)
    BY <1>1 DEF DbHolds
  <2> QED BY <1>2, <2>1, <2>2, <2>3 DEF Capped
<1>13. sockets' \in [Sockets -> SocketState] /\ Tells(sockets, notes)'
  <2>1. \A q : UnreadOf(notes, q)' = IF q = r THEN UnreadOf(notes, q) \ targets ELSE UnreadOf(notes, q)
    BY <1>5, <1>6, <1>7, <1>8 DEF UnreadOf
  <2>2. CASE targets = {}
    <3>1. \A q : UnreadOf(notes, q)' = UnreadOf(notes, q)
      BY <2>1, <2>2
    <3>2. sockets' = sockets
      BY <1>4, <2>2
    <3> QED BY <1>6, <3>1, <3>2 DEF Tells
  <2>3. CASE targets # {}
    <3>1. sockets' = broadcastToRecipients(sockets, r, {}, targets)
      BY <1>4, <2>3
    <3>2. ASSUME NEW s \in Sockets
          PROVE  /\ sockets'[s] \in SocketState
                 /\ sockets'[s].unread = IF sockets'[s].open THEN UnreadOf(notes, Holder[s])' ELSE {}
      <4>1. isRecipientMatched(s, r) <=> Holder[s] = r
        <5>1. Holder[s] \in Recipients
          BY DEF NotificationAssumption
        <5> QED BY <5>1 DEF isRecipientMatched, Recipients
      <4>2. sockets'[s] = IF sockets[s].open /\ isRecipientMatched(s, r)
                          THEN [sockets[s] EXCEPT !.unread = (sockets[s].unread \cup {}) \ targets]
                          ELSE sockets[s]
        BY <3>1 DEF broadcastToRecipients
      <4>3. /\ sockets[s] \in SocketState
            /\ sockets[s].unread = IF sockets[s].open THEN UnreadOf(notes, Holder[s]) ELSE {}
        BY <1>6 DEF Tells
      <4>4. UnreadOf(notes, Holder[s])' = IF Holder[s] = r THEN UnreadOf(notes, Holder[s]) \ targets
                                          ELSE UnreadOf(notes, Holder[s])
        BY <2>1
      <4>5. CASE sockets[s].open /\ Holder[s] = r
        <5>1. sockets'[s] = [sockets[s] EXCEPT !.unread = (sockets[s].unread \cup {}) \ targets]
          BY <4>1, <4>2, <4>5
        <5>2. /\ sockets'[s] \in SocketState /\ sockets'[s].open = sockets[s].open
              /\ sockets'[s].unread = sockets[s].unread \ targets
          BY <4>3, <5>1 DEF SocketState
        <5> QED BY <4>3, <4>4, <4>5, <5>2
      <4>6. CASE ~(sockets[s].open /\ Holder[s] = r)
        <5>1. sockets'[s] = sockets[s]
          BY <4>1, <4>2, <4>6
        <5> QED BY <4>3, <4>4, <4>6, <5>1
      <4> QED BY <4>5, <4>6
    <3>3. sockets' = [s \in Sockets |-> sockets'[s]]
      BY <3>1 DEF broadcastToRecipients
    <3> QED BY <3>2, <3>3 DEF Tells
  <2> QED BY <2>2, <2>3
<1>14. DbHolds'
  BY <1>1, <1>2, <1>8, <1>10, <1>11, <1>12, <1>13 DEF DbHolds
<1>15. ReadingOK'
  <2>1. \A i \in DOMAIN notes : notes[i].status = "READ" => notes'[i].status = "READ"
    BY <1>7
  <2>2. clock <= clock' /\ clock' \in Nat
    BY <1>1, <1>2
  <2>3. Len(notes) <= Len(notes')
    BY <1>6, <1>8
  <2> QED BY <1>1, <1>2, <1>6, <1>7, <1>8, <2>1, <2>2, <2>3, ReadingKeeps
<1>16. TicketsOK' /\ PagingOK' /\ NewsOK'
  <2>1. clock <= clock'
    BY <1>1, <1>2
  <2>2. \A q, t, n : Told(q, About(t, n))' = Told(q, About(t, n))
    <3> SUFFICES ASSUME NEW q, NEW t, NEW n PROVE Told(q, About(t, n))' = Told(q, About(t, n))
      OBVIOUS
    <3>1. {i \in DOMAIN notes : notes[i].to = q /\ notes[i].about = <<"ticket", t, n>>}'
            = {i \in DOMAIN notes : notes[i].to = q /\ notes[i].about = <<"ticket", t, n>>}
      BY <1>6, <1>7, <1>8
    <3> QED BY <1>2, <3>1 DEF Told, About
  <2> QED BY <1>1, <1>2, <1>9, <2>1, <2>2, TicketsStay
<1> QED BY <1>9, <1>14, <1>15, <1>16 DEF InboxInv

\* In order of creation, later is newer.
LEMMA NewerIsLater ==
  ASSUME notes \in Seq(Note), InTime(notes), NEW i \in DOMAIN notes, NEW j \in DOMAIN notes
  PROVE  Newer(i, j) <=> i > j
<1>1. i \in Nat /\ j \in Nat
  OBVIOUS
<1>2. notes[i].createdAt \in Nat /\ notes[j].createdAt \in Nat
  <2>1. notes[i] \in Note /\ notes[j] \in Note
    OBVIOUS
  <2> QED BY <2>1 DEF Note
<1>3. /\ i < j => notes[i].createdAt <= notes[j].createdAt
      /\ j < i => notes[j].createdAt <= notes[i].createdAt
  BY DEF InTime
<1> QED BY <1>1, <1>2, <1>3 DEF Newer

\* A page of the inbox: part of the rows past the cursor, none of them left out before its
\* last item unless there are more.
LEMMA InboxPage ==
  ASSUME NotificationAssumption, notes \in Seq(Note), InTime(notes),
         NEW r, NEW status, NEW cursor \in Nat, cursor <= Len(notes)
  PROVE  LET page == listInbox(r, status, cursor)
             last == lastItem(page.items)
             past(i) == cursor = 0 \/ i < cursor
         IN  /\ page.items \subseteq listRowsForRecipient(r, status) /\ page.hasMore \in BOOLEAN
             /\ \A i \in page.items : past(i)
             /\ page.items # {} => last \in page.items /\ \A i \in page.items : last <= i
             /\ \A i \in listRowsForRecipient(r, status) : past(i) =>
                  i \in page.items \/ (page.items # {} /\ page.hasMore /\ i < last)
<1> DEFINE past(i) == cursor = 0 \/ i < cursor
           listed == listRowsForRecipient(r, status)
           filtered == {i \in listed : Past(cursor, i)}
           G == {e \in filtered \X filtered : Newer(e[1], e[2])}
           items == FirstOf(filtered, PageSize, G)
           page == listInbox(r, status, cursor)
           last == lastItem(page.items)
<1>1. listed \subseteq DOMAIN notes /\ DOMAIN notes = 1..Len(notes) /\ Len(notes) \in Nat
  BY DEF listRowsForRecipient, Owned
<1>2. \A i \in listed : Past(cursor, i) <=> past(i)
  <2> SUFFICES ASSUME NEW i \in listed PROVE Past(cursor, i) <=> past(i)
    OBVIOUS
  <2>1. CASE cursor = 0
    BY <2>1 DEF Past
  <2>2. CASE cursor # 0
    <3>1. cursor \in DOMAIN notes /\ i \in DOMAIN notes
      BY <1>1, <2>2
    <3>2. Newer(cursor, i) <=> cursor > i
      BY <3>1, NewerIsLater
    <3> QED BY <1>1, <2>2, <3>1, <3>2 DEF Past
  <2> QED BY <2>1, <2>2
<1>3. \A i \in filtered : i \in DOMAIN notes /\ i \in Nat /\ i \in listed /\ past(i)
  BY <1>1, <1>2
<1>4. \A i, j \in filtered : <<i, j>> \in G <=> i > j
  BY <1>3, NewerIsLater
<1>5. IsFiniteSet(filtered)
  <2>1. IsFiniteSet(1..Len(notes))
    BY <1>1, FS_Interval
  <2> QED BY <1>1, <2>1, FS_Subset
<1>6. page.items = items /\ page.hasMore = (Cardinality(filtered) > PageSize)
  <2>1. \A i \in filtered : {j \in filtered : Newer(j, i)} = {j \in filtered : <<j, i>> \in G}
    OBVIOUS
  <2>2. page = [items |-> {i \in filtered : Cardinality({j \in filtered : Newer(j, i)}) < PageSize},
                hasMore |-> Cardinality(filtered) > PageSize]
    BY DEF listInbox
  <2>3. items = {i \in filtered : Cardinality({j \in filtered : <<j, i>> \in G}) < PageSize}
    BY DEF FirstOf
  <2> HIDE DEF items, G, filtered, page
  <2>4. {i \in filtered : Cardinality({j \in filtered : Newer(j, i)}) < PageSize} = items
    BY <2>1, <2>3
  <2> QED BY <2>2, <2>4
<1>7. PageSize \in Nat \ {0}
  BY DEF NotificationAssumption
<1> HIDE DEF G, filtered, items, page, listed
<1>8. Orders(G, filtered)
  BY <1>3, <1>4 DEF Orders
<1>9. /\ items \subseteq filtered
      /\ filtered # {} => items # {}
      /\ \A i \in filtered : i \notin items =>
           Cardinality(filtered) > PageSize /\ \A k \in items : <<k, i>> \in G
  BY <1>5, <1>7, <1>8, PageOf DEF items
<1>10. ASSUME items # {}
       PROVE  last \in items /\ \A i \in items : last <= i
  <2>1. Orders(G, items)
    BY <1>8, <1>9 DEF Orders
  <2>2. IsFiniteSet(items)
    BY <1>5, <1>9, FS_Subset
  <2>3. \E t \in items : \A i \in items : i = t \/ <<i, t>> \in G
    BY <1>10, <2>1, <2>2, LastExists, SMTT(30)
  <2>4. \E t \in items : \A i \in items : i = t \/ Newer(i, t)
    BY <1>3, <1>4, <1>9, <2>3, NewerIsLater
  <2>5. last \in items /\ \A i \in items : i = last \/ Newer(i, last)
    BY <1>6, <2>4 DEF lastItem
  <2>6. ASSUME NEW i \in items PROVE last <= i
    <3>1. i \in DOMAIN notes /\ last \in DOMAIN notes /\ i \in Nat /\ last \in Nat
      BY <1>3, <1>9, <2>5
    <3>2. i = last \/ i > last
      BY <2>5, <3>1, NewerIsLater
    <3> QED BY <3>1, <3>2
  <2> QED BY <2>5, <2>6
<1>11. ASSUME NEW i \in listed, past(i), i \notin items
       PROVE  items # {} /\ Cardinality(filtered) > PageSize /\ i < last
  <2>1. i \in filtered
    BY <1>2, <1>11 DEF filtered
  <2>2. items # {} /\ Cardinality(filtered) > PageSize /\ \A k \in items : <<k, i>> \in G
    BY <1>9, <1>11, <2>1
  <2>3. last \in items /\ last \in filtered
    BY <1>9, <1>10, <2>2
  <2>4. last > i /\ last \in Nat /\ i \in Nat
    BY <1>3, <1>4, <2>1, <2>2, <2>3
  <2> QED BY <2>2, <2>4
<1>12. /\ items \subseteq listed /\ \A i \in items : past(i)
  BY <1>3, <1>9
<1>13. page.hasMore \in BOOLEAN
  BY <1>6
<1>14. \A i \in listed : past(i) => i \in items \/ (items # {} /\ page.hasMore /\ i < last)
  <2>1. Cardinality(filtered) > PageSize => page.hasMore
    BY <1>6, Zenon
  <2>2. page.items = items
    BY <1>6
  <2> HIDE DEF past
  <2> QED BY <1>11, <2>1, <2>2, Zenon
<1> HIDE DEF last
<1> QED BY <1>6, <1>10, <1>12, <1>13, <1>14 DEF page, last, listed

\* The pages after one more page.
LEMMA PagesMore ==
  ASSUME NEW pages \in Seq(SUBSET Nat), NEW items \in SUBSET Nat
  PROVE  /\ Append(pages, items) \in Seq(SUBSET Nat)
         /\ \A i : Seen(Append(pages, items), i) <=> Seen(pages, i) \/ i \in items
         /\ Disjoint(pages) /\ (\A i \in items : ~Seen(pages, i)) => Disjoint(Append(pages, items))
<1> DEFINE n == Len(pages) + 1
           more == Append(pages, items)
<1>1. /\ DOMAIN pages = 1..Len(pages) /\ Len(pages) \in Nat /\ DOMAIN more = 1..n
      /\ \A k \in 1..Len(pages) : more[k] = pages[k]
      /\ more[n] = items /\ more \in Seq(SUBSET Nat)
  OBVIOUS
<1>2. n \in 1..n /\ \A k \in 1..n : k = n \/ k \in 1..Len(pages)
  BY <1>1
<1>3. \A k \in 1..Len(pages) : k \in 1..n
  BY <1>1
<1> HIDE DEF more, n
<1>4. \A i : Seen(more, i) <=> Seen(pages, i) \/ i \in items
  BY <1>1, <1>2, <1>3 DEF Seen
<1>5. ASSUME Disjoint(pages), \A i \in items : ~Seen(pages, i) PROVE Disjoint(more)
  <2> SUFFICES ASSUME NEW k \in 1..n, NEW l \in 1..n, k # l, NEW i, i \in more[k], i \in more[l]
               PROVE  FALSE
    BY <1>1 DEF Disjoint
  <2>1. CASE k = n
    <3>1. l \in 1..Len(pages) /\ i \in items /\ i \in pages[l]
      BY <1>1, <1>2, <2>1
    <3> QED BY <1>1, <1>5, <3>1 DEF Seen
  <2>2. CASE l = n
    <3>1. k \in 1..Len(pages) /\ i \in items /\ i \in pages[k]
      BY <1>1, <1>2, <2>2
    <3> QED BY <1>1, <1>5, <3>1 DEF Seen
  <2>3. CASE k # n /\ l # n
    <3>1. k \in 1..Len(pages) /\ l \in 1..Len(pages) /\ i \in pages[k] \cap pages[l]
      BY <1>1, <1>2, <2>3
    <3> QED BY <1>1, <1>5, <3>1 DEF Disjoint
  <2> QED BY <2>1, <2>2, <2>3
<1> QED BY <1>1, <1>4, <1>5 DEF more

\* A page of an inbox: the first one, or the next past the cursor.
LEMMA InboxReadKeeps ==
  ASSUME NotificationAssumption, InboxInv, NEW r \in Recipients, GetInbox(r),
         UNCHANGED <<tickets, paging>>
  PROVE  InboxInv'
<1>1. /\ CountersOK /\ PreferencesOK /\ DbHolds /\ ReadingOK /\ TicketsOK /\ PagingOK /\ NewsOK
      /\ clock \in Nat
  BY DEF InboxInv, CountersOK
<1>2. /\ calls' \in 0..MaxCalls /\ clock' = clock /\ preferences' = preferences
      /\ dispatchState' = dispatchState /\ audit' = audit /\ notes' = notes /\ sockets' = sockets
      /\ since' = since /\ emits' = emits /\ tickets' = tickets /\ paging' = paging
  BY <1>1 DEF GetInbox, CountersOK, NotificationAssumption
<1>3. PICK status \in {"ALL", "UNREAD", "READ"}, next \in BOOLEAN :
        LET asked == IF next THEN reading
                     ELSE [NoReading EXCEPT !.began = listRowsForRecipient(r, status)]
            page == listInbox(r, status, asked.cursor)
        IN  /\ next => reading.more /\ reading.who = {r} /\ reading.status = status
            /\ reading' = [who |-> {r}, status |-> status, began |-> asked.began,
                           pages |-> Append(asked.pages, page.items), more |-> page.hasMore,
                           cursor |-> IF page.items = {} THEN asked.cursor ELSE lastItem(page.items)]
  BY DEF GetInbox
<1> DEFINE asked == IF next THEN reading
                    ELSE [NoReading EXCEPT !.began = listRowsForRecipient(r, status)]
           began == asked.began
           pages == asked.pages
           cursor == asked.cursor
           page == listInbox(r, status, cursor)
           last == lastItem(page.items)
           past(i) == cursor = 0 \/ i < cursor
           listed == listRowsForRecipient(r, status)
           new == IF page.items = {} THEN cursor ELSE last
<1>4. /\ reading'.who = {r} /\ reading'.status = status /\ reading'.began = began
      /\ reading'.pages = Append(pages, page.items) /\ reading'.more = page.hasMore
      /\ reading'.cursor = new
      /\ reading' = [who |-> {r}, status |-> status, began |-> began,
                     pages |-> Append(pages, page.items), more |-> page.hasMore, cursor |-> new]
  BY <1>3
<1>5. /\ notes \in Seq(Note) /\ Len(notes) \in Nat /\ DOMAIN notes = 1..Len(notes) /\ InTime(notes)
  BY <1>1 DEF DbHolds
<1>6. listed \subseteq DOMAIN notes /\ \A i \in listed : status = "READ" => notes[i].status = "READ"
  BY DEF listRowsForRecipient, Owned
<1>7. /\ cursor \in Nat /\ cursor <= Len(notes) /\ pages \in Seq(SUBSET Nat) /\ Disjoint(pages)
      /\ began \subseteq DOMAIN notes
      /\ status = "READ" => \A i \in began : notes[i].status = "READ"
      /\ \A i \in Nat : Seen(pages, i) => cursor > 0 /\ i >= cursor
      /\ \A i \in began \cap listed : Seen(pages, i) \/ past(i)
  <2>1. CASE next
    <3>1. asked = reading
      BY <2>1
    <3>2. reading.who = {r} /\ reading.status = status
      BY <1>3, <2>1
    <3>3. reading \in Reading
      BY <1>1 DEF ReadingOK
    <3>4. reading.cursor \in Nat /\ reading.pages \in Seq(SUBSET Nat)
      BY <3>3 DEF Reading
    <3> HIDE DEF asked
    <3> QED BY <1>1, <3>1, <3>2, <3>4 DEF ReadingOK
  <2>2. CASE ~next
    <3>1. cursor = 0 /\ pages = <<>> /\ began = listed
      BY <2>2 DEF NoReading
    <3> HIDE DEF asked, listed, cursor, pages, began
    <3>2. pages \in Seq(SUBSET Nat) /\ DOMAIN pages = {}
      BY <3>1
    <3>3. /\ cursor \in Nat /\ cursor <= Len(notes) /\ began \subseteq DOMAIN notes
          /\ status = "READ" => \A i \in began : notes[i].status = "READ"
      BY <1>5, <1>6, <3>1
    <3>4. Disjoint(pages) /\ \A i : ~Seen(pages, i)
      BY <3>2 DEF Disjoint, Seen
    <3>5. \A i \in began \cap listed : past(i)
      BY <3>1
    <3> QED BY <3>2, <3>3, <3>4, <3>5
  <2> QED BY <2>1, <2>2
<1> HIDE DEF asked, began, pages, cursor
<1>8. /\ page.items \subseteq listed /\ page.hasMore \in BOOLEAN
      /\ \A i \in page.items : past(i)
      /\ page.items # {} => last \in page.items /\ \A i \in page.items : last <= i
      /\ \A i \in listed : past(i) => i \in page.items \/ (page.items # {} /\ page.hasMore /\ i < last)
  BY <1>5, <1>7, InboxPage
<1> HIDE DEF page, last, listed
<1>9. page.items \in SUBSET Nat
  BY <1>5, <1>6, <1>8
<1>10. /\ Append(pages, page.items) \in Seq(SUBSET Nat)
       /\ \A i : Seen(Append(pages, page.items), i) <=> Seen(pages, i) \/ i \in page.items
       /\ Disjoint(pages) /\ (\A i \in page.items : ~Seen(pages, i)) => Disjoint(Append(pages, page.items))
  BY <1>7, <1>9, PagesMore
<1>11. Disjoint(Append(pages, page.items))
  <2>1. ASSUME NEW i \in page.items PROVE ~Seen(pages, i)
    BY <1>7, <1>8, <1>9
  <2> QED BY <1>7, <1>10, <2>1
<1>12. new \in Nat /\ new <= Len(notes)
  <2>1. page.items # {} => last \in DOMAIN notes
    BY <1>6, <1>8
  <2> QED BY <1>5, <1>7, <2>1
<1>13. \A i \in Nat : Seen(Append(pages, page.items), i) => new > 0 /\ i >= new
  <2> SUFFICES ASSUME NEW i \in Nat, Seen(pages, i) \/ i \in page.items PROVE new > 0 /\ i >= new
    BY <1>10
  <2>1. CASE page.items = {}
    BY <1>7, <2>1
  <2>2. CASE page.items # {}
    <3>1. last \in page.items /\ last \in 1..Len(notes) /\ past(last) /\ \A j \in page.items : last <= j
      BY <1>5, <1>6, <1>8, <2>2
    <3>2. new = last /\ last > 0 /\ last \in Nat
      BY <1>5, <2>2, <3>1
    <3>3. Seen(pages, i) => i >= last
      BY <1>7, <3>1, <3>2
    <3> QED BY <3>1, <3>2, <3>3
  <2> QED BY <2>1, <2>2
<1>14. \A i \in began : i \in listed =>
          \/ Seen(Append(pages, page.items), i)
          \/ page.hasMore /\ (new = 0 \/ i < new)
  <2> SUFFICES ASSUME NEW i \in began, i \in listed, ~Seen(Append(pages, page.items), i)
               PROVE  page.hasMore /\ (new = 0 \/ i < new)
    OBVIOUS
  <2>1. ~Seen(pages, i) /\ i \notin page.items
    BY <1>10
  <2>2. past(i)
    BY <1>7, <2>1
  <2> HIDE DEF past
  <2>3. page.items # {} /\ page.hasMore /\ i < last
    BY <1>8, <2>1, <2>2
  <2> QED BY <2>3
<1> HIDE DEF new
<1>15. reading' \in Reading
  <2>1. began \in SUBSET Nat /\ {r} \in SUBSET Recipients
    BY <1>5, <1>7
  <2> QED BY <1>4, <1>8, <1>10, <1>12, <2>1 DEF Reading
<1>16. \A q \in reading'.who : \A i \in reading'.began :
         i \in listRowsForRecipient(q, reading.status)' =>
           \/ Seen(reading'.pages, i)
           \/ reading'.more /\ (reading'.cursor = 0 \/ i < reading'.cursor)
  <2>1. listRowsForRecipient(r, reading.status)' = listed
    BY <1>2, <1>4 DEF listRowsForRecipient, Owned, listed
  <2> QED BY <1>4, <1>14, <2>1
<1>17. ReadingOK'
  BY <1>2, <1>4, <1>5, <1>7, <1>11, <1>12, <1>13, <1>15, <1>16 DEF ReadingOK
<1>18. CountersOK' /\ PreferencesOK'
  BY <1>1, <1>2 DEF CountersOK, PreferencesOK
<1>19. DbHolds'
  <2>1. /\ DbOK(DeliveryState) /\ Deliver(DeliveryState)
    BY <1>1, <1>2, TheDb DEF Deliver, DeliveryState
  <2> HIDE DEF page
  <2> QED BY <1>2, <2>1, DeliverKeeps
<1>20. TicketsOK' /\ PagingOK' /\ NewsOK'
  <2>1. clock <= clock'
    BY <1>1, <1>2
  <2>2. \A q, t, n : Told(q, About(t, n))' = Told(q, About(t, n))
    BY <1>2 DEF Told
  <2> QED BY <1>1, <1>2, <1>18, <2>1, <2>2, TicketsStay
<1> QED BY <1>17, <1>18, <1>19, <1>20 DEF InboxInv

\* A socket that opens or closes.
LEMMA SocketKeeps ==
  ASSUME NotificationAssumption, InboxInv, NEW s \in Sockets, NEW new \in SocketState,
         new.unread = IF new.open THEN UnreadOf(notes, Holder[s]) ELSE {},
         sockets' = [sockets EXCEPT ![s] = new],
         UNCHANGED <<clock, preferences, dispatchState, notes, audit, reading, since, emits, calls,
                     tickets, paging>>
  PROVE  InboxInv'
<1>1. /\ CountersOK /\ PreferencesOK /\ DbHolds /\ ReadingOK /\ TicketsOK /\ PagingOK /\ NewsOK
      /\ clock \in Nat
  BY DEF InboxInv, CountersOK
<1>2. /\ calls' = calls /\ clock' = clock /\ preferences' = preferences /\ reading' = reading
      /\ dispatchState' = dispatchState /\ audit' = audit /\ notes' = notes
      /\ since' = since /\ emits' = emits /\ tickets' = tickets /\ paging' = paging
  OBVIOUS
<1> DEFINE db == [DeliveryState EXCEPT !.sockets = sockets']
<1>3. /\ notes \in Seq(Note) /\ sockets \in [Sockets -> SocketState] /\ Tells(sockets, notes)
      /\ Len(notes) \in Nat
  BY <1>1 DEF DbHolds
<1>4. sockets' \in [Sockets -> SocketState]
      /\ \A t \in Sockets : sockets'[t] = IF t = s THEN new ELSE sockets[t]
  BY <1>3
<1>5. Tells(sockets', notes)
  BY <1>3, <1>4 DEF Tells
<1>6. /\ db.dispatchState = dispatchState /\ db.notes = notes /\ db.audit = audit /\ db.sockets = sockets'
      /\ db \in [dispatchState : {dispatchState}, notes : {notes}, audit : {audit}, sockets : {sockets'}]
  BY DEF DeliveryState
<1> HIDE DEF db
<1>7. db \in Db
  BY <1>1, <1>4, <1>6 DEF Db, DbHolds
<1>8. DbOK(db)
  BY <1>1, <1>5, <1>6, <1>7 DEF DbOK, DbHolds
<1>9. Deliver(db)
  BY <1>2, <1>6 DEF Deliver
<1>10. DbHolds'
  BY <1>2, <1>8, <1>9, DeliverKeeps
<1>11. CountersOK' /\ PreferencesOK'
  BY <1>1, <1>2 DEF CountersOK, PreferencesOK
<1>12. ReadingOK'
  BY <1>1, <1>2 DEF ReadingOK, listRowsForRecipient, Owned
<1>13. TicketsOK' /\ PagingOK' /\ NewsOK'
  <2>1. clock <= clock'
    BY <1>1, <1>2
  <2>2. \A q, t, n : Told(q, About(t, n))' = Told(q, About(t, n))
    BY <1>2 DEF Told
  <2> QED BY <1>1, <1>2, <1>11, <2>1, <2>2, TicketsStay
<1> QED BY <1>10, <1>11, <1>12, <1>13 DEF InboxInv

\* Every step of the notifications.
LEMMA NotificationStep ==
  ASSUME NotificationAssumption, InboxInv, NotificationNext, UNCHANGED <<tickets, paging>>
  PROVE  InboxInv'
<1>1. ASSUME NEW named \in {{}} \cup {{u} : u \in Users}, emitExecutionResult(named) PROVE InboxInv'
  <2>1. named \in SUBSET Users
    OBVIOUS
  <2> QED BY <1>1, <2>1, EmitResultKeeps
<1>2. ASSUME NEW s \in Sockets, handleUpgrade(s) PROVE InboxInv'
  <2> DEFINE new == [open |-> TRUE, unread |-> UnreadOf(notes, Holder[s])]
  <2>1. sockets' = [sockets EXCEPT ![s] = new]
    BY <1>2 DEF handleUpgrade, UnreadOf
  <2>2. new \in SocketState /\ new.unread = IF new.open THEN UnreadOf(notes, Holder[s]) ELSE {}
    <3>1. notes \in Seq(Note)
      BY DEF InboxInv, DbHolds
    <3>2. UnreadOf(notes, Holder[s]) \in SUBSET Nat
      BY <3>1 DEF UnreadOf
    <3> QED BY <3>2 DEF SocketState
  <2>3. UNCHANGED <<clock, preferences, dispatchState, notes, audit, reading, since, emits, calls>>
    BY <1>2 DEF handleUpgrade
  <2> HIDE DEF new
  <2> QED BY <2>1, <2>2, <2>3, SocketKeeps
<1>3. ASSUME NEW s \in Sockets, cleanupClient(s) PROVE InboxInv'
  <2> DEFINE new == [open |-> FALSE, unread |-> {}]
  <2>1. /\ sockets' = [sockets EXCEPT ![s] = new]
        /\ UNCHANGED <<clock, preferences, dispatchState, notes, audit, reading, since, emits, calls>>
    BY <1>3 DEF cleanupClient
  <2>2. new \in SocketState /\ new.unread = IF new.open THEN UnreadOf(notes, Holder[s]) ELSE {}
    BY DEF SocketState
  <2> HIDE DEF new
  <2> QED BY <2>1, <2>2, SocketKeeps
<1>4. ASSUME NEW r \in Recipients, PutPreferences(r) \/ PostRead(r) \/ GetInbox(r) PROVE InboxInv'
  BY <1>4, PreferenceKeeps, ReadKeeps, InboxReadKeeps
<1>5. ASSUME Tick \/ emitApprovalTodo PROVE InboxInv'
  BY <1>5, TickKeeps, EmitApprovalKeeps
<1> QED BY <1>1, <1>2, <1>3, <1>4, <1>5 DEF NotificationNext, PreferencesNext

\* A subject tells the ticket and the event it is about.
LEMMA SubjectsAreTickets ==
  ASSUME NEW t \in Nat, NEW n \in Nat
  PROVE  /\ About(t, n) \in Subjects
         /\ \A u, m : About(u, m) = About(t, n) <=> u = t /\ m = n
<1> QED BY DEF About, Subjects

\* What a delivery leaves of the rest.
LEMMA OthersKeep ==
  ASSUME NotificationAssumption, InboxInv, NEW db, DbOK(db), KeepsNotes(notes, db.notes), Deliver(db),
         UNCHANGED <<clock, preferences, reading, since, emits>>, calls' \in 0..MaxCalls
  PROVE  CountersOK' /\ PreferencesOK' /\ DbHolds' /\ ReadingOK'
<1>1. /\ CountersOK /\ PreferencesOK /\ DbHolds /\ ReadingOK /\ clock \in Nat
      /\ clock' = clock /\ preferences' = preferences /\ reading' = reading /\ since' = since
      /\ emits' = emits
  BY DEF InboxInv, CountersOK
<1>2. DbHolds' /\ notes' = db.notes
  BY DeliverKeeps
<1>3. CountersOK' /\ PreferencesOK'
  BY <1>1 DEF CountersOK, PreferencesOK
<1>4. ReadingOK'
  <2>1. /\ notes \in Seq(Note) /\ notes' \in Seq(Note) /\ Len(notes) <= Len(notes')
        /\ \A i \in DOMAIN notes : notes'[i] = notes[i]
    BY <1>1, <1>2 DEF DbHolds, KeepsNotes
  <2>2. clock <= clock' /\ clock' \in Nat
    BY <1>1
  <2> QED BY <1>1, <2>1, <2>2, ReadingKeeps
<1> QED BY <1>2, <1>3, <1>4

\* Tickets that are updated now only move to the front of the list.
LEMMA PagingKeeps ==
  ASSUME TicketsOK, PagingOK, clock \in Nat, clock' = clock, paging' = paging,
         tickets' \in Seq(Ticket), Len(tickets) <= Len(tickets'),
         \A t \in 1..Len(tickets) :
            /\ tickets'[t].user = tickets[t].user
            /\ tickets'[t].updatedAt \in {tickets[t].updatedAt, clock}
  PROVE  PagingOK'
<1>1. /\ Len(tickets) \in Nat /\ Len(tickets') \in Nat
      /\ \A t \in 1..Len(tickets) : t \in 1..Len(tickets') /\ t \in Nat
      /\ paging \in Paging /\ paging.began <= Len(tickets) /\ paging.at <= clock
  BY DEF TicketsOK, PagingOK
<1>2. /\ paging.cursor.at \in Nat /\ paging.cursor.ticket \in Nat /\ paging.at \in Nat
      /\ paging.began \in Nat
  BY <1>1 DEF Paging
<1>3. \A t \in 1..Len(tickets) : tickets[t].updatedAt \in Nat /\ tickets[t].updatedAt <= clock
  <2>1. \A t \in 1..Len(tickets) : tickets[t] \in Ticket /\ tickets[t].updatedAt <= clock
    BY DEF TicketsOK
  <2> QED BY <2>1 DEF Ticket
<1>4. ASSUME NEW t \in 1..Len(tickets), ~PastTicket(paging.cursor, t)
      PROVE  ~PastTicket(paging.cursor, t)'
  <2>1. /\ paging.cursor # NoCursor /\ ~(tickets[t].updatedAt < paging.cursor.at)
        /\ ~(tickets[t].updatedAt = paging.cursor.at /\ t < paging.cursor.ticket)
    BY <1>4 DEF PastTicket
  <2>2. /\ ~(tickets'[t].updatedAt < paging.cursor.at)
        /\ ~(tickets'[t].updatedAt = paging.cursor.at /\ t < paging.cursor.ticket)
    BY <1>1, <1>2, <1>3, <2>1
  <2> QED BY <2>1, <2>2 DEF PastTicket, NoCursor
<1>5. ASSUME NEW who \in paging.who, NEW t \in 1..paging.began, ensureTicketAccess(who, t)'
      PROVE  \/ Seen(paging.pages, t) \/ tickets'[t].updatedAt >= paging.at
             \/ paging.more /\ PastTicket(paging.cursor, t)'
  <2>1. t \in 1..Len(tickets)
    BY <1>1, <1>2
  <2>2. ensureTicketAccess(who, t)
    BY <1>5, <2>1 DEF ensureTicketAccess
  <2>3. CASE tickets'[t].updatedAt = clock
    BY <1>1, <1>2, <2>3
  <2>4. CASE tickets'[t].updatedAt = tickets[t].updatedAt
    <3>1. PastTicket(paging.cursor, t)' <=> PastTicket(paging.cursor, t)
      BY <2>4 DEF PastTicket, NoCursor
    <3> QED BY <2>2, <2>4, <3>1 DEF PagingOK
  <2> QED BY <2>1, <2>3, <2>4
<1>6. paging.began <= Len(tickets')
  BY <1>1, <1>2
<1>7. \A t \in Nat : Seen(paging.pages, t) => t \in 1..Len(tickets') /\ ~PastTicket(paging.cursor, t)'
  BY <1>1, <1>4 DEF PagingOK
<1>8. Disjoint(paging.pages)
  BY DEF PagingOK
<1> QED BY <1>1, <1>5, <1>6, <1>7, <1>8 DEF PagingOK

\* A new ticket: none of its events was told before, and its creation is told each of the staff.
LEMMA PostTicketKeeps ==
  ASSUME NotificationAssumption, FeedbackAssumption, InboxInv, NEW u \in Users, PostTicket(u)
  PROVE  InboxInv'
<1> DEFINE n == Len(tickets) + 1
           rs == listMerchantStaffRecipientIds(Managers)
           db == createAll(DeliveryState, rs, FeedbackTicket, About(n, 1))
           new == createTicket(u)
<1>1. /\ CountersOK /\ PreferencesOK /\ DbHolds /\ ReadingOK /\ TicketsOK /\ PagingOK /\ NewsOK
      /\ clock \in Nat /\ tickets \in Seq(Ticket) /\ Len(tickets) \in Nat
  BY DEF InboxInv, CountersOK, TicketsOK
<1>2. /\ tickets' = Append(tickets, new)
      /\ clock' = clock /\ preferences' = preferences /\ reading' = reading /\ since' = since
      /\ emits' = emits /\ calls' = calls /\ paging' = paging
  BY DEF PostTicket
<1>3. /\ new \in Ticket /\ Len(new.timeline) = 1 /\ new.updatedAt = clock
      /\ new.status = new.timeline[1].to /\ new.timeline[1].at = clock
  <2> DEFINE event == [from |-> "", to |-> "OPEN", at |-> clock]
  <2>1. event \in Event
    BY <1>1 DEF Event, Statuses
  <2>2. <<event>> \in Seq(Event) /\ Len(<<event>>) = 1 /\ <<event>>[1] = event
    <3> HIDE DEF event
    <3> QED BY <2>1
  <2>3. new = [user |-> u, status |-> "OPEN", updatedAt |-> clock, timeline |-> <<event>>]
    BY DEF createTicket
  <2>4. event.to = "OPEN" /\ event.at = clock
    OBVIOUS
  <2> HIDE DEF event, new
  <2> QED BY <1>1, <2>2, <2>3, <2>4 DEF Ticket, Statuses
<1> HIDE DEF new
<1>4. /\ tickets' \in Seq(Ticket) /\ Len(tickets') = n /\ tickets'[n] = new
      /\ \A t \in 1..Len(tickets) : tickets'[t] = tickets[t]
  BY <1>1, <1>2, <1>3
<1>5. Deliver(db)
  BY <1>4 DEF PostTicket
<1>6. /\ rs \in Seq(Recipients) /\ \A i, j \in 1..Len(rs) : rs[i] = rs[j] => i = j
      /\ \A q : (\E i \in 1..Len(rs) : rs[i] = q) <=> q \in {[type |-> MerchantStaff, id |-> i] : i \in Managers}
  <2>1. Managers \in SUBSET Staff /\ {} \in SUBSET Users
    BY DEF FeedbackAssumption
  <2> QED BY <2>1, NamedRecipients
<1>7. /\ DbOK(DeliveryState) /\ DeliveryState.notes = notes
      /\ \A q, a : Told(q, a) = ToldIn(DeliveryState, q, a)
  BY <1>1, TheDb
<1>8. About(n, 1) \in Subjects /\ \A t, m : About(t, m) = About(n, 1) <=> t = n /\ m = 1
  BY <1>1, SubjectsAreTickets
<1>9. /\ DbOK(db) /\ KeepsNotes(notes, db.notes)
      /\ \A q, a : a # About(n, 1) => ToldIn(db, q, a) = ToldIn(DeliveryState, q, a)
      /\ \A q : (\E i \in 1..Len(rs) : rs[i] = q) =>
           ToldIn(db, q, About(n, 1)) = ToldIn(DeliveryState, q, About(n, 1)) + 1
      /\ \A q : (\A i \in 1..Len(rs) : rs[i] # q) =>
           ToldIn(db, q, About(n, 1)) = ToldIn(DeliveryState, q, About(n, 1))
  <2>1. FeedbackTicket \in Categories
    BY DEF FeedbackAssumption
  <2> HIDE DEF rs, n
  <2>2. /\ DbOK(db) /\ KeepsNotes(DeliveryState.notes, db.notes)
        /\ \A q, a : a # About(n, 1) => ToldIn(db, q, a) = ToldIn(DeliveryState, q, a)
        /\ \A q : /\ \A i, j \in 1..Len(rs) : rs[i] = rs[j] => i = j
                  /\ \E i \in 1..Len(rs) : rs[i] = q
                => ToldIn(db, q, About(n, 1)) = ToldIn(DeliveryState, q, About(n, 1)) + 1
        /\ \A q : (\A i \in 1..Len(rs) : rs[i] # q) =>
             ToldIn(db, q, About(n, 1)) = ToldIn(DeliveryState, q, About(n, 1))
    <3> DEFINE about == About(n, 1)
    <3>1. /\ about \in Subjects /\ rs \in Seq(Recipients)
          /\ DbOK(DeliveryState) /\ PreferencesOK /\ clock \in Nat
      BY <1>1, <1>6, <1>7, <1>8
    <3> HIDE DEF about
    <3>2. LET after == createAll(DeliveryState, rs, FeedbackTicket, about)
          IN  /\ DbOK(after) /\ KeepsNotes(DeliveryState.notes, after.notes)
              /\ \A q, a : a # about => ToldIn(after, q, a) = ToldIn(DeliveryState, q, a)
              /\ \A q : (\A i, j \in 1..Len(rs) : rs[i] = rs[j] => i = j) /\ (\E i \in 1..Len(rs) : rs[i] = q)
                         => ToldIn(after, q, about) = ToldIn(DeliveryState, q, about) + 1
              /\ \A q : (\A i \in 1..Len(rs) : rs[i] # q)
                         => ToldIn(after, q, about) = ToldIn(DeliveryState, q, about)
      BY <2>1, <3>1, AllDelivered
    <3> QED BY <3>2 DEF about
  <2> HIDE DEF db
  <2> QED BY <1>6, <1>7, <2>2
<1> HIDE DEF db, rs
<1>10. \A q, t, m : Told(q, About(t, m))' = ToldIn(db, q, About(t, m))
  BY <1>2, <1>5, <1>9, DeliverKeeps
<1>11. CountersOK' /\ PreferencesOK' /\ DbHolds' /\ ReadingOK'
  <2>1. calls' \in 0..MaxCalls
    BY <1>1, <1>2 DEF CountersOK
  <2> QED BY <1>2, <1>5, <1>9, <2>1, OthersKeep
<1>12. TicketsOK'
  <2> SUFFICES ASSUME NEW t \in 1..n
               PROVE  LET ticket == tickets'[t]
                          last == ticket.timeline[Len(ticket.timeline)]
                      IN  /\ Len(ticket.timeline) >= 1 /\ ticket.updatedAt <= clock
                          /\ ticket.status = last.to /\ ticket.updatedAt = last.at
    BY <1>2, <1>4 DEF TicketsOK
  <2>1. CASE t = n
    BY <1>1, <1>3, <1>4, <2>1
  <2>2. CASE t # n
    <3>1. t \in 1..Len(tickets)
      BY <1>1, <2>2
    <3> QED BY <1>1, <1>4, <3>1 DEF TicketsOK
  <2> QED BY <2>1, <2>2
<1>13. PagingOK'
  <2>1. Len(tickets) <= Len(tickets')
    BY <1>1, <1>4
  <2> HIDE DEF n
  <2> QED BY <1>1, <1>2, <1>4, <2>1, PagingKeeps
<1>14. NewsOK'
  <2> SUFFICES ASSUME NEW r \in Recipients, NEW t \in Nat, NEW m \in Nat
               PROVE  /\ /\ t \in 1..n /\ m \in 1..Len(tickets'[t].timeline) /\ r \in ToldOf(t, m)'
                         => Told(r, About(t, m))' = 1
                      /\ \/ t > n
                         \/ t \in 1..n /\ m > Len(tickets'[t].timeline)
                         \/ t \in 1..n /\ m \in 1..Len(tickets'[t].timeline) /\ r \notin ToldOf(t, m)'
                         => Told(r, About(t, m))' = 0
    BY <1>4, SMTT(30) DEF NewsOK
  <2>1. Told(r, About(t, m))' = ToldIn(db, r, About(t, m))
    BY <1>10
  <2>2. Told(r, About(t, m)) = ToldIn(DeliveryState, r, About(t, m))
    BY <1>7
  <2>3. CASE t = n /\ m = 1
    <3>1. Told(r, About(t, m)) = 0
      BY <1>1, <2>3 DEF NewsOK
    <3>2. ToldOf(t, m)' = {[type |-> MerchantStaff, id |-> i] : i \in Managers}
      BY <2>3 DEF ToldOf
    <3>3. r \in ToldOf(t, m)' <=> \E i \in 1..Len(rs) : rs[i] = r
      BY <1>6, <3>2
    <3>6. r \notin ToldOf(t, m)' => Told(r, About(t, m))' = 0
      BY <1>9, <2>1, <2>2, <2>3, <3>1, <3>3
    <3>4. r \in ToldOf(t, m)' => Told(r, About(t, m))' = 1
      BY <1>9, <2>1, <2>2, <2>3, <3>1, <3>3
    <3>5. ~(t > n) /\ Len(tickets'[t].timeline) = 1
      BY <1>1, <1>3, <1>4, <2>3
    <3> QED BY <2>3, <3>4, <3>5, <3>6
  <2>4. CASE t = n /\ m # 1
    <3>1. Told(r, About(t, m)) = 0
      BY <1>1, <2>4 DEF NewsOK
    <3>2. Told(r, About(t, m))' = 0
      BY <1>8, <1>9, <2>1, <2>2, <2>4, <3>1
    <3>3. Len(tickets'[t].timeline) = 1
      BY <1>3, <1>4, <2>4
    <3> QED BY <2>4, <3>2, <3>3
  <2>5. CASE t # n
    <3>1. Told(r, About(t, m))' = Told(r, About(t, m))
      BY <1>8, <1>9, <2>1, <2>2, <2>5
    <3>2. CASE t \in 1..Len(tickets)
      <4>1. tickets'[t] = tickets[t] /\ t \in 1..n /\ ~(t > n) /\ ~(t > Len(tickets))
        BY <1>1, <1>4, <3>2
      <4>2. ToldOf(t, m)' = ToldOf(t, m)
        BY <4>1 DEF ToldOf
      <4> QED BY <1>1, <3>1, <3>2, <4>1, <4>2 DEF NewsOK
    <3>3. CASE t \notin 1..Len(tickets)
      <4>1. t \notin 1..n /\ (t > n => t > Len(tickets))
        BY <1>1, <2>5, <3>3
      <4> QED BY <1>1, <3>1, <4>1 DEF NewsOK
    <3> QED BY <3>2, <3>3
  <2> QED BY <2>3, <2>4, <2>5
<1> QED BY <1>11, <1>12, <1>13, <1>14 DEF InboxInv

\* A transition: the ticket's next event was not told before and is told its customer.
LEMMA PostTransitionKeeps ==
  ASSUME NotificationAssumption, FeedbackAssumption, InboxInv,
         NEW u \in DOMAIN tickets, NEW to \in Statuses, PostTransition(u, to)
  PROVE  InboxInv'
<1> DEFINE new == transitionTicket(tickets[u], to)
           k == Len(tickets[u].timeline) + 1
           customer == [type |-> CustomerUser, id |-> tickets[u].user]
           about == About(u, k)
           db == createNotification(DeliveryState, customer, FeedbackTicket, about)
           n == Len(tickets)
<1>1. /\ CountersOK /\ PreferencesOK /\ DbHolds /\ ReadingOK /\ TicketsOK /\ PagingOK /\ NewsOK
      /\ clock \in Nat /\ tickets \in Seq(Ticket) /\ n \in Nat /\ DOMAIN tickets = 1..n
      /\ tickets[u] \in Ticket /\ u \in 1..n /\ u \in Nat
  BY DEF InboxInv, CountersOK, TicketsOK
<1>2. /\ tickets' = [tickets EXCEPT ![u] = new] /\ calls' \in 0..MaxCalls
      /\ clock' = clock /\ preferences' = preferences /\ reading' = reading /\ since' = since
      /\ emits' = emits /\ paging' = paging
  BY <1>1 DEF PostTransition, CountersOK, NotificationAssumption
<1>3. /\ tickets[u].timeline \in Seq(Event) /\ tickets[u].user \in Users
      /\ Len(tickets[u].timeline) \in Nat /\ Len(tickets[u].timeline) >= 1
      /\ tickets[u].status \in Statuses
  BY <1>1 DEF Ticket, TicketsOK
<1>4. /\ new \in Ticket /\ Len(new.timeline) = k /\ new.updatedAt = clock /\ new.user = tickets[u].user
      /\ new.status = to /\ new.timeline[k].to = to /\ new.timeline[k].at = clock
  <2> DEFINE event == [from |-> tickets[u].status, to |-> to, at |-> clock]
             line == Append(tickets[u].timeline, event)
  <2>1. event \in Event /\ event.to = to /\ event.at = clock
    BY <1>1, <1>3 DEF Event
  <2>2. new = [tickets[u] EXCEPT !.status = to, !.updatedAt = clock, !.timeline = line]
    BY DEF transitionTicket
  <2>3. line \in Seq(Event) /\ Len(line) = k /\ line[k] = event
    <3> HIDE DEF event
    <3> QED BY <1>3, <2>1
  <2> HIDE DEF event, line, new
  <2>4. new.status = to /\ new.updatedAt = clock /\ new.timeline = line /\ new.user = tickets[u].user
    BY <1>1, <2>2 DEF Ticket
  <2>5. new \in Ticket
    BY <1>1, <2>2, <2>3 DEF Ticket
  <2> QED BY <2>1, <2>3, <2>4, <2>5
<1> HIDE DEF new
<1>5. /\ tickets' \in Seq(Ticket) /\ Len(tickets') = n /\ tickets'[u] = new
      /\ \A t \in 1..n : t # u => tickets'[t] = tickets[t]
  BY <1>1, <1>2, <1>4
<1>6. Deliver(db)
  BY <1>4, <1>5 DEF PostTransition
<1>7. /\ DbOK(DeliveryState) /\ DeliveryState.notes = notes
      /\ \A q, a : Told(q, a) = ToldIn(DeliveryState, q, a)
  BY <1>1, TheDb
<1>8. k \in Nat /\ k >= 2 /\ about \in Subjects /\ \A t, m : About(t, m) = about <=> t = u /\ m = k
  BY <1>1, <1>3, SubjectsAreTickets
<1>9. customer \in Recipients /\ FeedbackTicket \in Categories
  BY <1>3 DEF Recipients, FeedbackAssumption
<1> HIDE DEF about, customer, k
<1>10. /\ DbOK(db) /\ KeepsNotes(notes, db.notes)
       /\ \A q, a : ToldIn(db, q, a) = ToldIn(DeliveryState, q, a)
                                         + (IF q = customer /\ a = about THEN 1 ELSE 0)
       /\ \A q, a : ToldIn(DeliveryState, q, a) \in Nat
  BY <1>1, <1>7, <1>8, <1>9, CreateKeeps
<1> HIDE DEF db, n
<1>11. \A q, t, m : Told(q, About(t, m))' = ToldIn(db, q, About(t, m))
  BY <1>2, <1>6, <1>10, DeliverKeeps
<1>12. CountersOK' /\ PreferencesOK' /\ DbHolds' /\ ReadingOK'
  BY <1>2, <1>6, <1>10, OthersKeep
<1>13. TicketsOK'
  <2> SUFFICES ASSUME NEW t \in 1..n
               PROVE  LET ticket == tickets'[t]
                          last == ticket.timeline[Len(ticket.timeline)]
                      IN  /\ Len(ticket.timeline) >= 1 /\ ticket.updatedAt <= clock
                          /\ ticket.status = last.to /\ ticket.updatedAt = last.at
    BY <1>2, <1>5 DEF TicketsOK
  <2>1. CASE t = u
    BY <1>1, <1>4, <1>5, <1>8, <2>1
  <2>2. CASE t # u
    BY <1>1, <1>5, <2>2 DEF TicketsOK, n
  <2> QED BY <2>1, <2>2
<1>14. PagingOK'
  <2>1. Len(tickets) <= Len(tickets')
    BY <1>1, <1>5 DEF n
  <2>2. \A t \in 1..Len(tickets) : /\ tickets'[t].user = tickets[t].user
                                   /\ tickets'[t].updatedAt \in {tickets[t].updatedAt, clock}
    BY <1>4, <1>5 DEF n
  <2> QED BY <1>1, <1>2, <1>5, <2>1, <2>2, PagingKeeps
<1>15. NewsOK'
  <2> SUFFICES ASSUME NEW r \in Recipients, NEW t \in Nat, NEW m \in Nat
               PROVE  /\ /\ t \in 1..n /\ m \in 1..Len(tickets'[t].timeline) /\ r \in ToldOf(t, m)'
                         => Told(r, About(t, m))' = 1
                      /\ \/ t > n
                         \/ t \in 1..n /\ m > Len(tickets'[t].timeline)
                         \/ t \in 1..n /\ m \in 1..Len(tickets'[t].timeline) /\ r \notin ToldOf(t, m)'
                         => Told(r, About(t, m))' = 0
    BY <1>5 DEF NewsOK
  <2>1. Told(r, About(t, m))' = ToldIn(db, r, About(t, m))
    BY <1>11
  <2>2. Told(r, About(t, m)) = ToldIn(DeliveryState, r, About(t, m))
    BY <1>7
  <2>3. /\ /\ t \in 1..n /\ m \in 1..Len(tickets[t].timeline) /\ r \in ToldOf(t, m)
           => Told(r, About(t, m)) = 1
        /\ \/ t > n
           \/ t \in 1..n /\ m > Len(tickets[t].timeline)
           \/ t \in 1..n /\ m \in 1..Len(tickets[t].timeline) /\ r \notin ToldOf(t, m)
           => Told(r, About(t, m)) = 0
    BY <1>1 DEF NewsOK, n
  <2>4. CASE t = u /\ m = k
    <3>1. Told(r, About(t, m)) = 0
      BY <1>1, <1>3, <2>3, <2>4 DEF k
    <3>2. ToldOf(t, m)' = {customer}
      BY <1>4, <1>5, <1>8, <2>4 DEF ToldOf, customer
    <3>3. About(t, m) = about
      BY <1>8, <2>4
    <3>4. ASSUME r \in ToldOf(t, m)' PROVE Told(r, About(t, m))' = 1
      <4>1. r = customer
        BY <3>2, <3>4
      <4>2. ToldIn(DeliveryState, r, about) = 0
        BY <2>2, <3>1, <3>3
      <4>3. ToldIn(db, r, about) = ToldIn(DeliveryState, r, about) + 1
        BY <1>10, <4>1
      <4> HIDE DEF ToldIn
      <4>4. ToldIn(db, r, about) = 1
        BY <4>2, <4>3
      <4> QED BY <2>1, <3>3, <4>4
    <3>5. ~(t > n) /\ Len(tickets'[t].timeline) = k
      BY <1>1, <1>4, <1>5, <2>4
    <3>6. ASSUME r \notin ToldOf(t, m)' PROVE Told(r, About(t, m))' = 0
      <4>1. r # customer
        BY <3>2, <3>6
      <4>2. ToldIn(DeliveryState, r, about) = 0
        BY <2>2, <3>1, <3>3
      <4>3. ToldIn(db, r, about) = ToldIn(DeliveryState, r, about) + 0
        BY <1>10, <4>1
      <4> HIDE DEF ToldIn
      <4>4. ToldIn(db, r, about) = 0
        BY <4>2, <4>3
      <4> QED BY <2>1, <3>3, <4>4
    <3> QED BY <1>8, <2>4, <3>4, <3>5, <3>6
  <2>5. CASE t = u /\ m # k
    <3>1. Told(r, About(t, m))' = Told(r, About(t, m))
      BY <1>8, <1>10, <2>1, <2>2, <2>5
    <3>2. ToldOf(t, m)' = ToldOf(t, m)
      BY <1>4, <1>5, <2>5 DEF ToldOf
    <3>3. Len(tickets'[t].timeline) = Len(tickets[t].timeline) + 1 /\ ~(t > n)
      BY <1>1, <1>4, <1>5, <2>5 DEF k
    <3>4. /\ m \in 1..Len(tickets'[t].timeline) => m \in 1..Len(tickets[t].timeline)
          /\ m > Len(tickets'[t].timeline) => m > Len(tickets[t].timeline)
      BY <1>3, <2>5, <3>3 DEF k
    <3> QED BY <1>1, <2>3, <2>5, <3>1, <3>2, <3>3, <3>4
  <2>6. CASE t # u
    <3>1. Told(r, About(t, m))' = Told(r, About(t, m))
      BY <1>8, <1>10, <2>1, <2>2, <2>6
    <3>2. CASE t \in 1..n
      <4>1. tickets'[t] = tickets[t]
        BY <1>5, <2>6, <3>2
      <4>2. ToldOf(t, m)' = ToldOf(t, m)
        BY <4>1 DEF ToldOf
      <4> QED BY <2>3, <3>1, <4>1, <4>2
    <3>3. CASE t \notin 1..n
      BY <2>3, <3>1, <3>3
    <3> QED BY <3>2, <3>3
  <2> QED BY <2>4, <2>5, <2>6
<1> QED BY <1>12, <1>13, <1>14, <1>15 DEF InboxInv

\* A page of the tickets: none of those past the cursor is left out before its last item
\* unless there are more.
LEMMA TicketPage ==
  ASSUME NotificationAssumption, TicketsOK, NEW requester, NEW cursor \in [at : Nat, ticket : Nat]
  PROVE  LET page == listTickets(requester, cursor)
             last == lastTicket(page.items)
             end == [at |-> tickets[last].updatedAt, ticket |-> last]
         IN  /\ page.items \subseteq 1..Len(tickets) /\ page.hasMore \in BOOLEAN
             /\ \A t \in page.items : PastTicket(cursor, t)
             /\ page.items # {} =>
                  /\ last \in page.items
                  /\ \A t \in page.items : ~PastTicket(end, t)
                  /\ \A t \in 1..Len(tickets) : ~PastTicket(cursor, t) => ~PastTicket(end, t)
             /\ \A t \in 1..Len(tickets) :
                  ensureTicketAccess(requester, t) /\ PastTicket(cursor, t) =>
                    t \in page.items \/ (page.items # {} /\ page.hasMore /\ PastTicket(end, t))
<1> DEFINE filtered == {t \in DOMAIN tickets : ensureTicketAccess(requester, t) /\ PastTicket(cursor, t)}
           G == {e \in filtered \X filtered : LaterUpdated(e[1], e[2])}
           items == FirstOf(filtered, PageSize, G)
           page == listTickets(requester, cursor)
           last == lastTicket(page.items)
           end == [at |-> tickets[last].updatedAt, ticket |-> last]
<1>1. DOMAIN tickets = 1..Len(tickets) /\ Len(tickets) \in Nat
  BY DEF TicketsOK
<1>2. \A t \in 1..Len(tickets) : tickets[t].updatedAt \in Nat /\ t \in Nat /\ t >= 1
  <2>1. \A t \in 1..Len(tickets) : tickets[t] \in Ticket
    BY DEF TicketsOK
  <2> QED BY <2>1 DEF Ticket
<1>3. \A t, u \in filtered : <<t, u>> \in G <=> LaterUpdated(t, u)
  OBVIOUS
<1>4. filtered \subseteq 1..Len(tickets) /\ \A t \in filtered : PastTicket(cursor, t)
  BY <1>1
<1>5. IsFiniteSet(filtered)
  <2>1. IsFiniteSet(1..Len(tickets))
    BY <1>1, FS_Interval
  <2> HIDE DEF filtered
  <2> QED BY <1>4, <2>1, FS_Subset
<1>6. page.items = items /\ page.hasMore = (Cardinality(filtered) > PageSize)
  <2>1. \A t \in filtered : {u \in filtered : LaterUpdated(u, t)} = {u \in filtered : <<u, t>> \in G}
    OBVIOUS
  <2>2. page = [items |-> {t \in filtered : Cardinality({u \in filtered : LaterUpdated(u, t)}) < PageSize},
                hasMore |-> Cardinality(filtered) > PageSize]
    BY DEF listTickets
  <2>3. items = {t \in filtered : Cardinality({u \in filtered : <<u, t>> \in G}) < PageSize}
    BY DEF FirstOf
  <2> HIDE DEF items, G, filtered, page
  <2>4. {t \in filtered : Cardinality({u \in filtered : LaterUpdated(u, t)}) < PageSize} = items
    BY <2>1, <2>3
  <2> QED BY <2>2, <2>4
<1>7. PageSize \in Nat \ {0}
  BY DEF NotificationAssumption
<1>8. \A t \in 1..Len(tickets) :
        ensureTicketAccess(requester, t) /\ PastTicket(cursor, t) => t \in filtered
  BY <1>1
<1> HIDE DEF G, filtered, items, page
<1>9. Orders(G, filtered)
  <2> DEFINE at(t) == tickets[t].updatedAt
  <2>1. \A t \in filtered : at(t) \in Nat /\ t \in Nat
    BY <1>2, <1>4
  <2>2. \A t, u \in filtered : <<t, u>> \in G <=> at(t) > at(u) \/ (at(t) = at(u) /\ t > u)
    BY <1>3 DEF LaterUpdated
  <2> HIDE DEF at
  <2> QED BY <2>1, <2>2 DEF Orders
<1>10. /\ items \subseteq filtered
       /\ filtered # {} => items # {}
       /\ \A t \in filtered : t \notin items =>
            Cardinality(filtered) > PageSize /\ \A u \in items : <<u, t>> \in G
  BY <1>5, <1>7, <1>9, PageOf DEF items
<1>11. ASSUME items # {}
       PROVE  last \in items /\ \A t \in items : t = last \/ LaterUpdated(t, last)
  <2>1. Orders(G, items)
    BY <1>9, <1>10 DEF Orders
  <2>2. IsFiniteSet(items)
    BY <1>5, <1>10, FS_Subset
  <2>3. \E u \in items : \A t \in items : t = u \/ <<t, u>> \in G
    BY <1>11, <2>1, <2>2, LastExists
  <2>4. \E u \in items : \A t \in items : t = u \/ LaterUpdated(t, u)
    BY <1>3, <1>10, <2>3
  <2> QED BY <1>6, <2>4 DEF lastTicket
<1> HIDE DEF last
<1>12. ASSUME items # {}
       PROVE  /\ last \in 1..Len(tickets) /\ PastTicket(cursor, last)
              /\ \A t \in 1..Len(tickets) : PastTicket(end, t) <=> LaterUpdated(last, t)
  <2>1. last \in 1..Len(tickets) /\ PastTicket(cursor, last)
    BY <1>4, <1>10, <1>11, <1>12
  <2>2. end # NoCursor
    <3>1. end.ticket = last /\ NoCursor.ticket = 0 /\ last # 0
      BY <1>2, <2>1 DEF NoCursor
    <3> QED BY <3>1
  <2>3. end.at = tickets[last].updatedAt /\ end.ticket = last
    OBVIOUS
  <2> HIDE DEF end
  <2>4. ASSUME NEW t \in 1..Len(tickets) PROVE PastTicket(end, t) <=> LaterUpdated(last, t)
    <3>1. /\ tickets[t].updatedAt \in Nat /\ tickets[last].updatedAt \in Nat /\ t \in Nat /\ last \in Nat
      BY <1>2, <2>1
    <3> QED BY <2>2, <2>3, <3>1 DEF PastTicket, LaterUpdated
  <2> QED BY <2>1, <2>4
<1> HIDE DEF end
<1>13. ASSUME items # {}, NEW t \in items PROVE ~PastTicket(end, t)
  <2>1. t \in 1..Len(tickets) /\ last \in 1..Len(tickets)
    BY <1>4, <1>10, <1>12, <1>13
  <2>2. ~LaterUpdated(last, t)
    BY <1>2, <1>11, <1>13, <2>1 DEF LaterUpdated
  <2> QED BY <1>12, <1>13, <2>1, <2>2
<1>14. ASSUME items # {}, NEW t \in 1..Len(tickets), ~PastTicket(cursor, t) PROVE ~PastTicket(end, t)
  <2> SUFFICES ASSUME LaterUpdated(last, t) PROVE PastTicket(cursor, t)
    BY <1>12, <1>14
  <2>1. last \in 1..Len(tickets) /\ PastTicket(cursor, last)
    BY <1>12, <1>14
  <2>2. /\ tickets[t].updatedAt \in Nat /\ tickets[last].updatedAt \in Nat /\ t \in Nat /\ last \in Nat
        /\ cursor.at \in Nat /\ cursor.ticket \in Nat
    BY <1>2, <2>1
  <2> QED BY <2>1, <2>2 DEF PastTicket, LaterUpdated
<1>15. ASSUME NEW t \in filtered, t \notin items
       PROVE  items # {} /\ Cardinality(filtered) > PageSize /\ PastTicket(end, t)
  <2>1. items # {} /\ Cardinality(filtered) > PageSize /\ \A u \in items : <<u, t>> \in G
    BY <1>10, <1>15
  <2>2. last \in items /\ last \in filtered /\ t \in 1..Len(tickets)
    BY <1>4, <1>10, <1>11, <2>1
  <2>3. LaterUpdated(last, t)
    BY <1>3, <2>1, <2>2
  <2> QED BY <1>12, <2>1, <2>2, <2>3
<1>16. items \subseteq 1..Len(tickets) /\ \A t \in items : PastTicket(cursor, t)
  BY <1>4, <1>10
<1>17. page.hasMore \in BOOLEAN
  BY <1>6
<1>18. Cardinality(filtered) > PageSize => page.hasMore
  BY <1>6, Zenon
<1>19. page.items = items
  BY <1>6
<1> QED BY <1>8, <1>11, <1>13, <1>14, <1>15, <1>16, <1>17, <1>18, <1>19, Zenon DEF page, last, end

\* A page of tickets: the first one, or the next past the cursor.
LEMMA GetTicketsKeeps ==
  ASSUME NotificationAssumption, InboxInv, NEW requester \in {"STAFF"} \cup Users,
         GetTickets(requester)
  PROVE  InboxInv'
<1>1. /\ CountersOK /\ PreferencesOK /\ DbHolds /\ ReadingOK /\ TicketsOK /\ PagingOK /\ NewsOK
      /\ clock \in Nat
  BY DEF InboxInv, CountersOK
<1>2. /\ calls' \in 0..MaxCalls /\ clock' = clock /\ preferences' = preferences
      /\ dispatchState' = dispatchState /\ audit' = audit /\ notes' = notes /\ sockets' = sockets
      /\ since' = since /\ emits' = emits /\ tickets' = tickets /\ reading' = reading
  BY <1>1 DEF GetTickets, CountersOK, NotificationAssumption
<1>3. PICK next \in BOOLEAN :
        LET asked == IF next THEN paging
                     ELSE [NoPaging EXCEPT !.began = Len(tickets), !.at = clock]
            page == listTickets(requester, asked.cursor)
            last == lastTicket(page.items)
        IN  /\ next => paging.more /\ paging.who = {requester}
            /\ paging' = [who |-> {requester}, began |-> asked.began, at |-> asked.at,
                          pages |-> Append(asked.pages, page.items), more |-> page.hasMore,
                          cursor |-> IF page.items = {} THEN asked.cursor
                                     ELSE [at |-> tickets[last].updatedAt, ticket |-> last]]
  BY DEF GetTickets
<1> DEFINE asked == IF next THEN paging
                    ELSE [NoPaging EXCEPT !.began = Len(tickets), !.at = clock]
           began == asked.began
           at == asked.at
           pages == asked.pages
           cursor == asked.cursor
           page == listTickets(requester, cursor)
           last == lastTicket(page.items)
           end == [at |-> tickets[last].updatedAt, ticket |-> last]
           new == IF page.items = {} THEN cursor ELSE end
<1>4. /\ paging'.who = {requester} /\ paging'.began = began /\ paging'.at = at
      /\ paging'.pages = Append(pages, page.items) /\ paging'.more = page.hasMore
      /\ paging'.cursor = new
      /\ paging' = [who |-> {requester}, began |-> began, at |-> at,
                    pages |-> Append(pages, page.items), more |-> page.hasMore, cursor |-> new]
  BY <1>3
<1>5. /\ tickets \in Seq(Ticket) /\ Len(tickets) \in Nat /\ DOMAIN tickets = 1..Len(tickets)
      /\ \A t \in 1..Len(tickets) : tickets[t].updatedAt \in Nat /\ t \in Nat
  <2>1. tickets \in Seq(Ticket)
    BY <1>1 DEF TicketsOK
  <2>2. \A t \in 1..Len(tickets) : tickets[t] \in Ticket
    BY <2>1
  <2>3. \A t \in 1..Len(tickets) : tickets[t].updatedAt \in Nat
    BY <2>2 DEF Ticket
  <2> QED BY <2>1, <2>3
<1>6. NoCursor \in [at : Nat, ticket : Nat] /\ \A t : PastTicket(NoCursor, t)
  BY DEF NoCursor, PastTicket
<1>7. /\ cursor \in [at : Nat, ticket : Nat] /\ pages \in Seq(SUBSET Nat) /\ Disjoint(pages)
      /\ began \in Nat /\ began <= Len(tickets) /\ at \in Nat /\ at <= clock
      /\ \A t \in Nat : Seen(pages, t) => t \in 1..Len(tickets) /\ ~PastTicket(cursor, t)
      /\ \A t \in 1..began : ensureTicketAccess(requester, t) =>
            Seen(pages, t) \/ tickets[t].updatedAt >= at \/ PastTicket(cursor, t)
  <2>1. CASE next
    <3>1. asked = paging
      BY <2>1
    <3>2. paging.who = {requester}
      BY <1>3, <2>1
    <3>3. /\ paging.cursor \in [at : Nat, ticket : Nat] /\ paging.pages \in Seq(SUBSET Nat)
          /\ paging.began \in Nat /\ paging.at \in Nat
      BY <1>1 DEF PagingOK, Paging
    <3> HIDE DEF asked
    <3> QED BY <1>1, <3>1, <3>2, <3>3 DEF PagingOK
  <2>2. CASE ~next
    <3>1. cursor = NoCursor /\ pages = <<>> /\ began = Len(tickets) /\ at = clock
      BY <2>2 DEF NoPaging
    <3> HIDE DEF asked, cursor, pages, began, at
    <3>2. pages \in Seq(SUBSET Nat) /\ DOMAIN pages = {}
      BY <3>1
    <3>3. Disjoint(pages) /\ \A t : ~Seen(pages, t)
      BY <3>2 DEF Disjoint, Seen
    <3>4. /\ cursor \in [at : Nat, ticket : Nat] /\ \A t : PastTicket(cursor, t)
          /\ began \in Nat /\ began <= Len(tickets) /\ at \in Nat /\ at <= clock
      BY <1>1, <1>5, <1>6, <3>1
    <3> QED BY <3>2, <3>3, <3>4
  <2> QED BY <2>1, <2>2
<1> HIDE DEF asked, began, at, pages, cursor
<1>8. /\ page.items \subseteq 1..Len(tickets) /\ page.hasMore \in BOOLEAN
      /\ \A t \in page.items : PastTicket(cursor, t)
      /\ page.items # {} =>
           /\ last \in page.items
           /\ \A t \in page.items : ~PastTicket(end, t)
           /\ \A t \in 1..Len(tickets) : ~PastTicket(cursor, t) => ~PastTicket(end, t)
      /\ \A t \in 1..Len(tickets) :
           ensureTicketAccess(requester, t) /\ PastTicket(cursor, t) =>
             t \in page.items \/ (page.items # {} /\ page.hasMore /\ PastTicket(end, t))
  BY <1>1, <1>7, TicketPage
<1>9. end \in [at : Nat, ticket : Nat] \/ page.items = {}
  <2>1. page.items # {} => last \in 1..Len(tickets)
    BY <1>8
  <2> HIDE DEF page, last
  <2> QED BY <1>5, <2>1
<1> HIDE DEF page, last, end
<1>10. /\ Append(pages, page.items) \in Seq(SUBSET Nat)
       /\ \A t : Seen(Append(pages, page.items), t) <=> Seen(pages, t) \/ t \in page.items
       /\ Disjoint(pages) /\ (\A t \in page.items : ~Seen(pages, t)) => Disjoint(Append(pages, page.items))
  <2>1. page.items \in SUBSET Nat
    BY <1>5, <1>8
  <2> QED BY <1>7, <2>1, PagesMore
<1>11. Disjoint(Append(pages, page.items))
  <2>1. \A t \in page.items : ~Seen(pages, t)
    BY <1>5, <1>7, <1>8
  <2> QED BY <1>7, <1>10, <2>1
<1>12. new \in [at : Nat, ticket : Nat]
  BY <1>7, <1>9
<1>13. \A t \in Nat : Seen(Append(pages, page.items), t) => t \in 1..Len(tickets) /\ ~PastTicket(new, t)
  <2> SUFFICES ASSUME NEW t \in Nat, Seen(pages, t) \/ t \in page.items
               PROVE  t \in 1..Len(tickets) /\ ~PastTicket(new, t)
    BY <1>10
  <2>1. CASE page.items = {}
    BY <1>7, <2>1
  <2>2. CASE page.items # {}
    BY <1>7, <1>8, <2>2
  <2> QED BY <2>1, <2>2
<1>14. \A t \in 1..began : ensureTicketAccess(requester, t) =>
          \/ Seen(Append(pages, page.items), t) \/ tickets[t].updatedAt >= at
          \/ page.hasMore /\ PastTicket(new, t)
  <2> SUFFICES ASSUME NEW t \in 1..began, ensureTicketAccess(requester, t),
                      ~Seen(Append(pages, page.items), t), ~(tickets[t].updatedAt >= at)
               PROVE  page.hasMore /\ PastTicket(new, t)
    OBVIOUS
  <2>1. t \in 1..Len(tickets) /\ ~Seen(pages, t) /\ t \notin page.items
    BY <1>5, <1>7, <1>10
  <2>2. PastTicket(cursor, t)
    BY <1>7, <2>1
  <2>3. page.items # {} /\ page.hasMore /\ PastTicket(end, t)
    BY <1>8, <2>1, <2>2
  <2> QED BY <2>3
<1> HIDE DEF new
<1>15. \A t : PastTicket(paging.cursor, t)' <=> PastTicket(new, t)
  BY <1>2, <1>4 DEF PastTicket, NoCursor
<1>16. \A who, t : ensureTicketAccess(who, t)' <=> ensureTicketAccess(who, t)
  BY <1>2 DEF ensureTicketAccess
<1>17. paging' \in Paging
  <2>1. {requester} \in SUBSET ({"STAFF"} \cup Users)
    OBVIOUS
  <2> QED BY <1>4, <1>7, <1>8, <1>10, <1>12, <2>1 DEF Paging
<1>18. PagingOK'
  <2>1. paging'.began <= Len(tickets') /\ paging'.at <= clock' /\ Disjoint(paging'.pages)
    BY <1>2, <1>4, <1>7, <1>11
  <2>2. \A t \in Nat : Seen(paging'.pages, t) =>
           t \in 1..Len(tickets') /\ ~PastTicket(paging.cursor, t)'
    BY <1>2, <1>4, <1>13, <1>15
  <2>3. \A who \in paging'.who : \A t \in 1..paging'.began : ensureTicketAccess(who, t)' =>
           \/ Seen(paging'.pages, t) \/ tickets'[t].updatedAt >= paging'.at
           \/ paging'.more /\ PastTicket(paging.cursor, t)'
    BY <1>2, <1>4, <1>14, <1>15, <1>16
  <2> QED BY <1>17, <2>1, <2>2, <2>3 DEF PagingOK
<1>19. CountersOK' /\ PreferencesOK' /\ DbHolds' /\ ReadingOK'
  <2>1. DbOK(DeliveryState) /\ Deliver(DeliveryState) /\ DeliveryState.notes = notes
    BY <1>1, <1>2, TheDb DEF Deliver, DeliveryState
  <2>2. notes \in Seq(Note)
    BY <1>1 DEF DbHolds
  <2> HIDE DEF DeliveryState
  <2>3. KeepsNotes(notes, DeliveryState.notes)
    BY <2>1, <2>2 DEF KeepsNotes
  <2> QED BY <1>2, <2>1, <2>3, OthersKeep
<1>20. TicketsOK'
  BY <1>1, <1>2 DEF TicketsOK
<1>21. NewsOK'
  BY <1>1, <1>2, SMTT(30) DEF NewsOK, ToldOf, Told
<1> QED BY <1>18, <1>19, <1>20, <1>21 DEF InboxInv

\* Nothing has happened yet.
LEMMA InboxStarts ==
  ASSUME NotificationAssumption, FeedbackAssumption, FeedbackInit
  PROVE  InboxInv
<1>1. /\ clock = 0 /\ notes = <<>> /\ audit = <<>> /\ emits = 0 /\ calls = 0
      /\ preferences = [r \in Recipients |-> [off |-> {}, caps |-> <<>>]]
      /\ dispatchState = [k \in Recipients \X Categories |-> {}]
      /\ sockets = [s \in Sockets |-> [open |-> FALSE, unread |-> {}]]
      /\ reading = NoReading /\ since = [r \in Recipients |-> 0]
      /\ tickets = <<>> /\ paging = NoPaging
  BY DEF FeedbackInit, NotificationInit
<1>2. Len(notes) = 0 /\ DOMAIN notes = {} /\ notes \in Seq(Note)
      /\ DOMAIN audit = {} /\ audit \in Seq(Suppressed)
      /\ Len(tickets) = 0 /\ DOMAIN tickets = {} /\ tickets \in Seq(Ticket)
  BY <1>1
<1>3. CountersOK
  BY <1>1 DEF CountersOK, NotificationAssumption
<1>4. PreferencesOK
  <2>1. \A r \in Recipients : preferences[r].off = {} /\ DOMAIN preferences[r].caps = {}
    BY <1>1
  <2> QED BY <1>1, <2>1 DEF PreferencesOK
<1>5. DbHolds
  <2>1. InTime(notes)
    BY <1>1, <1>2 DEF InTime
  <2>2. CountedOK(dispatchState, notes)
    BY <1>1 DEF CountedOK
  <2>3. Capped(dispatchState, notes)
    <3> SUFFICES ASSUME NEW r \in Recipients, NEW c \in DOMAIN CapsOf(r)
                 PROVE  LET w == CapsOf(r)[c].window
                        IN  /\ Recent(notes, r, c, w) \subseteq dispatchState[<<r, c>>]
                            /\ Cardinality(Recent(notes, r, c, w)) <= CapsOf(r)[c].max
      BY DEF Capped
    <3>1. Recent(notes, r, c, CapsOf(r)[c].window) = {}
      BY <1>1, <1>2 DEF Recent
    <3>2. CapsOf(r)[c].max \in Int /\ CapsOf(r)[c].max > 0
      BY <1>4, CapsAre DEF GoodCap, Cap
    <3>3. 0 <= CapsOf(r)[c].max
      BY <3>2
    <3> HIDE DEF Recent
    <3> QED BY <3>1, <3>3, FS_EmptySet
  <2>4. Tells(sockets, notes)
    BY <1>1 DEF Tells
  <2>5. /\ dispatchState \in [Recipients \X Categories -> SUBSET Nat]
        /\ sockets \in [Sockets -> SocketState]
    BY <1>1 DEF SocketState
  <2> QED BY <1>2, <2>1, <2>2, <2>3, <2>4, <2>5 DEF DbHolds
<1>6. ReadingOK
  <2>1. /\ reading.who = {} /\ reading.status = "ALL" /\ reading.cursor = 0
        /\ reading.pages = <<>> /\ reading.began = {}
    BY <1>1 DEF NoReading
  <2>2. reading \in Reading
    BY <1>1 DEF NoReading, Reading
  <2> QED BY <1>2, <2>1, <2>2 DEF ReadingOK, Disjoint, Seen
<1>7. TicketsOK
  BY <1>2 DEF TicketsOK
<1>8. PagingOK
  <2>1. /\ paging.who = {} /\ paging.pages = <<>> /\ paging.began = 0 /\ paging.at = 0
    BY <1>1 DEF NoPaging
  <2>2. paging \in Paging
    BY <1>1 DEF NoPaging, NoCursor, Paging
  <2> QED BY <1>1, <1>2, <2>1, <2>2 DEF PagingOK, Disjoint, Seen
<1>9. NewsOK
  <2>1. \A r, a : Told(r, a) = 0
    <3> SUFFICES ASSUME NEW r, NEW a PROVE Told(r, a) = 0
      OBVIOUS
    <3> DEFINE told == {i \in DOMAIN notes : notes[i].to = r /\ notes[i].about = a}
               logged == {i \in DOMAIN audit : audit[i].to = r /\ audit[i].about = a}
    <3>1. told = {} /\ logged = {}
      BY <1>2
    <3>2. Told(r, a) = Cardinality(told) + Cardinality(logged)
      BY DEF Told
    <3> HIDE DEF told, logged
    <3> QED BY <3>1, <3>2, FS_EmptySet
  <2> QED BY <1>2, <2>1 DEF NewsOK
<1> QED BY <1>3, <1>4, <1>5, <1>6, <1>7, <1>8, <1>9 DEF InboxInv

\* Every step of the notifications and the tickets.
LEMMA FeedbackStep ==
  ASSUME NotificationAssumption, FeedbackAssumption, InboxInv, [FeedbackNext]_fvars
  PROVE  InboxInv'
<1>1. ASSUME NEW u \in Users, PostTicket(u) PROVE InboxInv'
  BY <1>1, PostTicketKeeps
<1>2. ASSUME NEW t \in DOMAIN tickets, NEW to \in Statuses, PostTransition(t, to) PROVE InboxInv'
  <2>1. t \in 1..Len(tickets)
    BY DEF InboxInv, TicketsOK
  <2> QED BY <1>2, <2>1, PostTransitionKeeps
<1>3. ASSUME NEW requester \in {"STAFF"} \cup Users, GetTickets(requester) PROVE InboxInv'
  BY <1>3, GetTicketsKeeps
<1>4. ASSUME NotificationNext, UNCHANGED <<tickets, paging>> PROVE InboxInv'
  BY <1>4, NotificationStep
<1>5. ASSUME UNCHANGED fvars PROVE InboxInv'
  <2>1. /\ clock' = clock /\ preferences' = preferences /\ dispatchState' = dispatchState
        /\ notes' = notes /\ audit' = audit /\ sockets' = sockets /\ reading' = reading
        /\ since' = since /\ emits' = emits /\ calls' = calls
        /\ tickets' = tickets /\ paging' = paging
    BY <1>5 DEF fvars, nvars
  <2>2. /\ CountersOK /\ PreferencesOK /\ DbHolds /\ ReadingOK /\ TicketsOK /\ PagingOK /\ NewsOK
    BY DEF InboxInv
  <2>3. CountersOK' /\ PreferencesOK'
    BY <2>1, <2>2 DEF CountersOK, PreferencesOK
  <2>4. DbOK(DeliveryState) /\ Deliver(DeliveryState)
    BY <2>1, <2>2, TheDb DEF Deliver, DeliveryState
  <2>5. DbHolds'
    <3> HIDE DEF DeliveryState
    <3> QED BY <2>1, <2>4, DeliverKeeps
  <2>6. ReadingOK'
    BY <2>1, <2>2 DEF ReadingOK, listRowsForRecipient, Owned
  <2>7. TicketsOK'
    BY <2>1, <2>2 DEF TicketsOK
  <2>8. PagingOK'
    BY <2>1, <2>2 DEF PagingOK, PastTicket, NoCursor, ensureTicketAccess
  <2>9. NewsOK'
    <3>1. \A r, t, n : Told(r, About(t, n))' = Told(r, About(t, n))
      BY <2>1 DEF Told, About
    <3>2. \A t, n : ToldOf(t, n)' = ToldOf(t, n)
      BY <2>1 DEF ToldOf
    <3> QED BY <2>1, <2>2, <3>1, <3>2 DEF NewsOK
  <2> QED BY <2>3, <2>5, <2>6, <2>7, <2>8, <2>9 DEF InboxInv
<1> QED BY <1>1, <1>2, <1>3, <1>4, <1>5 DEF FeedbackNext

\* The invariant gives the properties.
LEMMA InboxInvGives ==
  ASSUME NotificationAssumption, FeedbackAssumption, InboxInv
  PROVE  InboxInvariant
<1>1. /\ CountersOK /\ PreferencesOK /\ DbHolds /\ ReadingOK /\ TicketsOK /\ PagingOK /\ NewsOK
      /\ clock \in Nat
  BY DEF InboxInv, CountersOK
<1>2. /\ notes \in Seq(Note) /\ Len(notes) \in Nat /\ DOMAIN notes = 1..Len(notes)
      /\ sockets \in [Sockets -> SocketState]
      /\ InTime(notes) /\ CountedOK(dispatchState, notes) /\ Capped(dispatchState, notes)
      /\ Tells(sockets, notes)
  BY <1>1 DEF DbHolds
<1>3. /\ tickets \in Seq(Ticket) /\ DOMAIN tickets = 1..Len(tickets) /\ Len(tickets) \in Nat
      /\ \A t \in 1..Len(tickets) : tickets[t] \in Ticket
  BY <1>1 DEF TicketsOK
<1>4. \A pages, i : i \in UNION Range(pages) <=> Seen(pages, i)
  BY DEF Range, Seen
<1>5. NotificationTypeOK
  <2>1. clock \in 0..MaxTime /\ emits \in 0..MaxEmits /\ calls \in 0..MaxCalls
    BY <1>1 DEF CountersOK
  <2>2. ASSUME NEW r \in Recipients
        PROVE  /\ preferences[r].off \subseteq Categories
               /\ DOMAIN preferences[r].caps \subseteq Categories
               /\ \A c \in DOMAIN preferences[r].caps :
                   preferences[r].caps[c].window > 0 /\ preferences[r].caps[c].max > 0
               /\ since[r] \in 0..Len(notes)
               /\ \A c \in Categories : dispatchState[<<r, c>>] \subseteq
                       {i \in DOMAIN notes : notes[i].to = r /\ notes[i].category = c}
    BY <1>1, <1>2 DEF PreferencesOK, GoodCap, InTime, CountedOK, SentTo
  <2>3. ASSUME NEW i \in DOMAIN notes
        PROVE  /\ notes[i].to \in Recipients /\ notes[i].category \in Categories
               /\ notes[i].createdAt \in 0..clock /\ notes[i].status \in {"UNREAD", "READ"}
    <3>1. notes[i] \in Note /\ notes[i].createdAt <= clock
      BY <1>2 DEF InTime
    <3> QED BY <1>1, <3>1 DEF Note
  <2>4. ASSUME NEW s \in Sockets PROVE sockets[s].unread \subseteq DOMAIN notes
    BY <1>2 DEF Tells, UnreadOf
  <2> QED BY <2>1, <2>2, <2>3, <2>4 DEF NotificationTypeOK
<1>6. FeedbackTypeOK
  <2>1. ASSUME NEW t \in DOMAIN tickets
        PROVE  /\ tickets[t].user \in Users /\ tickets[t].status \in Statuses
               /\ tickets[t].status = Last(tickets[t].timeline).to
               /\ tickets[t].updatedAt = Last(tickets[t].timeline).at
    BY <1>1, <1>3 DEF TicketsOK, Ticket, Last
  <2>2. UNION Range(paging.pages) \subseteq DOMAIN tickets
    <3>1. paging.pages \in Seq(SUBSET Nat)
      BY <1>1 DEF PagingOK, Paging
    <3>2. UNION Range(paging.pages) \subseteq Nat
      BY <3>1 DEF Range
    <3>3. \A t \in Nat : Seen(paging.pages, t) => t \in DOMAIN tickets
      BY <1>1, <1>3 DEF PagingOK
    <3> QED BY <1>4, <3>2, <3>3
  <2> QED BY <1>5, <2>1, <2>2 DEF FeedbackTypeOK
<1>7. CapHolds
  <2>1. \A r, c, w : InWindow(r, c, w) = Recent(notes, r, c, w)
    BY DEF InWindow, Recent
  <2>2. \A r \in Recipients : ExecutionResult \in DOMAIN CapsOf(r)
    BY <1>1, CapsAre
  <2> QED BY <1>2, <2>1, <2>2 DEF CapHolds, Capped, CapsOf
<1>8. SocketsKnowUnread
  BY <1>2 DEF SocketsKnowUnread, Tells, UnreadOf
<1>9. PagesComplete
  BY <1>1, <1>4 DEF PagesComplete, ReadingOK, Disjoint
<1>10. TicketNewsDelivered
  <2> SUFFICES ASSUME NEW t \in DOMAIN tickets, NEW n \in DOMAIN getTicket(tickets[t].user, t),
                      NEW r \in Recipients
               PROVE  Told(r, About(t, n)) = IF r \in ToldOf(t, n) THEN 1 ELSE 0
    BY DEF TicketNewsDelivered
  <2>1. t \in 1..Len(tickets) /\ t \in Nat /\ tickets[t].timeline \in Seq(Event)
    BY <1>3 DEF Ticket
  <2>2. n \in 1..Len(tickets[t].timeline) /\ n \in Nat
    <3>1. getTicket(tickets[t].user, t) = tickets[t].timeline
      BY DEF getTicket, ensureTicketAccess
    <3> QED BY <2>1, <3>1
  <2> QED BY <1>1, <2>1, <2>2 DEF NewsOK
<1>11. TicketPagesMissUpdatedOnly
  <2>1. ASSUME ~paging.more, NEW who \in paging.who, NEW t \in 1..paging.began,
               ensureTicketAccess(who, t)
        PROVE  t \in UNION Range(paging.pages) \/ tickets[t].updatedAt >= paging.at
    BY <1>1, <1>4, <2>1 DEF PagingOK
  <2> QED BY <1>1, <2>1 DEF TicketPagesMissUpdatedOnly, PagingOK, Disjoint
<1> QED BY <1>6, <1>7, <1>8, <1>9, <1>10, <1>11 DEF InboxInvariant

\* At every moment no window of a cap holds more deliveries than the cap allows, an open
\* socket tells exactly what is unread, the pages of an inbox repeat and miss nothing,
\* every event of a ticket is told or its suppression logged exactly once, and the pages
\* of tickets miss only what was updated meanwhile.
THEOREM InboxInvariantHolds == FeedbackSpec => []InboxInvariant
<1>1. FeedbackInit => InboxInv
  BY InboxStarts, NotificationAssumption, FeedbackAssumption
<1>2. InboxInv /\ [FeedbackNext]_fvars => InboxInv'
  BY FeedbackStep, NotificationAssumption, FeedbackAssumption
<1>3. InboxInv => InboxInvariant
  BY InboxInvGives, NotificationAssumption, FeedbackAssumption
<1> QED BY <1>1, <1>2, <1>3, PTL DEF FeedbackSpec
=============================================================================
