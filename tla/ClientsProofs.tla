---------------------------- MODULE ClientsProofs ----------------------------
(***************************************************************************)
(* What the agent runtime and the two apps keep right.                     *)
(*                                                                         *)
(* The agent runtime, for any requests, operators and bounds of a session  *)
(* (AgentIInv): only the head of a merchant's line runs, its task's question or *)
(* answer ends the conversation while the session is compacted, and the    *)
(* tasks of other turns keep what they said.                               *)
(*                                                                         *)
(* The merchant app, for any stores, views, logins and messages (OwnerIInv): no *)
(* login is under way in a session, so a session begins with nobody's data *)
(* on the screen, and the last write under way is of the session in use.   *)
(*                                                                         *)
(* The mini program, for any number of stores, calls, taps and starts:     *)
(* requests carry their own store's token, a home page knows whether it is *)
(* paying and pays once at a time (IInv), and a cancelled customer stays   *)
(* away (TInv, with the types it needs).                                   *)
(***************************************************************************)
EXTENDS AgentRuntime, MerchantApp, CustomerApp,
        FiniteSetTheorems, FunctionTheorems, SequenceTheorems, TLAPS

(***************************************************************************)
(* The agent runtime.                                                      *)
(***************************************************************************)

Session == [summary : Seq(Message), messages : Seq(Message)]
ConversationOf(s) == s.summary \o s.messages

(* What a task has said in a conversation c: its question is the last       *)
(* message; its answer is the last, next to the question, and is the only   *)
(* one; there is an answer next to a question; there is no answer.          *)
AskedLast(c, t) == c # <<>> /\ c[Len(c)] = <<t, "human">>
AnsweredLast(c, t) ==
    /\ Len(c) >= 2 /\ c[Len(c)] = <<t, "ai">> /\ c[Len(c) - 1] = <<t, "human">>
    /\ \A i \in 1..Len(c) - 1 : c[i] # <<t, "ai">>
Paired(c, t) == \E i \in 1..Len(c) - 1 : c[i] = <<t, "human">> /\ c[i + 1] = <<t, "ai">>
Unanswered(c, t) == \A i \in 1..Len(c) : c[i] # <<t, "ai">>
OwnedBy(c, ts) == \A i \in 1..Len(c) : c[i][1] \in ts

(* The line holds requests that wait or run, each once; only its head runs. *)
LineKept ==
    /\ \A i \in 1..Len(line) : pc[line[i]] \in {"waiting"} \cup Running
    /\ \A i, j \in 1..Len(line) : line[i] = line[j] => i = j
    /\ \A r \in Request : pc[r] \in Running => r \in Task /\ HoldsLock(r)
    /\ \A o \in Op : pc[o] # "new" => wants[o] \in Wish

(* A session is compacted when it is one message too long.                  *)
Memory ==
    /\ MemoryComplete
    /\ \A t \in Task : pc[t] \in Compacting => Len(agentSession.messages) = MAX_SESSION_MESSAGES + 1

(* A task is running while its stream does.                                 *)
Statuses ==
    /\ TasksSeenFinished
    /\ \A t \in Task :
        /\ status[t] # "pending"
        /\ pc[t] \in {"new", "waiting"} => aiText[t] = "none" /\ t \notin tasks
        /\ pc[t] \in Running => status[t] = "running" /\ (attached => t \in tasks)
        /\ t \in tasks /\ status[t] = "running" => pc[t] \in Running

Settled(st, c, t) == (st = "success" => Paired(c, t)) /\ (st = "error" => Unanswered(c, t))

Speaking(place, ai, c, t) ==
    /\ place = "compactHuman" => ai = "none"
    /\ place = "compactAi" => ai # "none"
    /\ place \in {"compactHuman", "turn"} /\ ai = "none" => AskedLast(c, t) /\ Unanswered(c, t)
    /\ place = "turn" /\ ai # "none" => Paired(c, t)
    /\ place \in {"compactAi", "compactFinal"} => AnsweredLast(c, t)

(* The messages of an attached session are its tasks'.                      *)
Turns ==
    /\ ~attached => tasks = {}
    /\ attached => OwnedBy(Conversation, tasks)
    /\ \A t \in tasks :
        IF pc[t] \in Running
        THEN Speaking(pc[t], aiText[t], Conversation, t)
        ELSE Settled(status[t], Conversation, t)

AgentIInv == AgentTypeOK /\ LineKept /\ Memory /\ Statuses /\ Turns

------------------------------------------------------------------------------
(* Conversations.                                                          *)

LEMMA Appended ==
    ASSUME NEW c \in Seq(Message), NEW m \in Message
    PROVE  /\ Append(c, m) \in Seq(Message) /\ Append(c, m) # <<>>
           /\ Len(c) \in Nat /\ Len(Append(c, m)) = Len(c) + 1
           /\ Append(c, m)[Len(c) + 1] = m
           /\ \A i \in 1..Len(c) : Append(c, m)[i] = c[i]
BY AppendProperties, LenProperties

Shortened(c) == SubSeq(c, 1, Len(c) - 1)

LEMMA ShortenedIs ==
    ASSUME NEW c \in Seq(Message), c # <<>>
    PROVE  /\ Shortened(c) \in Seq(Message) /\ Len(c) \in Nat \ {0}
           /\ Len(Shortened(c)) = Len(c) - 1
           /\ \A i \in 1..Len(c) - 1 : Shortened(c)[i] = c[i]
<1>1. Len(c) \in Nat \ {0} BY EmptySeq
<1>2. 1 \in Int /\ Len(c) - 1 \in Int BY <1>1
<1>3. \A i \in 1..Len(c) - 1 : c[i] \in Message
  <2> TAKE i \in 1..Len(c) - 1
  <2>1. i \in 1..Len(c) BY <1>1
  <2> QED BY <2>1, ElementOfSeq
<1>4. /\ SubSeq(c, 1, Len(c) - 1) \in Seq(Message)
      /\ Len(SubSeq(c, 1, Len(c) - 1)) = IF 1 <= Len(c) - 1 THEN (Len(c) - 1) - 1 + 1 ELSE 0
      /\ \A i \in 1..(Len(c) - 1) - 1 + 1 : SubSeq(c, 1, Len(c) - 1)[i] = c[1 + i - 1]
  BY <1>2, <1>3, SubSeqProperties
<1>5. Len(Shortened(c)) = Len(c) - 1
  <2> DEFINE n == Len(c)
  <2>1. n \in Nat \ {0} BY <1>1
  <2> HIDE DEF n
  <2>2. (IF 1 <= n - 1 THEN (n - 1) - 1 + 1 ELSE 0) = n - 1 BY <2>1
  <2> QED BY <1>4, <2>2 DEF Shortened, n
<1>6. \A i \in 1..Len(c) - 1 : Shortened(c)[i] = c[i]
  <2> TAKE i \in 1..Len(c) - 1
  <2>1. i \in 1..(Len(c) - 1) - 1 + 1 /\ 1 + i - 1 = i BY <1>1
  <2> QED BY <1>4, <2>1 DEF Shortened
<1> QED BY <1>1, <1>4, <1>5, <1>6 DEF Shortened

LEMMA MessagesAre ==
    ASSUME NEW t \in Task
    PROVE  /\ <<t, "human">> \in Message /\ <<t, "ai">> \in Message
           /\ <<t, "human">>[1] = t /\ <<t, "ai">>[1] = t
           /\ <<t, "human">> # <<t, "ai">>
           /\ \A u : u # t => <<u, "ai">> # <<t, "human">> /\ <<u, "ai">> # <<t, "ai">>
BY DEF Message

(* The question, then the answer.                                          *)
LEMMA Asks ==
    ASSUME NEW c \in Seq(Message), NEW t \in Task, Unanswered(c, t)
    PROVE  /\ AskedLast(Append(c, <<t, "human">>), t)
           /\ Unanswered(Append(c, <<t, "human">>), t)
<1> DEFINE d == Append(c, <<t, "human">>)
<1>1. /\ d # <<>> /\ Len(c) \in Nat /\ Len(d) = Len(c) + 1 /\ d[Len(c) + 1] = <<t, "human">>
      /\ \A i \in 1..Len(c) : d[i] = c[i]
  BY Appended, MessagesAre
<1> HIDE DEF d
<1>2. AskedLast(d, t) BY <1>1 DEF AskedLast
<1>3. Unanswered(d, t)
  <2> SUFFICES ASSUME NEW i \in 1..Len(d) PROVE d[i] # <<t, "ai">> BY DEF Unanswered
  <2>1. CASE i = Len(c) + 1 BY <1>1, <2>1, MessagesAre
  <2>2. CASE i # Len(c) + 1
    <3>1. i \in 1..Len(c) BY <1>1, <2>2
    <3> QED BY <1>1, <3>1 DEF Unanswered
  <2> QED BY <2>1, <2>2
<1> QED BY <1>2, <1>3 DEF d

LEMMA Replies ==
    ASSUME NEW c \in Seq(Message), NEW t \in Task, AskedLast(c, t), Unanswered(c, t)
    PROVE  AnsweredLast(Append(c, <<t, "ai">>), t)
<1> DEFINE d == Append(c, <<t, "ai">>)
<1>1. /\ Len(c) \in Nat /\ Len(d) = Len(c) + 1 /\ d[Len(c) + 1] = <<t, "ai">>
      /\ \A i \in 1..Len(c) : d[i] = c[i]
  BY Appended, MessagesAre
<1>2. c # <<>> /\ Len(c) \in Nat \ {0} /\ c[Len(c)] = <<t, "human">> BY EmptySeq DEF AskedLast
<1> HIDE DEF d
<1>3. Len(d) >= 2 /\ Len(d) - 1 = Len(c) /\ Len(c) \in 1..Len(c) BY <1>1, <1>2
<1>4. d[Len(d)] = <<t, "ai">> /\ d[Len(d) - 1] = <<t, "human">> BY <1>1, <1>2, <1>3
<1>5. \A i \in 1..Len(d) - 1 : d[i] # <<t, "ai">> BY <1>1, <1>3 DEF Unanswered
<1> QED BY <1>3, <1>4, <1>5 DEF AnsweredLast, d

LEMMA ReplyPairs ==
    ASSUME NEW c \in Seq(Message), NEW t \in Task, AnsweredLast(c, t)
    PROVE  Paired(c, t) /\ Unanswered(Shortened(c), t) /\ c # <<>> /\ c[Len(c)] = <<t, "ai">>
<1>1. /\ Len(c) >= 2 /\ c[Len(c)] = <<t, "ai">> /\ c[Len(c) - 1] = <<t, "human">>
      /\ \A i \in 1..Len(c) - 1 : c[i] # <<t, "ai">>
  BY DEF AnsweredLast
<1>2. Len(c) \in Nat /\ c # <<>>
  <2>1. Len(c) \in Nat BY LenProperties
  <2> QED BY <1>1, <2>1, EmptySeq
<1>3. Len(c) - 1 \in 1..Len(c) - 1 /\ (Len(c) - 1) + 1 = Len(c) BY <1>1, <1>2
<1>4. Paired(c, t) BY <1>1, <1>3 DEF Paired
<1>5. /\ Len(Shortened(c)) = Len(c) - 1 /\ \A i \in 1..Len(c) - 1 : Shortened(c)[i] = c[i]
  BY <1>2, ShortenedIs
<1>6. Unanswered(Shortened(c), t) BY <1>1, <1>5 DEF Unanswered
<1> QED BY <1>1, <1>2, <1>4, <1>6

LEMMA ShortenedUnanswered ==
    ASSUME NEW c \in Seq(Message), c # <<>>, NEW t, Unanswered(c, t)
    PROVE  Unanswered(Shortened(c), t)
<1>1. /\ Len(c) \in Nat \ {0} /\ Len(Shortened(c)) = Len(c) - 1
      /\ \A i \in 1..Len(c) - 1 : Shortened(c)[i] = c[i]
  BY ShortenedIs
<1>2. \A i \in 1..Len(c) - 1 : i \in 1..Len(c) BY <1>1
<1> QED BY <1>1, <1>2 DEF Unanswered

(* What another task says, or takes back, leaves a settled task settled.   *)
LEMMA OthersGrow ==
    ASSUME NEW c \in Seq(Message), NEW t \in Task, NEW m \in Message, m[1] = t,
           NEW u \in Task, u # t, NEW st, Settled(st, c, u)
    PROVE  Settled(st, Append(c, m), u)
<1> DEFINE d == Append(c, m)
<1>1. /\ Len(c) \in Nat /\ Len(d) = Len(c) + 1 /\ d[Len(c) + 1] = m
      /\ \A i \in 1..Len(c) : d[i] = c[i]
  BY Appended
<1>2. m # <<u, "ai">> OBVIOUS
<1> HIDE DEF d
<1>3. ASSUME Paired(c, u) PROVE Paired(d, u)
  <2>1. PICK i \in 1..Len(c) - 1 : c[i] = <<u, "human">> /\ c[i + 1] = <<u, "ai">>
    BY <1>3 DEF Paired
  <2>2. i \in 1..Len(c) /\ i + 1 \in 1..Len(c) /\ i \in 1..Len(d) - 1 BY <1>1
  <2> QED BY <1>1, <2>1, <2>2 DEF Paired
<1>4. ASSUME Unanswered(c, u) PROVE Unanswered(d, u)
  <2> SUFFICES ASSUME NEW i \in 1..Len(d) PROVE d[i] # <<u, "ai">> BY DEF Unanswered
  <2>1. i = Len(c) + 1 \/ i \in 1..Len(c) BY <1>1
  <2> QED BY <1>1, <1>2, <1>4, <2>1 DEF Unanswered
<1> QED BY <1>3, <1>4 DEF Settled, d

LEMMA OthersShrink ==
    ASSUME NEW c \in Seq(Message), c # <<>>, NEW t \in Task, c[Len(c)][1] = t,
           NEW u \in Task, u # t, NEW st, Settled(st, c, u)
    PROVE  Settled(st, Shortened(c), u)
<1>1. /\ Len(c) \in Nat \ {0} /\ Len(Shortened(c)) = Len(c) - 1
      /\ \A i \in 1..Len(c) - 1 : Shortened(c)[i] = c[i]
  BY ShortenedIs
<1>2. c[Len(c)] # <<u, "ai">> OBVIOUS
<1>3. ASSUME Paired(c, u) PROVE Paired(Shortened(c), u)
  <2>1. PICK i \in 1..Len(c) - 1 : c[i] = <<u, "human">> /\ c[i + 1] = <<u, "ai">>
    BY <1>3 DEF Paired
  <2>2. i + 1 # Len(c) BY <1>2, <2>1
  <2>3. i \in 1..(Len(c) - 1) - 1 /\ i + 1 \in 1..Len(c) - 1 BY <1>1, <2>2
  <2> QED BY <1>1, <2>1, <2>3 DEF Paired
<1> QED BY <1>3, ShortenedUnanswered DEF Settled

LEMMA OwnedGrows ==
    ASSUME NEW c \in Seq(Message), NEW m \in Message, NEW ts, OwnedBy(c, ts), m[1] \in ts
    PROVE  OwnedBy(Append(c, m), ts)
<1> DEFINE d == Append(c, m)
<1>1. /\ Len(c) \in Nat /\ Len(d) = Len(c) + 1 /\ d[Len(c) + 1] = m
      /\ \A i \in 1..Len(c) : d[i] = c[i]
  BY Appended
<1> HIDE DEF d
<1>2. \A i \in 1..Len(d) : i = Len(c) + 1 \/ i \in 1..Len(c) BY <1>1
<1> QED BY <1>1, <1>2 DEF OwnedBy, d

LEMMA OwnedShrinks ==
    ASSUME NEW c \in Seq(Message), c # <<>>, NEW ts, OwnedBy(c, ts)
    PROVE  OwnedBy(Shortened(c), ts)
<1>1. /\ Len(c) \in Nat \ {0} /\ Len(Shortened(c)) = Len(c) - 1
      /\ \A i \in 1..Len(c) - 1 : Shortened(c)[i] = c[i]
  BY ShortenedIs
<1>2. \A i \in 1..Len(c) - 1 : i \in 1..Len(c) BY <1>1
<1> QED BY <1>1, <1>2 DEF OwnedBy

(* Messages of a task that has none yet.                                   *)
LEMMA NotOwned ==
    ASSUME NEW c, NEW ts, OwnedBy(c, ts), NEW t, t \notin ts
    PROVE  Unanswered(c, t)
BY DEF OwnedBy, Unanswered

------------------------------------------------------------------------------
(* Sessions.                                                               *)

LEMMA Associative ==
    ASSUME NEW a \in Seq(Message), NEW b \in Seq(Message), NEW d \in Seq(Message)
    PROVE  (a \o b) \o d = a \o (b \o d)
BY ConcatAssociative

LEMMA AppendLast ==
    ASSUME NEW a \in Seq(Message), NEW b \in Seq(Message), NEW m \in Message
    PROVE  a \o Append(b, m) = Append(a \o b, m)
<1>1. <<m>> \in Seq(Message) OBVIOUS
<1>2. Append(b, m) = b \o <<m>> BY AppendIsConcat
<1>3. a \o b \in Seq(Message) BY ConcatProperties
<1>4. Append(a \o b, m) = (a \o b) \o <<m>> BY <1>3, AppendIsConcat
<1> QED BY <1>1, <1>2, <1>4, Associative

LEMMA Pushed ==
    ASSUME NEW s \in Session, NEW m \in Message
    PROVE  /\ Push(s, m) \in Session
           /\ ConversationOf(Push(s, m)) = Append(ConversationOf(s), m)
           /\ Len(s.messages) \in Nat /\ Len(Push(s, m).messages) = Len(s.messages) + 1
           /\ Push(s, m).messages[Len(Push(s, m).messages)] = m
<1> DEFINE q == Append(s.messages, m)
<1>1. s.summary \in Seq(Message) /\ s.messages \in Seq(Message) BY DEF Session
<1>2. /\ q \in Seq(Message) /\ Len(s.messages) \in Nat /\ Len(q) = Len(s.messages) + 1
      /\ q[Len(s.messages) + 1] = m
  BY <1>1, Appended
<1>3. Push(s, m) = [s EXCEPT !.messages = q] BY DEF Push
<1> HIDE DEF q
<1>4. Push(s, m) \in Session /\ Push(s, m).summary = s.summary /\ Push(s, m).messages = q
  BY <1>2, <1>3 DEF Session
<1>5. s.summary \o q = Append(s.summary \o s.messages, m) BY <1>1, AppendLast DEF q
<1> QED BY <1>2, <1>4, <1>5 DEF ConversationOf

LEMMA Compacts ==
    ASSUME NEW s \in Session, Len(s.messages) = MAX_SESSION_MESSAGES + 1
    PROVE  /\ compactSessionMemory(s) \in Session
           /\ ConversationOf(compactSessionMemory(s)) = ConversationOf(s)
           /\ Len(compactSessionMemory(s).messages) <= MAX_SESSION_MESSAGES
<1> DEFINE n == Len(s.messages)
           k == n - KEEP_SESSION_MESSAGES
           old == SubSeq(s.messages, 1, k)
           kept == SubSeq(s.messages, k + 1, n)
<1>1. /\ s.summary \in Seq(Message) /\ s.messages \in Seq(Message)
      /\ compactSessionMemory(s) = [summary |-> s.summary \o old, messages |-> kept]
  BY DEF Session, compactSessionMemory
<1>2. /\ n \in Nat /\ KEEP_SESSION_MESSAGES \in Nat /\ MAX_SESSION_MESSAGES \in Nat
      /\ 1 <= KEEP_SESSION_MESSAGES /\ KEEP_SESSION_MESSAGES <= MAX_SESSION_MESSAGES
      /\ n = MAX_SESSION_MESSAGES + 1
  BY AgentAssumption
<1> HIDE DEF n
<1>3. k \in 1..n /\ k \in Int /\ k + 1 \in Int /\ n - (k + 1) + 1 = KEEP_SESSION_MESSAGES
      /\ k + 1 <= n /\ 1 \in Int /\ n \in Int /\ 1 \in 1..n + 1 /\ k \in 1 - 1..n /\ n \in k..n
  BY <1>2
<1>4. \A i \in 1..n : s.messages[i] \in Message BY <1>1, ElementOfSeq DEF n
<1> HIDE DEF k
<1>5. old \in Seq(Message)
  <2>1. \A i \in 1..k : s.messages[i] \in Message BY <1>3, <1>4
  <2> QED BY <1>3, <2>1, SubSeqProperties
<1>6. kept \in Seq(Message) /\ Len(kept) = KEEP_SESSION_MESSAGES
  <2>1. \A i \in k + 1..n : s.messages[i] \in Message BY <1>3, <1>4
  <2>2. kept \in Seq(Message) /\ Len(kept) = IF k + 1 <= n THEN n - (k + 1) + 1 ELSE 0
    BY <1>3, <2>1, SubSeqProperties
  <2> QED BY <1>3, <2>2
<1>7. old \o kept = s.messages
  <2>1. old \o kept = SubSeq(s.messages, 1, n) BY <1>1, <1>3, ConcatAdjacentSubSeq DEF n
  <2> QED BY <1>1, <2>1, SubSeqFull DEF n
<1>8. s.summary \o old \in Seq(Message) BY <1>1, <1>5, ConcatProperties
<1>9. (s.summary \o old) \o kept = s.summary \o (old \o kept)
  <2>1. s.summary \in Seq(Message) /\ old \in Seq(Message) /\ kept \in Seq(Message)
    BY <1>1, <1>5, <1>6
  <2> HIDE DEF old, kept
  <2> QED BY <2>1, Associative
<1> HIDE DEF old, kept
<1>10. /\ compactSessionMemory(s).summary = s.summary \o old
       /\ compactSessionMemory(s).messages = kept
  BY <1>1
<1>11. compactSessionMemory(s) \in Session BY <1>1, <1>6, <1>8 DEF Session
<1> QED BY <1>2, <1>6, <1>7, <1>9, <1>10, <1>11 DEF ConversationOf

LEMMA RollsBack ==
    ASSUME NEW s \in Session, Len(s.messages) = MAX_SESSION_MESSAGES + 1
    PROVE  /\ RolledBack(s) \in Session /\ ConversationOf(s) \in Seq(Message)
           /\ ConversationOf(s) # <<>>
           /\ ConversationOf(RolledBack(s)) = Shortened(ConversationOf(s))
           /\ ConversationOf(s)[Len(ConversationOf(s))] = s.messages[Len(s.messages)]
           /\ Len(RolledBack(s).messages) = MAX_SESSION_MESSAGES
<1> DEFINE a == s.summary
           b == s.messages
           r == Shortened(b)
           c == a \o b
           d == a \o r
<1>1. a \in Seq(Message) /\ b \in Seq(Message) BY DEF Session
<1>2. RolledBack(s) = [s EXCEPT !.messages = r] BY DEF RolledBack, Shortened
<1> DEFINE la == Len(a)
           lb == Len(b)
<1>3. MAX_SESSION_MESSAGES \in Nat /\ lb = MAX_SESSION_MESSAGES + 1 /\ la \in Nat
  BY <1>1, AgentAssumption, LenProperties
<1> HIDE DEF lb, la
<1>4. lb \in Nat /\ lb # 0 /\ lb - 1 = MAX_SESSION_MESSAGES BY <1>3
<1>5. b # <<>> BY <1>4, EmptySeq DEF lb
<1> HIDE DEF a, b
<1>6. r \in Seq(Message) /\ Len(r) = lb - 1 /\ \A i \in 1..lb - 1 : r[i] = b[i]
  BY <1>1, <1>5, ShortenedIs DEF lb
<1>7. RolledBack(s) \in Session /\ RolledBack(s).summary = a /\ RolledBack(s).messages = r
  <2> HIDE DEF r
  <2> QED BY <1>2, <1>6 DEF Session, a
<1>8. /\ c \in Seq(Message) /\ Len(c) = la + lb
      /\ \A i \in 1..la + lb : c[i] = IF i <= la THEN a[i] ELSE b[i - la]
  BY <1>1, ConcatProperties DEF la, lb
<1> HIDE DEF r
<1>9. /\ d \in Seq(Message) /\ Len(d) = la + Len(r)
      /\ \A i \in 1..la + Len(r) : d[i] = IF i <= la THEN a[i] ELSE r[i - la]
  BY <1>1, <1>6, ConcatProperties DEF la
<1>10. la + lb \in Nat /\ la + lb # 0 BY <1>3, <1>4
<1>11. c # <<>>
  <2> HIDE DEF c
  <2> QED BY <1>8, <1>10, EmptySeq
<1> HIDE DEF c, d
<1>12. /\ Shortened(c) \in Seq(Message) /\ Len(Shortened(c)) = (la + lb) - 1
       /\ \A i \in 1..(la + lb) - 1 : Shortened(c)[i] = c[i]
  BY <1>8, <1>11, ShortenedIs
<1>13. d = Shortened(c)
  <2>1. la + (lb - 1) = (la + lb) - 1 BY <1>3, <1>4
  <2>2. ASSUME NEW i \in 1..(la + lb) - 1 PROVE d[i] = Shortened(c)[i]
    <3>1. /\ i \in 1..la + lb /\ i \in 1..la + (lb - 1)
          /\ i <= la \/ i - la \in 1..lb - 1
      BY <1>3, <1>4
    <3>2. Shortened(c)[i] = c[i] BY <1>12
    <3>3. CASE i <= la BY <1>6, <1>8, <1>9, <3>1, <3>2, <3>3
    <3>4. CASE ~(i <= la)
      <4>1. c[i] = b[i - la] /\ d[i] = r[i - la] BY <1>6, <1>8, <1>9, <3>1, <3>4
      <4> QED BY <1>6, <3>1, <3>2, <3>4, <4>1
    <3> QED BY <3>3, <3>4
  <2> QED BY <1>6, <1>9, <1>12, <2>1, <2>2, SeqEqual
<1>14. c[la + lb] = b[lb]
  <2>1. la + lb \in 1..la + lb /\ ~(la + lb <= la) /\ (la + lb) - la = lb
    BY <1>3, <1>4
  <2> QED BY <1>8, <2>1
<1>15. ConversationOf(s) = c BY DEF ConversationOf, a, b, c
<1>16. ConversationOf(RolledBack(s)) = d BY <1>7 DEF ConversationOf, d
<1>17. s.messages[Len(s.messages)] = b[lb] BY DEF b, lb
<1> QED BY <1>4, <1>6, <1>7, <1>8, <1>11, <1>13, <1>14, <1>15, <1>16, <1>17

------------------------------------------------------------------------------
(* The line.                                                               *)

(* At most the head of the line runs.                                      *)
LEMMA OneRuns ==
    ASSUME LineKept, NEW r \in Request, HoldsLock(r)
    PROVE  \A q \in Request : q # r => pc[q] \notin Running
BY DEF LineKept, HoldsLock

LEMMA NobodyRuns ==
    ASSUME LineKept, NEW r \in Request, HoldsLock(r), pc[r] = "waiting"
    PROVE  /\ \A q \in Request : pc[q] \notin Running
           /\ \A t \in Task : pc[t] \notin Compacting
<1>1. "waiting" \notin Running BY DEF Running
<1>2. \A q \in Request : pc[q] \notin Running BY <1>1, OneRuns
<1>3. Compacting \subseteq Running /\ Task \subseteq Request BY DEF Compacting, Running, Request
<1> QED BY <1>2, <1>3

Places == {"new", "waiting", "answered", "refused", "lost"} \cup Running
Ends == {"answered", "refused"}

LEMMA Leaves ==
    ASSUME LineKept, line \in Seq(Request), pc \in [Request -> Places],
           NEW r \in Request, HoldsLock(r), NEW outcome \in Ends, Leave(r, outcome),
           pc[r] # "new", wants' = wants
    PROVE  /\ line' \in Seq(Request) /\ pc' \in [Request -> Places] /\ LineKept'
           /\ pc'[r] = outcome /\ \A q \in Request : q # r => pc'[q] = pc[q]
           /\ \A q \in Request : pc'[q] \notin Running
<1>1. /\ pc' = [pc EXCEPT ![r] = outcome] /\ line' = Tail(line)
      /\ line # <<>> /\ Head(line) = r
  BY DEF Leave, HoldsLock
<1>2. /\ outcome \in Places /\ outcome \notin Running /\ outcome # "new"
      /\ \A o \in Op : o \in Request
  BY DEF Ends, Places, Running, Request
<1>3. /\ line' \in Seq(Request) /\ Len(line') = Len(line) - 1
      /\ \A i \in 1..Len(line') : line'[i] = line[i + 1]
  BY <1>1, HeadTailProperties
<1>4. /\ Len(line) \in Nat \ {0} /\ Head(line) = line[1]
      /\ \A i \in 1..Len(line) : line[i] \in Request
  BY <1>1, EmptySeq, ElementOfSeq
<1>5. \A i \in 1..Len(line') : i + 1 \in 1..Len(line) /\ i + 1 # 1 BY <1>3, <1>4
<1>6. 1 \in 1..Len(line) BY <1>4
<1>7. /\ pc' \in [Request -> Places] /\ pc'[r] = outcome
      /\ \A q \in Request : q # r => pc'[q] = pc[q]
  BY <1>1, <1>2
<1>8. \A q \in Request : pc'[q] \notin Running BY <1>2, <1>7, OneRuns
<1>9. /\ \A i \in 1..Len(line) : pc[line[i]] \in {"waiting"} \cup Running
      /\ \A i, j \in 1..Len(line) : line[i] = line[j] => i = j
      /\ \A o \in Op : pc[o] # "new" => wants[o] \in Wish
  BY DEF LineKept
<1>10. \A i \in 1..Len(line') : pc'[line'[i]] \in {"waiting"} \cup Running
  <2> TAKE i \in 1..Len(line')
  <2>1. line'[i] = line[i + 1] /\ line[i + 1] # line[1] /\ line[i + 1] \in Request
    BY <1>3, <1>4, <1>5, <1>6, <1>9
  <2>2. pc'[line'[i]] = pc[line[i + 1]] BY <1>1, <1>4, <1>7, <2>1
  <2> QED BY <1>5, <1>9, <2>2
<1>11. \A i, j \in 1..Len(line') : line'[i] = line'[j] => i = j
  <2> TAKE i, j \in 1..Len(line')
  <2> HAVE line'[i] = line'[j]
  <2>1. i + 1 = j + 1 BY <1>3, <1>5, <1>9
  <2>2. i \in Int /\ j \in Int BY <1>3, <1>4
  <2> QED BY <2>1, <2>2
<1>12. \A o \in Op : pc'[o] # "new" => wants'[o] \in Wish BY <1>2, <1>7, <1>9
<1>13. LineKept' BY <1>8, <1>10, <1>11, <1>12 DEF LineKept
<1> QED BY <1>3, <1>7, <1>8, <1>13

LEMMA GoesOn ==
    ASSUME LineKept, line \in Seq(Request), pc \in [Request -> Places],
           NEW r \in Task, HoldsLock(r), NEW place \in Running, GoOn(r, place), wants' = wants
    PROVE  /\ line' = line /\ pc' \in [Request -> Places] /\ LineKept'
           /\ pc'[r] = place /\ \A q \in Request : q # r => pc'[q] = pc[q]
           /\ \A q \in Request : q # r => pc'[q] \notin Running
<1>1. pc' = [pc EXCEPT ![r] = place] /\ line' = line BY DEF GoOn
<1>2. place \in Places /\ r \in Request /\ \A o \in Op : o \in Request /\ o # r
  BY AgentAssumption DEF Places, Request
<1>3. /\ pc' \in [Request -> Places] /\ pc'[r] = place
      /\ \A q \in Request : q # r => pc'[q] = pc[q]
  BY <1>1, <1>2
<1>4. \A q \in Request : q # r => pc'[q] \notin Running BY <1>2, <1>3, OneRuns
<1>5. HoldsLock(r)' BY <1>1 DEF HoldsLock
<1>6. \A q \in Request : pc'[q] \in Running => q \in Task /\ HoldsLock(q)' BY <1>4, <1>5
<1>7. \A i \in 1..Len(line) : line[i] \in Request BY ElementOfSeq
<1>8. \A i \in 1..Len(line) : pc'[line[i]] \in {"waiting"} \cup Running
  BY <1>3, <1>7 DEF LineKept
<1>9. LineKept' BY <1>1, <1>2, <1>3, <1>6, <1>8 DEF LineKept
<1> QED BY <1>1, <1>3, <1>4, <1>9

------------------------------------------------------------------------------
(* What is known of a step's holder.                                       *)

LEMMA Opened ==
    ASSUME AgentIInv, NEW r \in Request, HoldsLock(r), pc[r] = "waiting"
    PROVE  /\ \A q \in Request : pc[q] \notin Running
           /\ OpenSession \in Session /\ SaidInSession \in Seq(Message)
           /\ ConversationOf(OpenSession) = SaidInSession
           /\ Len(OpenSession.messages) <= MAX_SESSION_MESSAGES
           /\ OwnedBy(SaidInSession, tasks)
           /\ \A u \in tasks : Settled(status[u], SaidInSession, u)
<1> USE DEF AgentIInv
<1>1. /\ \A q \in Request : pc[q] \notin Running
      /\ \A t \in Task : pc[t] \notin Compacting
  BY NobodyRuns
<1>2. /\ agentSession \in Session /\ said \in Seq(Message) /\ tasks \subseteq Task
      /\ Task \subseteq Request
  BY DEF AgentTypeOK, Session, Request
<1>3. ConversationOf(agentSession) = said /\ Len(agentSession.messages) <= MAX_SESSION_MESSAGES
  BY <1>1 DEF Memory, MemoryComplete, Conversation, ConversationOf
<1>4. CASE attached
  <2>1. OpenSession = agentSession /\ SaidInSession = said BY <1>4 DEF OpenSession, SaidInSession
  <2>2. OwnedBy(said, tasks) BY <1>3, <1>4 DEF Turns, Conversation, ConversationOf
  <2>3. \A u \in tasks : Settled(status[u], said, u)
    BY <1>1, <1>2, <1>3 DEF Turns, Conversation, ConversationOf
  <2> QED BY <1>1, <1>2, <1>3, <2>1, <2>2, <2>3
<1>5. CASE ~attached
  <2>1. OpenSession = NewSession /\ SaidInSession = <<>> /\ tasks = {}
    BY <1>5 DEF OpenSession, SaidInSession, Turns
  <2>2. NewSession.summary = <<>> /\ NewSession.messages = <<>> BY DEF NewSession
  <2>3. <<>> \in Seq(Message) /\ Len(<<>>) = 0 BY EmptySeq
  <2>4. NewSession \in Session BY <2>3 DEF NewSession, Session
  <2>5. ConversationOf(NewSession) = <<>> BY <2>2, <2>3, ConcatEmptySeq DEF ConversationOf
  <2>6. 0 <= MAX_SESSION_MESSAGES BY AgentAssumption
  <2>7. OwnedBy(<<>>, {}) BY <2>3 DEF OwnedBy
  <2> QED BY <1>1, <2>1, <2>2, <2>3, <2>4, <2>5, <2>6, <2>7
<1> QED BY <1>4, <1>5

LEMMA Runs ==
    ASSUME AgentIInv, NEW t \in Task, pc[t] \in Running
    PROVE  /\ t \in Request /\ HoldsLock(t) /\ status[t] = "running"
           /\ attached => t \in tasks
           /\ \A q \in Request : q # t => pc[q] \notin Running
           /\ agentSession \in Session /\ said \in Seq(Message)
           /\ attached => OwnedBy(ConversationOf(agentSession), tasks)
           /\ ~attached => tasks = {}
           /\ \A u \in tasks : u # t => Settled(status[u], ConversationOf(agentSession), u)
           /\ t \in tasks => Speaking(pc[t], aiText[t], ConversationOf(agentSession), t)
<1> USE DEF AgentIInv
<1>1. t \in Request /\ Task \subseteq Request BY DEF Request
<1>2. HoldsLock(t) BY <1>1 DEF LineKept
<1>3. \A q \in Request : q # t => pc[q] \notin Running BY <1>1, <1>2, OneRuns
<1>4. status[t] = "running" /\ (attached => t \in tasks) BY DEF Statuses
<1>5. agentSession \in Session /\ said \in Seq(Message) /\ tasks \subseteq Task
  BY DEF AgentTypeOK, Session
<1>6. /\ attached => OwnedBy(ConversationOf(agentSession), tasks)
      /\ ~attached => tasks = {}
      /\ \A u \in tasks : u # t => Settled(status[u], ConversationOf(agentSession), u)
      /\ t \in tasks => Speaking(pc[t], aiText[t], ConversationOf(agentSession), t)
  BY <1>1, <1>3, <1>5 DEF Turns, Conversation, ConversationOf
<1> QED BY <1>1, <1>2, <1>3, <1>4, <1>5, <1>6

(* The memory of a holder that goes on, and of one that compacts.          *)
LEMMA OnTurn ==
    ASSUME AgentIInv, NEW t \in Task, pc[t] = "turn"
    PROVE  /\ ConversationOf(agentSession) = said
           /\ Len(agentSession.messages) <= MAX_SESSION_MESSAGES
<1>1. "turn" \in Running /\ "turn" \notin Compacting /\ Compacting \subseteq Running
      /\ Task \subseteq Request
  BY DEF Running, Compacting, Request
<1>2. \A u \in Task : pc[u] \notin Compacting BY <1>1, Runs
<1> QED BY <1>2 DEF AgentIInv, Memory, MemoryComplete, Conversation, ConversationOf

LEMMA OnCompaction ==
    ASSUME AgentIInv, NEW t \in Task, pc[t] \in Compacting
    PROVE  /\ ConversationOf(agentSession)
                = Append(said, agentSession.messages[Len(agentSession.messages)])
           /\ Len(agentSession.messages) = MAX_SESSION_MESSAGES + 1
BY DEF AgentIInv, Memory, MemoryComplete, Conversation, ConversationOf

LEMMA PushedLength ==
    ASSUME NEW s \in Session, Len(s.messages) <= MAX_SESSION_MESSAGES, NEW m \in Message
    PROVE  /\ Push(s, m) \in Session
           /\ ConversationOf(Push(s, m)) = Append(ConversationOf(s), m)
           /\ Append(ConversationOf(s), m) \in Seq(Message)
           /\ Push(s, m).messages[Len(Push(s, m).messages)] = m
           /\ TooLong(Push(s, m)) => Len(Push(s, m).messages) = MAX_SESSION_MESSAGES + 1
           /\ ~TooLong(Push(s, m)) => Len(Push(s, m).messages) <= MAX_SESSION_MESSAGES
<1> DEFINE p == Push(s, m)
           n == Len(s.messages)
           k == Len(p.messages)
<1>1. /\ p \in Session /\ ConversationOf(p) = Append(ConversationOf(s), m)
      /\ n \in Nat /\ k = n + 1 /\ p.messages[k] = m
  BY Pushed
<1>2. Append(ConversationOf(s), m) \in Seq(Message)
  <2>1. ConversationOf(s) \in Seq(Message) BY ConcatProperties DEF ConversationOf, Session
  <2> QED BY <2>1, Appended
<1>3. MAX_SESSION_MESSAGES \in Nat /\ n <= MAX_SESSION_MESSAGES BY AgentAssumption
<1>4. TooLong(p) <=> k > MAX_SESSION_MESSAGES BY DEF TooLong
<1> HIDE DEF p, n, k
<1>5. /\ k > MAX_SESSION_MESSAGES => k = MAX_SESSION_MESSAGES + 1
      /\ ~(k > MAX_SESSION_MESSAGES) => k <= MAX_SESSION_MESSAGES
  BY <1>1, <1>3
<1> QED BY <1>1, <1>2, <1>4, <1>5 DEF p, k

LEMMA Says ==
    ASSUME NEW s \in Session, NEW t, NEW soFar \in Seq(Message), ConversationOf(s) = soFar,
           Len(s.messages) <= MAX_SESSION_MESSAGES, NEW m \in Message,
           NEW compacting, NEW onwards, Say(t, s, soFar, m, compacting, onwards)
    PROVE  /\ agentSession' \in Session
           /\ ConversationOf(agentSession') = Append(soFar, m)
           /\ Append(soFar, m) \in Seq(Message)
           /\ \/ /\ GoOn(t, compacting) /\ said' = soFar
                 /\ Len(agentSession'.messages) = MAX_SESSION_MESSAGES + 1
                 /\ agentSession'.messages[Len(agentSession'.messages)] = m
              \/ /\ GoOn(t, onwards) /\ said' = Append(soFar, m)
                 /\ Len(agentSession'.messages) <= MAX_SESSION_MESSAGES
<1> DEFINE p == Push(s, m)
<1>1. /\ p \in Session /\ ConversationOf(p) = Append(soFar, m)
      /\ Append(soFar, m) \in Seq(Message) /\ p.messages[Len(p.messages)] = m
      /\ TooLong(p) => Len(p.messages) = MAX_SESSION_MESSAGES + 1
      /\ ~TooLong(p) => Len(p.messages) <= MAX_SESSION_MESSAGES
  BY PushedLength
<1>2. /\ agentSession' = p
      /\ IF TooLong(agentSession') THEN GoOn(t, compacting) /\ said' = soFar
         ELSE GoOn(t, onwards) /\ said' = Append(soFar, m)
  BY DEF Say
<1> HIDE DEF p
<1> QED BY <1>1, <1>2

LEMMA WithinOneMore ==
    ASSUME NEW q \in Seq(Message), Len(q) <= MAX_SESSION_MESSAGES
    PROVE  Len(q) <= MAX_SESSION_MESSAGES + 1
<1>1. MAX_SESSION_MESSAGES \in Nat /\ Len(q) \in Nat BY AgentAssumption, LenProperties
<1> DEFINE n == Len(q)
<1>2. n \in Nat /\ n <= MAX_SESSION_MESSAGES BY <1>1
<1> HIDE DEF n
<1>3. n <= MAX_SESSION_MESSAGES + 1 BY <1>1, <1>2
<1> QED BY <1>3 DEF n

------------------------------------------------------------------------------
(* What has to be shown of a step.                                         *)

LEMMA MemoryAtRest ==
    ASSUME \A t \in Task : pc'[t] \notin Compacting, ConversationOf(agentSession') = said',
           Len(agentSession'.messages) <= MAX_SESSION_MESSAGES
    PROVE  Memory'
BY DEF Memory, MemoryComplete, Conversation, ConversationOf

LEMMA MemoryCompacting ==
    ASSUME NEW t \in Task, pc'[t] \in Compacting,
           ConversationOf(agentSession')
              = Append(said', agentSession'.messages[Len(agentSession'.messages)]),
           Len(agentSession'.messages) = MAX_SESSION_MESSAGES + 1
    PROVE  Memory'
BY DEF Memory, MemoryComplete, Conversation, ConversationOf

LEMMA TurnsAtRest ==
    ASSUME ~attached' => tasks' = {},
           attached' => OwnedBy(ConversationOf(agentSession'), tasks'),
           \A u \in tasks' : pc'[u] \notin Running
                             /\ Settled(status'[u], ConversationOf(agentSession'), u)
    PROVE  Turns'
BY DEF Turns, Conversation, ConversationOf

LEMMA TurnsGoOn ==
    ASSUME ~attached' => tasks' = {},
           attached' => OwnedBy(ConversationOf(agentSession'), tasks'),
           NEW t \in Task, pc'[t] \in Running,
           t \in tasks' => Speaking(pc'[t], aiText'[t], ConversationOf(agentSession'), t),
           \A u \in tasks' : u # t =>
              pc'[u] \notin Running /\ Settled(status'[u], ConversationOf(agentSession'), u)
    PROVE  Turns'
BY DEF Turns, Conversation, ConversationOf

------------------------------------------------------------------------------
(* The steps.                                                              *)

LEMMA InitiallyAgent == AgentInit => AgentIInv
<1> SUFFICES ASSUME AgentInit PROVE AgentIInv OBVIOUS
<1> USE DEF AgentInit
<1>1. <<>> \in Seq(Message) /\ <<>> \in Seq(Request) /\ Len(<<>>) = 0 BY EmptySeq
<1>2. /\ NewSession \in Session /\ NewSession.summary = <<>> /\ NewSession.messages = <<>>
      /\ ConversationOf(NewSession) = <<>>
  BY <1>1, ConcatEmptySeq DEF NewSession, Session, ConversationOf
<1>3. /\ 0 \in 0..MaxTokens /\ 0 \in 0..MaxWipes /\ 0 \in 0..MaxRestarts
      /\ 0 <= MAX_SESSION_MESSAGES
  BY AgentAssumption
<1>4. 0 <= MAX_SESSION_MESSAGES + 1 BY AgentAssumption
<1>5. AgentTypeOK
  <2>1. pc \in [Request -> Places] BY DEF Places
  <2>2. "none" \in Status BY DEF Status
  <2>3. agentSession \in Session /\ Len(agentSession.messages) <= MAX_SESSION_MESSAGES + 1
    BY <1>1, <1>2, <1>4
  <2> QED BY <1>1, <1>3, <2>1, <2>2, <2>3 DEF AgentTypeOK, Places, Session
<1>6. \A r \in Request : pc[r] = "new" /\ pc[r] \notin Running BY DEF Running
<1>7. Task \subseteq Request /\ Op \subseteq Request /\ Compacting \subseteq Running
  BY DEF Request, Compacting, Running
<1>8. LineKept BY <1>1, <1>6, <1>7 DEF LineKept
<1>9. Memory
  BY <1>1, <1>2, <1>3, <1>6, <1>7 DEF Memory, MemoryComplete, Conversation, ConversationOf
<1>10. Statuses BY <1>6, <1>7 DEF Statuses, TasksSeenFinished
<1>11. Turns BY DEF Turns
<1> QED BY <1>5, <1>8, <1>9, <1>10, <1>11 DEF AgentIInv

LEMMA ArriveKeeps == ASSUME AgentIInv, NEW r \in Request, Arrive(r) PROVE AgentIInv'
<1> USE DEF AgentIInv
<1>1. /\ pc[r] = "new" /\ pc' = [pc EXCEPT ![r] = "waiting"] /\ line' = Append(line, r)
      /\ UNCHANGED <<answer, runtime, model, agentBounds>>
  BY DEF Arrive
<1>2. /\ wants' \in [Op -> Wish \cup {Nothing}]
      /\ \A o \in Op : IF o = r THEN wants'[o] \in Wish ELSE wants'[o] = wants[o]
  <2>1. CASE r \in Task
    <3>1. wants' = wants /\ r \notin Op BY <2>1, AgentAssumption DEF Arrive
    <3> QED BY <3>1 DEF AgentTypeOK
  <2>2. CASE r \notin Task
    <3>1. PICK op \in {"session", "poll", "cancel"}, t \in Task :
             wants' = [wants EXCEPT ![r] = [op |-> op, task |-> t]]
      BY <2>2 DEF Arrive
    <3>2. r \in Op BY <2>2 DEF Request
    <3>3. [op |-> op, task |-> t] \in Wish BY DEF Wish
    <3> QED BY <3>1, <3>2, <3>3 DEF AgentTypeOK
  <2> QED BY <2>1, <2>2
<1>3. /\ line \in Seq(Request) /\ pc \in [Request -> Places]
      /\ \A i \in 1..Len(line) : line[i] \in Request
  BY ElementOfSeq DEF AgentTypeOK, Places
<1>4. /\ line' \in Seq(Request) /\ Len(line) \in Nat /\ Len(line') = Len(line) + 1
      /\ line'[Len(line) + 1] = r /\ \A i \in 1..Len(line) : line'[i] = line[i]
      /\ line' # <<>>
  BY <1>1, <1>3, AppendProperties, LenProperties
<1>5. "waiting" \in Places /\ "waiting" \notin Running /\ "new" \notin Running
      /\ "new" \notin {"waiting"} \cup Running
  BY DEF Places, Running
<1>6. /\ pc' \in [Request -> Places] /\ pc'[r] = "waiting"
      /\ \A q \in Request : q # r => pc'[q] = pc[q]
      /\ \A q \in Request : pc'[q] \in Running <=> pc[q] \in Running
  BY <1>1, <1>3, <1>5
<1>7. \A i \in 1..Len(line') : i \in 1..Len(line) \/ i = Len(line) + 1 BY <1>4
<1>8. \A i \in 1..Len(line) : line[i] # r BY <1>1, <1>3, <1>5 DEF LineKept
<1>9. \A i \in 1..Len(line') : pc'[line'[i]] \in {"waiting"} \cup Running
  <2> TAKE i \in 1..Len(line')
  <2>1. CASE i \in 1..Len(line)
    <3>1. line'[i] = line[i] /\ line[i] # r /\ line[i] \in Request BY <1>3, <1>4, <1>8, <2>1
    <3> QED BY <1>6, <2>1, <3>1 DEF LineKept
  <2>2. CASE i = Len(line) + 1 BY <1>4, <1>6, <2>2
  <2> QED BY <1>7, <2>1, <2>2
<1>10. \A i, j \in 1..Len(line') : line'[i] = line'[j] => i = j
  BY <1>4, <1>7, <1>8 DEF LineKept
<1>11. \A q \in Request : pc'[q] \in Running => q \in Task /\ HoldsLock(q)'
  <2> SUFFICES ASSUME NEW q \in Request, pc'[q] \in Running PROVE q \in Task /\ HoldsLock(q)'
    OBVIOUS
  <2>1. q \in Task /\ line # <<>> /\ Head(line) = q BY <1>6 DEF LineKept, HoldsLock
  <2>2. Head(line') = Head(line) BY <1>1, <1>3, <2>1, HeadTailAppend
  <2> QED BY <1>4, <2>1, <2>2 DEF HoldsLock
<1>12. \A o \in Op : pc'[o] # "new" => wants'[o] \in Wish
  BY <1>2, <1>6 DEF LineKept, Request
<1>13. LineKept' BY <1>9, <1>10, <1>11, <1>12 DEF LineKept
<1>14. AgentTypeOK'
  BY <1>1, <1>2, <1>4, <1>6 DEF AgentTypeOK, Places, runtime, model, agentBounds
<1>15. Task \subseteq Request /\ Compacting \subseteq Running /\ tasks \subseteq Task
  BY DEF Request, Compacting, Running, AgentTypeOK
<1>16. \A t \in Task : /\ pc'[t] \in Compacting <=> pc[t] \in Compacting
                       /\ pc'[t] \in Running <=> pc[t] \in Running
                       /\ pc'[t] \in {"new", "waiting"} => pc[t] \in {"new", "waiting"}
                       /\ pc[t] \in Running => pc'[t] = pc[t]
  BY <1>1, <1>5, <1>6, <1>15
<1>17. Memory' BY <1>1, <1>16 DEF Memory, MemoryComplete, Conversation, runtime
<1>18. Statuses' BY <1>1, <1>16 DEF Statuses, TasksSeenFinished, runtime, model
<1>19. Turns' BY <1>1, <1>15, <1>16 DEF Turns, Conversation, runtime, model
<1> QED BY <1>13, <1>14, <1>17, <1>18, <1>19

(* A holder that only reads, opens the session, or is refused.             *)
LEMMA ServedKeeps ==
    ASSUME AgentIInv, NEW r \in Request, HoldsLock(r), pc[r] = "waiting",
           NEW outcome \in Ends, Leave(r, outcome),
           \/ UNCHANGED <<agentSession, said, attached>>
           \/ agentSession' = OpenSession /\ said' = SaidInSession /\ attached' = TRUE,
           \/ UNCHANGED <<tasks, status>>
           \/ attached' = TRUE /\ tasks' = tasks \cup {r}
              /\ r \in Task /\ status' = [status EXCEPT ![r] = "error"],
           UNCHANGED <<wants, model, agentBounds>>,
           answer' \in [Op -> Status \cup {"session", "not found"}],
           \A o \in Op : answer'[o] \notin {"pending", "running", "interrupted"}
    PROVE  AgentIInv'
<1> USE DEF AgentIInv
<1>1. /\ \A q \in Request : pc[q] \notin Running
      /\ OpenSession \in Session /\ SaidInSession \in Seq(Message)
      /\ ConversationOf(OpenSession) = SaidInSession
      /\ Len(OpenSession.messages) <= MAX_SESSION_MESSAGES
      /\ OwnedBy(SaidInSession, tasks)
      /\ \A u \in tasks : Settled(status[u], SaidInSession, u)
  BY Opened
<1>2. /\ line \in Seq(Request) /\ pc \in [Request -> Places] /\ pc[r] # "new"
      /\ Task \subseteq Request /\ tasks \subseteq Task
      /\ agentSession \in Session /\ said \in Seq(Message)
      /\ Compacting \subseteq Running /\ "waiting" \notin Running
  BY DEF AgentTypeOK, Places, Request, Session, Compacting, Running
<1>3. /\ line' \in Seq(Request) /\ pc' \in [Request -> Places] /\ LineKept'
      /\ pc'[r] = outcome /\ \A q \in Request : q # r => pc'[q] = pc[q]
      /\ \A q \in Request : pc'[q] \notin Running
  BY <1>2, Leaves
<1>4. /\ ConversationOf(agentSession) = said /\ Len(agentSession.messages) <= MAX_SESSION_MESSAGES
  <2>1. \A t \in Task : pc[t] \notin Compacting BY <1>1, <1>2
  <2> QED BY <2>1 DEF Memory, MemoryComplete, Conversation, ConversationOf
\* The session is what it was, or a new one.
<1>5. \/ agentSession' = agentSession /\ said' = said /\ attached' = attached
      \/ agentSession' = OpenSession /\ said' = SaidInSession /\ attached' = TRUE
  OBVIOUS
<1>6. /\ agentSession' \in Session /\ said' \in Seq(Message)
      /\ ConversationOf(agentSession') = said'
      /\ Len(agentSession'.messages) <= MAX_SESSION_MESSAGES
  BY <1>1, <1>2, <1>4, <1>5
<1>7. /\ attached' => OwnedBy(said', tasks)
      /\ \A u \in tasks : Settled(status[u], said', u)
      /\ ~attached' => tasks = {}
  <2>1. CASE agentSession' = agentSession /\ said' = said /\ attached' = attached
    <3>1. attached => OwnedBy(said, tasks) BY <1>4 DEF Turns, Conversation, ConversationOf
    <3>2. \A u \in tasks : Settled(status[u], said, u)
      BY <1>1, <1>2, <1>4 DEF Turns, Conversation, ConversationOf
    <3>3. ~attached => tasks = {} BY DEF Turns
    <3> QED BY <2>1, <3>1, <3>2, <3>3
  <2>2. CASE agentSession' = OpenSession /\ said' = SaidInSession /\ attached' = TRUE
    BY <1>1, <2>2
  <2> QED BY <1>5, <2>1, <2>2
<1>8. attached' \in BOOLEAN BY <1>5 DEF AgentTypeOK
<1>9. /\ tasks' \subseteq Task /\ status' \in [Task -> Status]
      /\ \A u \in tasks' : (u \in tasks /\ status'[u] = status[u])
                           \/ (u = r /\ status'[u] = "error" /\ attached' = TRUE)
      /\ tasks \subseteq tasks'
      /\ \A u \in Task : status'[u] = status[u] \/ status'[u] = "error"
      /\ \A u \in Task : u # r /\ u \in tasks' => u \in tasks
      /\ ~attached' => tasks' = {}
  <2>1. CASE UNCHANGED <<tasks, status>> BY <1>2, <1>7, <2>1 DEF AgentTypeOK
  <2>2. CASE /\ attached' = TRUE /\ tasks' = tasks \cup {r}
             /\ r \in Task /\ status' = [status EXCEPT ![r] = "error"]
    <3>1. "error" \in Status /\ status \in [Task -> Status]
      BY DEF AgentTypeOK, Status
    <3>2. r \notin tasks BY <2>2 DEF Statuses
    <3> QED BY <1>2, <2>2, <3>1, <3>2
  <2> QED BY <2>1, <2>2
<1>10. AgentTypeOK'
  <2>1. Len(agentSession'.messages) <= MAX_SESSION_MESSAGES + 1
    <3>1. agentSession'.messages \in Seq(Message) BY <1>6 DEF Session
    <3> QED BY <1>6, <3>1, WithinOneMore
  <2> QED BY <1>3, <1>6, <1>8, <1>9, <2>1
        DEF AgentTypeOK, Places, Session, model, agentBounds
<1>11. Memory' BY <1>2, <1>3, <1>6, MemoryAtRest
<1>12. Statuses'
  <2>1. outcome \notin {"new", "waiting"} BY DEF Ends
  <2>2. \A t \in Task : pc'[t] \in {"new", "waiting"} => t # r /\ pc[t] \in {"new", "waiting"}
    BY <1>2, <1>3, <2>1
  <2>3. \A t \in Task : t \in tasks' => status'[t] # "running"
    <3>1. \A t \in Task : t \in tasks => status[t] # "running" BY <1>1, <1>2 DEF Statuses
    <3> QED BY <1>9, <3>1
  <2>4. \A t \in Task : status'[t] # "pending" /\ status'[t] # "interrupted"
    BY <1>9 DEF Statuses, TasksSeenFinished
  <2>5. \A t \in Task : pc'[t] \notin Running BY <1>2, <1>3
  <2>6. \A t \in Task : pc'[t] \in {"new", "waiting"} => aiText'[t] = "none" /\ t \notin tasks'
    BY <1>9, <2>2 DEF Statuses, model
  <2> QED BY <2>3, <2>4, <2>5, <2>6 DEF Statuses, TasksSeenFinished
<1>13. Turns'
  <2>1. \A i \in 1..Len(said') : attached' => said'[i][1] \in tasks' BY <1>7, <1>9 DEF OwnedBy
  <2>2. attached' => OwnedBy(said', tasks') BY <2>1 DEF OwnedBy
  <2>3. ASSUME NEW u \in tasks' PROVE pc'[u] \notin Running /\ Settled(status'[u], said', u)
    <3>1. pc'[u] \notin Running BY <1>2, <1>3, <1>9
    <3>2. CASE u \in tasks /\ status'[u] = status[u] BY <1>7, <3>1, <3>2
    <3>3. CASE u \notin tasks /\ u = r /\ status'[u] = "error"
      <4>1. attached' = TRUE BY <3>3
      <4>2. Unanswered(said', u) BY <1>7, <3>3, <4>1, NotOwned
      <4> QED BY <3>1, <3>3, <4>2 DEF Settled
    <3>4. u = r => u \notin tasks BY <1>9 DEF Statuses
    <3> QED BY <1>9, <3>2, <3>3, <3>4
  <2> QED BY <1>6, <1>9, <2>2, <2>3, TurnsAtRest
<1> QED BY <1>3, <1>10, <1>11, <1>12, <1>13

(* The holder's stream ends.                                               *)
LEMMA StreamLeaves ==
    ASSUME AgentIInv, NEW t \in Task, pc[t] \in Running, NEW outcome \in Ends, Leave(t, outcome),
           NEW st \in {"success", "error"}, status' = [status EXCEPT ![t] = st],
           agentSession' \in Session, said' \in Seq(Message),
           ConversationOf(agentSession') = said',
           Len(agentSession'.messages) <= MAX_SESSION_MESSAGES,
           attached => OwnedBy(said', tasks),
           \A u \in tasks : u # t => Settled(status[u], said', u),
           t \in tasks => Settled(st, said', t),
           aiText' \in [Task -> {"none", "tokens", "received"}],
           \A u \in Task : u # t => aiText'[u] = aiText[u],
           UNCHANGED <<wants, answer, attached, tasks, tokens, agent, agentBounds>>
    PROVE  AgentIInv'
<1> USE DEF AgentIInv
<1>1. t \in Request /\ HoldsLock(t) /\ (~attached => tasks = {}) BY Runs
<1>2. /\ line \in Seq(Request) /\ pc \in [Request -> Places] /\ pc[t] # "new"
      /\ Task \subseteq Request /\ tasks \subseteq Task /\ Compacting \subseteq Running
  BY DEF AgentTypeOK, Places, Request, Compacting, Running
<1>3. /\ line' \in Seq(Request) /\ pc' \in [Request -> Places] /\ LineKept'
      /\ pc'[t] = outcome /\ \A q \in Request : q # t => pc'[q] = pc[q]
      /\ \A q \in Request : pc'[q] \notin Running
  BY <1>1, <1>2, Leaves
<1>4. /\ status' \in [Task -> Status] /\ status'[t] = st
      /\ \A u \in Task : u # t => status'[u] = status[u]
  <2>1. st \in Status BY DEF Status
  <2> QED BY <2>1 DEF AgentTypeOK
<1>5. AgentTypeOK'
  <2>1. Len(agentSession'.messages) <= MAX_SESSION_MESSAGES + 1
    BY WithinOneMore DEF Session
  <2> QED BY <1>3, <1>4, <2>1 DEF AgentTypeOK, Places, Session, agentBounds
<1>6. Memory' BY <1>2, <1>3, MemoryAtRest
<1>7. Statuses'
  <2>1. outcome \notin {"new", "waiting"} /\ st \notin {"pending", "interrupted", "running"}
    BY DEF Ends
  <2>2. \A u \in Task : pc'[u] \in {"new", "waiting"} => u # t /\ pc[u] \in {"new", "waiting"}
    BY <1>2, <1>3, <2>1
  <2>3. \A u \in Task : u \in tasks => status'[u] # "running"
    <3>1. \A u \in Task : u # t => pc[u] \notin Running BY <1>2, Runs
    <3> QED BY <1>4, <2>1, <3>1 DEF Statuses
  <2>4. \A u \in Task : status'[u] # "pending" /\ status'[u] # "interrupted"
    BY <1>4, <2>1 DEF Statuses, TasksSeenFinished
  <2>5. \A u \in Task : pc'[u] \notin Running BY <1>2, <1>3
  <2>6. \A u \in Task : pc'[u] \in {"new", "waiting"} => aiText'[u] = "none" /\ u \notin tasks'
    BY <2>2 DEF Statuses
  <2>7. \A o \in Op : answer'[o] \notin {"pending", "running", "interrupted"}
    BY DEF Statuses, TasksSeenFinished
  <2> QED BY <2>3, <2>4, <2>5, <2>6, <2>7 DEF Statuses, TasksSeenFinished
<1>8. Turns'
  <2>1. ASSUME NEW u \in tasks PROVE pc'[u] \notin Running /\ Settled(status'[u], said', u)
    <3>1. CASE u = t BY <1>1, <1>3, <1>4, <3>1
    <3>2. CASE u # t BY <1>2, <1>3, <1>4, <3>2
    <3> QED BY <3>1, <3>2
  <2> QED BY <1>1, <2>1, TurnsAtRest
<1> QED BY <1>3, <1>5, <1>6, <1>7, <1>8

(* It goes on, or begins.                                                  *)
LEMMA StreamGoesOn ==
    ASSUME AgentIInv, NEW t \in Task, HoldsLock(t), pc[t] # "new",
           NEW place \in Running, GoOn(t, place),
           status' = [status EXCEPT ![t] = "running"],
           agentSession' \in Session, said' \in Seq(Message),
           \/ /\ place \in Compacting /\ Len(agentSession'.messages) = MAX_SESSION_MESSAGES + 1
              /\ ConversationOf(agentSession')
                   = Append(said', agentSession'.messages[Len(agentSession'.messages)])
           \/ /\ place \notin Compacting /\ Len(agentSession'.messages) <= MAX_SESSION_MESSAGES
              /\ ConversationOf(agentSession') = said',
           attached' \in BOOLEAN, ~attached' => tasks' = {}, attached' => t \in tasks',
           tasks' = tasks \/ tasks' = tasks \cup {t},
           attached' => OwnedBy(ConversationOf(agentSession'), tasks'),
           \A u \in tasks : u # t => Settled(status[u], ConversationOf(agentSession'), u),
           t \in tasks' => Speaking(place, aiText'[t], ConversationOf(agentSession'), t),
           tokens' \in [Task -> 0..MaxTokens],
           aiText' \in [Task -> {"none", "tokens", "received"}],
           \A u \in Task : u # t => aiText'[u] = aiText[u],
           UNCHANGED <<wants, answer, agent, agentBounds>>
    PROVE  AgentIInv'
<1> USE DEF AgentIInv
<1>2. /\ line \in Seq(Request) /\ pc \in [Request -> Places] /\ t \in Request
      /\ Task \subseteq Request /\ tasks \subseteq Task /\ Compacting \subseteq Running
  BY DEF AgentTypeOK, Places, Request, Compacting, Running
<1>3. /\ line' = line /\ pc' \in [Request -> Places] /\ LineKept'
      /\ pc'[t] = place /\ \A q \in Request : q # t => pc'[q] = pc[q]
      /\ \A q \in Request : q # t => pc'[q] \notin Running
  BY <1>2, GoesOn
<1>4. /\ status' \in [Task -> Status] /\ status'[t] = "running"
      /\ \A u \in Task : u # t => status'[u] = status[u]
  <2>1. "running" \in Status BY DEF Status
  <2> QED BY <2>1 DEF AgentTypeOK
<1>5. AgentTypeOK'
  <2>1. Len(agentSession'.messages) <= MAX_SESSION_MESSAGES + 1
    <3>1. MAX_SESSION_MESSAGES + 1 <= MAX_SESSION_MESSAGES + 1 BY AgentAssumption
    <3> QED BY <3>1, WithinOneMore DEF Session
  <2>2. tasks' \subseteq Task BY <1>2
  <2> QED BY <1>3, <1>4, <2>1, <2>2 DEF AgentTypeOK, Places, Session, agentBounds
<1>6. Memory'
  <2>1. CASE place \in Compacting
    BY <1>3, <2>1, MemoryCompacting
  <2>2. CASE place \notin Compacting
    <3>1. \A u \in Task : pc'[u] \notin Compacting BY <1>2, <1>3, <2>2
    <3> QED BY <2>2, <3>1, MemoryAtRest
  <2> QED BY <2>1, <2>2
<1>7. Statuses'
  <2>1. place \notin {"new", "waiting"} BY DEF Running
  <2>2. \A u \in Task : pc'[u] \in {"new", "waiting"} => u # t /\ pc[u] \in {"new", "waiting"}
    BY <1>2, <1>3, <2>1
  <2>3. \A u \in Task : u \in tasks' /\ status'[u] = "running" => pc'[u] \in Running
    <3>1. \A u \in Task : u # t => pc[u] \notin Running BY <1>2, OneRuns
    <3> QED BY <1>3, <1>4, <3>1 DEF Statuses
  <2>4. \A u \in Task : status'[u] # "pending" /\ status'[u] # "interrupted"
    BY <1>4 DEF Statuses, TasksSeenFinished
  <2>5. \A u \in Task : pc'[u] \in Running => u = t BY <1>2, <1>3
  <2>6. \A u \in Task : pc'[u] \in {"new", "waiting"} => aiText'[u] = "none" /\ u \notin tasks'
    BY <2>2 DEF Statuses
  <2>7. \A o \in Op : answer'[o] \notin {"pending", "running", "interrupted"}
    BY DEF Statuses, TasksSeenFinished
  <2> QED BY <1>4, <2>3, <2>4, <2>5, <2>6, <2>7 DEF Statuses, TasksSeenFinished
<1>8. Turns'
  <2>1. ASSUME NEW u \in tasks', u # t
        PROVE  pc'[u] \notin Running /\ Settled(status'[u], ConversationOf(agentSession'), u)
    <3>1. u \in tasks /\ u \in Task BY <1>2, <2>1
    <3> QED BY <1>2, <1>3, <1>4, <2>1, <3>1
  <2>2. t \in tasks' => Speaking(pc'[t], aiText'[t], ConversationOf(agentSession'), t) BY <1>3
  <2> QED BY <1>3, <2>1, <2>2, TurnsGoOn
<1> QED BY <1>3, <1>5, <1>6, <1>7, <1>8

LEMMA StartKeeps == ASSUME AgentIInv, NEW t \in Task, Start(t) PROVE AgentIInv'
<1> USE DEF AgentIInv
<1> DEFINE m == <<t, "human">>
<1>1. /\ pc[t] = "waiting" /\ HoldsLock(t) /\ attached' = TRUE /\ tasks' = tasks \cup {t}
      /\ status' = [status EXCEPT ![t] = "running"]
      /\ Say(t, OpenSession, SaidInSession, m, "compactHuman", "turn")
      /\ UNCHANGED <<wants, answer, model, agentBounds>>
  BY DEF Start
<1>2. t \in Request /\ m \in Message /\ m[1] = t BY MessagesAre DEF Request
<1> HIDE DEF m
<1>3. /\ OpenSession \in Session /\ SaidInSession \in Seq(Message)
      /\ ConversationOf(OpenSession) = SaidInSession
      /\ Len(OpenSession.messages) <= MAX_SESSION_MESSAGES
      /\ OwnedBy(SaidInSession, tasks)
      /\ \A u \in tasks : Settled(status[u], SaidInSession, u)
  BY <1>1, <1>2, Opened
<1> DEFINE c == Append(SaidInSession, m)
<1>4. /\ agentSession' \in Session /\ ConversationOf(agentSession') = c /\ c \in Seq(Message)
      /\ \/ /\ GoOn(t, "compactHuman") /\ said' = SaidInSession
            /\ Len(agentSession'.messages) = MAX_SESSION_MESSAGES + 1
            /\ agentSession'.messages[Len(agentSession'.messages)] = m
         \/ /\ GoOn(t, "turn") /\ said' = c
            /\ Len(agentSession'.messages) <= MAX_SESSION_MESSAGES
  BY <1>1, <1>2, <1>3, Says
<1>5. aiText[t] = "none" /\ t \notin tasks /\ tasks \subseteq Task
  BY <1>1 DEF Statuses, AgentTypeOK
<1>6. OwnedBy(c, tasks')
  <2>1. OwnedBy(SaidInSession, tasks') BY <1>1, <1>3 DEF OwnedBy
  <2> QED BY <1>1, <1>2, <1>3, <2>1, OwnedGrows
<1>7. \A u \in tasks : u # t => Settled(status[u], c, u) BY <1>2, <1>3, <1>5, OthersGrow
<1>8. AskedLast(c, t) /\ Unanswered(c, t)
  <2>1. Unanswered(SaidInSession, t) BY <1>3, <1>5, NotOwned
  <2> QED BY <1>3, <2>1, Asks DEF m
<1> HIDE DEF c
<1>9. \A place \in {"compactHuman", "turn"} : Speaking(place, aiText'[t], c, t)
  <2>1. aiText'[t] = "none" BY <1>1, <1>5 DEF model
  <2> QED BY <1>8, <2>1 DEF Speaking
<1>10. /\ tokens' \in [Task -> 0..MaxTokens]
       /\ aiText' \in [Task -> {"none", "tokens", "received"}]
       /\ \A u \in Task : u # t => aiText'[u] = aiText[u]
       /\ agent' = agent
  BY <1>1 DEF model, AgentTypeOK
<1>11. /\ "compactHuman" \in Running /\ "compactHuman" \in Compacting
       /\ "turn" \in Running /\ "turn" \notin Compacting /\ "waiting" # "new"
  BY DEF Running, Compacting
<1>12. CASE GoOn(t, "compactHuman") /\ said' = SaidInSession
            /\ Len(agentSession'.messages) = MAX_SESSION_MESSAGES + 1
            /\ agentSession'.messages[Len(agentSession'.messages)] = m
  <2>1. ConversationOf(agentSession')
           = Append(said', agentSession'.messages[Len(agentSession'.messages)])
    BY <1>4, <1>12 DEF c
  <2>2. Speaking("compactHuman", aiText'[t], c, t) BY <1>9
  <2> QED BY <1>1, <1>3, <1>4, <1>6, <1>7, <1>10, <1>11, <1>12, <2>1, <2>2, StreamGoesOn
<1>13. CASE GoOn(t, "turn") /\ said' = c /\ Len(agentSession'.messages) <= MAX_SESSION_MESSAGES
  <2>1. Speaking("turn", aiText'[t], c, t) BY <1>9
  <2> QED BY <1>1, <1>4, <1>6, <1>7, <1>10, <1>11, <1>13, <2>1, StreamGoesOn
<1> QED BY <1>4, <1>12, <1>13

LEMMA TokenKeeps == ASSUME AgentIInv, NEW t \in Task, Token(t) PROVE AgentIInv'
<1> USE DEF AgentIInv
<1> DEFINE m == <<t, "ai">>
           c == ConversationOf(agentSession)
<1>1. /\ pc[t] = "turn" /\ tokens[t] < MaxTokens /\ tokens' = [tokens EXCEPT ![t] = @ + 1]
      /\ aiText' = [aiText EXCEPT ![t] = "tokens"]
      /\ UNCHANGED <<wants, answer, attached, tasks, status, agent, agentBounds>>
  BY DEF Token
<1>2. /\ "turn" \in Running /\ "turn" \notin Compacting /\ "turn" # "new" /\ "compactAi" # "new"
      /\ "compactAi" \in Running /\ "compactAi" \in Compacting
  BY DEF Running, Compacting
<1>3. /\ t \in Request /\ HoldsLock(t) /\ status[t] = "running"
      /\ (attached => t \in tasks) /\ agentSession \in Session /\ said \in Seq(Message)
      /\ (attached => OwnedBy(c, tasks)) /\ (~attached => tasks = {})
      /\ \A u \in tasks : u # t => Settled(status[u], c, u)
      /\ (t \in tasks => Speaking("turn", aiText[t], c, t))
  BY <1>1, <1>2, Runs
<1>4. c = said /\ Len(agentSession.messages) <= MAX_SESSION_MESSAGES BY <1>1, OnTurn
<1>5. /\ tokens' \in [Task -> 0..MaxTokens]
      /\ aiText' \in [Task -> {"none", "tokens", "received"}] /\ aiText'[t] = "tokens"
      /\ \A u \in Task : u # t => aiText'[u] = aiText[u]
      /\ status' = [status EXCEPT ![t] = "running"] /\ attached' \in BOOLEAN
      /\ tasks' = tasks /\ tasks \subseteq Task /\ attached' = attached
  <2>1. tokens[t] + 1 \in 0..MaxTokens
    <3>1. tokens[t] \in 0..MaxTokens BY DEF AgentTypeOK
    <3>2. MaxTokens \in Nat BY AgentAssumption
    <3> QED BY <1>1, <3>1, <3>2
  <2>2. tokens' \in [Task -> 0..MaxTokens] BY <1>1, <2>1 DEF AgentTypeOK
  <2>3. status' = [status EXCEPT ![t] = "running"] BY <1>1, <1>3 DEF AgentTypeOK
  <2> QED BY <1>1, <2>2, <2>3 DEF AgentTypeOK
<1>8. /\ pc[t] # "new" /\ UNCHANGED <<wants, answer, agent, agentBounds>>
      /\ (~attached' => tasks' = {}) /\ (attached' => t \in tasks')
      /\ tasks' = tasks \/ tasks' = tasks \cup {t}
  BY <1>1, <1>2, <1>3, <1>5
<1>6. CASE aiText[t] = "none"
  <2>1. Say(t, agentSession, said, m, "compactAi", "turn") BY <1>6 DEF Token
  <2>2. m \in Message /\ m[1] = t BY MessagesAre
  <2> HIDE DEF m, c
  <2> DEFINE d == Append(said, m)
  <2>3. /\ agentSession' \in Session /\ ConversationOf(agentSession') = d /\ d \in Seq(Message)
        /\ \/ /\ GoOn(t, "compactAi") /\ said' = said
              /\ Len(agentSession'.messages) = MAX_SESSION_MESSAGES + 1
              /\ agentSession'.messages[Len(agentSession'.messages)] = m
           \/ /\ GoOn(t, "turn") /\ said' = d
              /\ Len(agentSession'.messages) <= MAX_SESSION_MESSAGES
    BY <1>3, <1>4, <2>1, <2>2, Says DEF c
  <2>4. attached => OwnedBy(d, tasks) BY <1>3, <1>4, <2>2, OwnedGrows
  <2>5. \A u \in tasks : u # t => Settled(status[u], d, u)
    BY <1>3, <1>4, <1>5, <2>2, OthersGrow
  <2>6. t \in tasks => AnsweredLast(d, t)
    <3>1. t \in tasks => AskedLast(said, t) /\ Unanswered(said, t)
      BY <1>3, <1>4, <1>6 DEF Speaking
    <3> QED BY <1>3, <3>1, Replies DEF m
  <2> HIDE DEF d
  <2>7. CASE GoOn(t, "compactAi") /\ said' = said
             /\ Len(agentSession'.messages) = MAX_SESSION_MESSAGES + 1
             /\ agentSession'.messages[Len(agentSession'.messages)] = m
    <3>1. ConversationOf(agentSession')
             = Append(said', agentSession'.messages[Len(agentSession'.messages)])
      BY <2>3, <2>7 DEF d
    <3>2. t \in tasks' => Speaking("compactAi", aiText'[t], d, t)
      BY <1>5, <2>6 DEF Speaking
    <3> QED BY <1>2, <1>3, <1>5, <1>8, <2>3, <2>4, <2>5, <2>7, <3>1, <3>2, StreamGoesOn
  <2>8. CASE GoOn(t, "turn") /\ said' = d
             /\ Len(agentSession'.messages) <= MAX_SESSION_MESSAGES
    <3>1. t \in tasks' => Paired(d, t) BY <1>5, <2>3, <2>6, ReplyPairs
    <3>2. t \in tasks' => Speaking("turn", aiText'[t], d, t) BY <1>5, <3>1 DEF Speaking
    <3> QED BY <1>2, <1>3, <1>5, <1>8, <2>3, <2>4, <2>5, <2>8, <3>2, StreamGoesOn
  <2> QED BY <2>3, <2>7, <2>8
<1>7. CASE aiText[t] # "none"
  <2>1. line' = line /\ pc' = pc /\ agentSession' = agentSession /\ said' = said
    BY <1>7 DEF Token
  <2>2. pc' = [pc EXCEPT ![t] = "turn"] BY <1>1, <1>3, <2>1 DEF AgentTypeOK
  <2>3. GoOn(t, "turn") BY <2>1, <2>2 DEF GoOn
  <2>4. t \in tasks => Speaking("turn", aiText'[t], c, t)
    <3>1. t \in tasks => Paired(c, t) BY <1>3, <1>7 DEF Speaking
    <3> QED BY <1>5, <3>1 DEF Speaking
  <2>5. ConversationOf(agentSession') = c BY <2>1
  <2> HIDE DEF c
  <2> QED BY <1>2, <1>3, <1>4, <1>5, <1>8, <2>1, <2>3, <2>4, <2>5, StreamGoesOn
<1> QED BY <1>6, <1>7

LEMMA StreamEndsKeeps == ASSUME AgentIInv, NEW t \in Task, StreamEnds(t) PROVE AgentIInv'
<1> USE DEF AgentIInv
<1> DEFINE m == <<t, "ai">>
           c == ConversationOf(agentSession)
<1>1. pc[t] = "turn" /\ UNCHANGED <<wants, answer, attached, tasks, tokens, agent, agentBounds>>
  BY DEF StreamEnds
<1>2. /\ "turn" \in Running /\ "turn" # "new" /\ "answered" \in Ends
      /\ "compactFinal" \in Running /\ "compactFinal" \in Compacting
      /\ "success" \in {"success", "error"}
  BY DEF Running, Compacting, Ends
<1>3. /\ t \in Request /\ HoldsLock(t) /\ status[t] = "running"
      /\ (attached => t \in tasks) /\ agentSession \in Session /\ said \in Seq(Message)
      /\ (attached => OwnedBy(c, tasks)) /\ (~attached => tasks = {})
      /\ \A u \in tasks : u # t => Settled(status[u], c, u)
      /\ (t \in tasks => Speaking("turn", aiText[t], c, t))
  BY <1>1, <1>2, Runs
<1>4. c = said /\ Len(agentSession.messages) <= MAX_SESSION_MESSAGES BY <1>1, OnTurn
<1>5. tasks \subseteq Task /\ attached' \in BOOLEAN /\ tokens' \in [Task -> 0..MaxTokens]
  BY <1>1 DEF AgentTypeOK
<1>6. CASE aiText[t] # "none"
  <2>1. /\ status' = [status EXCEPT ![t] = "success"] /\ Leave(t, "answered")
        /\ agentSession' = agentSession /\ said' = said /\ aiText' = aiText
    BY <1>3, <1>6 DEF StreamEnds, Succeed
  <2>2. t \in tasks => Settled("success", c, t) BY <1>3, <1>6 DEF Speaking, Settled
  <2>3. ConversationOf(agentSession') = said' BY <1>4, <2>1
  <2>4. aiText' \in [Task -> {"none", "tokens", "received"}] BY <2>1 DEF AgentTypeOK
  <2> HIDE DEF c
  <2> QED BY <1>1, <1>2, <1>3, <1>4, <1>5, <2>1, <2>2, <2>3, <2>4, StreamLeaves
<1>7. CASE aiText[t] = "none"
  <2>1. /\ aiText' = [aiText EXCEPT ![t] = "received"] /\ agentSession' = Push(agentSession, m)
        /\ IF TooLong(agentSession')
           THEN GoOn(t, "compactFinal") /\ said' = said /\ status' = status
           ELSE /\ status' = [status EXCEPT ![t] = "success"] /\ Leave(t, "answered")
                /\ said' = Append(said, m)
    BY <1>3, <1>7 DEF StreamEnds, Succeed
  <2>2. m \in Message /\ m[1] = t BY MessagesAre
  <2>3. t \in tasks => AskedLast(said, t) /\ Unanswered(said, t)
    BY <1>3, <1>4, <1>7 DEF Speaking
  <2> DEFINE d == Append(said, m)
  <2>4. t \in tasks => AnsweredLast(d, t) BY <1>3, <2>3, Replies
  <2> HIDE DEF m, c
  <2>5. /\ agentSession' \in Session /\ ConversationOf(agentSession') = d /\ d \in Seq(Message)
        /\ agentSession'.messages[Len(agentSession'.messages)] = m
        /\ TooLong(agentSession') => Len(agentSession'.messages) = MAX_SESSION_MESSAGES + 1
        /\ ~TooLong(agentSession') => Len(agentSession'.messages) <= MAX_SESSION_MESSAGES
    BY <1>3, <1>4, <2>1, <2>2, PushedLength DEF c
  <2>6. attached => OwnedBy(d, tasks) BY <1>3, <1>4, <2>2, OwnedGrows
  <2>7. \A u \in tasks : u # t => Settled(status[u], d, u)
    BY <1>3, <1>4, <1>5, <2>2, OthersGrow
  <2>8. /\ aiText' \in [Task -> {"none", "tokens", "received"}] /\ aiText'[t] = "received"
        /\ \A u \in Task : u # t => aiText'[u] = aiText[u]
    BY <2>1 DEF AgentTypeOK
  <2>9. t \in tasks => Paired(d, t) BY <2>4, <2>5, ReplyPairs
  <2> HIDE DEF d
  <2>10. CASE TooLong(agentSession')
    <3>1. GoOn(t, "compactFinal") /\ said' = said /\ status' = status BY <2>1, <2>10
    <3>2. status' = [status EXCEPT ![t] = "running"] BY <1>3, <3>1 DEF AgentTypeOK
    <3>3. ConversationOf(agentSession')
             = Append(said', agentSession'.messages[Len(agentSession'.messages)])
      BY <2>5, <3>1 DEF d
    <3>4. t \in tasks' => Speaking("compactFinal", aiText'[t], d, t)
      BY <1>1, <2>4 DEF Speaking
    <3> QED BY <1>1, <1>2, <1>3, <1>5, <2>5, <2>6, <2>7, <2>8, <2>10, <3>1, <3>2, <3>3, <3>4,
               StreamGoesOn
  <2>11. CASE ~TooLong(agentSession')
    <3>1. /\ status' = [status EXCEPT ![t] = "success"] /\ Leave(t, "answered")
          /\ said' = d
      BY <2>1, <2>11 DEF d
    <3>2. t \in tasks => Settled("success", d, t) BY <2>9 DEF Settled
    <3> QED BY <1>1, <1>2, <2>5, <2>6, <2>7, <2>8, <2>11, <3>1, <3>2, StreamLeaves
  <2> QED BY <2>10, <2>11
<1>8. aiText[t] = "none" \/ aiText[t] # "none" OBVIOUS
<1> QED BY <1>6, <1>7, <1>8

LEMMA CompactedKeeps == ASSUME AgentIInv, NEW t \in Task, Compacted(t) PROVE AgentIInv'
<1> USE DEF AgentIInv
<1> DEFINE c == ConversationOf(agentSession)
           m == agentSession.messages[Len(agentSession.messages)]
<1>1. /\ pc[t] \in Compacting /\ agentSession' = compactSessionMemory(agentSession)
      /\ said' = Append(said, m)
      /\ UNCHANGED <<wants, answer, attached, tasks, model, agentBounds>>
  BY DEF Compacted
<1>2. /\ pc[t] \in Running /\ "answered" \in Ends /\ "turn" \in Running /\ "turn" \notin Compacting
      /\ pc[t] # "new"
  BY <1>1 DEF Running, Compacting, Ends
<1>3. /\ t \in Request /\ HoldsLock(t) /\ status[t] = "running"
      /\ (attached => t \in tasks) /\ agentSession \in Session /\ said \in Seq(Message)
      /\ (attached => OwnedBy(c, tasks)) /\ (~attached => tasks = {})
      /\ \A u \in tasks : u # t => Settled(status[u], c, u)
      /\ (t \in tasks => Speaking(pc[t], aiText[t], c, t))
  BY <1>2, Runs
<1>4. c = Append(said, m) /\ Len(agentSession.messages) = MAX_SESSION_MESSAGES + 1
  BY <1>1, OnCompaction
<1>5. /\ agentSession' \in Session /\ ConversationOf(agentSession') = c
      /\ Len(agentSession'.messages) <= MAX_SESSION_MESSAGES
  BY <1>1, <1>3, <1>4, Compacts
<1>6. said' = c /\ c \in Seq(Message)
  <2>1. c \in Seq(Message) BY <1>3, ConcatProperties DEF ConversationOf, Session
  <2> QED BY <1>1, <1>4, <2>1
<1> HIDE DEF c, m
<1>7. /\ tasks \subseteq Task /\ attached' \in BOOLEAN /\ tokens' \in [Task -> 0..MaxTokens]
      /\ aiText' \in [Task -> {"none", "tokens", "received"}] /\ aiText'[t] = aiText[t]
      /\ \A u \in Task : u # t => aiText'[u] = aiText[u]
      /\ UNCHANGED <<wants, answer, attached, tasks, tokens, agent, agentBounds>>
      /\ (~attached' => tasks' = {}) /\ (attached' => t \in tasks')
      /\ tasks' = tasks \/ tasks' = tasks \cup {t}
  BY <1>1, <1>3 DEF AgentTypeOK, model
<1>8. CASE pc[t] = "compactFinal"
  <2>1. status' = [status EXCEPT ![t] = "success"] /\ Leave(t, "answered")
    BY <1>8 DEF Compacted, Succeed
  <2>2. t \in tasks => AnsweredLast(c, t) BY <1>3, <1>8 DEF Speaking
  <2>3. t \in tasks => Paired(c, t) BY <1>6, <2>2, ReplyPairs
  <2>4. t \in tasks => Settled("success", c, t) BY <2>3 DEF Settled
  <2> QED BY <1>2, <1>3, <1>5, <1>6, <1>7, <2>1, <2>4, StreamLeaves
<1>9. CASE pc[t] # "compactFinal"
  <2>1. GoOn(t, "turn") /\ status' = status BY <1>9 DEF Compacted
  <2>2. status' = [status EXCEPT ![t] = "running"] BY <1>3, <2>1 DEF AgentTypeOK
  <2>3. pc[t] = "compactHuman" \/ pc[t] = "compactAi" BY <1>1, <1>9 DEF Compacting
  <2>4. t \in tasks => Speaking("turn", aiText'[t], c, t)
    <3> SUFFICES ASSUME t \in tasks PROVE Speaking("turn", aiText'[t], c, t) OBVIOUS
    <3>1. CASE pc[t] = "compactHuman" BY <1>3, <1>7, <3>1 DEF Speaking
    <3>2. CASE pc[t] = "compactAi"
      <4>1. aiText[t] # "none" /\ AnsweredLast(c, t) BY <1>3, <3>2 DEF Speaking
      <4>2. Paired(c, t) BY <1>6, <4>1, ReplyPairs
      <4> QED BY <1>7, <4>1, <4>2 DEF Speaking
    <3> QED BY <2>3, <3>1, <3>2
  <2> QED BY <1>2, <1>3, <1>5, <1>6, <1>7, <2>1, <2>2, <2>4, StreamGoesOn
<1> QED BY <1>8, <1>9

LEMMA CompactionFailsKeeps == ASSUME AgentIInv, NEW t \in Task, CompactionFails(t) PROVE AgentIInv'
<1> USE DEF AgentIInv
<1> DEFINE c == ConversationOf(agentSession)
           m == agentSession.messages[Len(agentSession.messages)]
<1>1. /\ pc[t] \in Compacting /\ agentSession' = RolledBack(agentSession)
      /\ status' = [status EXCEPT ![t] = "error"] /\ Leave(t, "refused")
      /\ UNCHANGED <<wants, answer, attached, tasks, said, model, agentBounds>>
  BY DEF CompactionFails
<1>2. pc[t] \in Running /\ "refused" \in Ends /\ "error" \in {"success", "error"}
  BY <1>1 DEF Running, Compacting, Ends
<1>3. /\ t \in Request /\ HoldsLock(t)
      /\ (attached => t \in tasks) /\ agentSession \in Session /\ said \in Seq(Message)
      /\ (attached => OwnedBy(c, tasks)) /\ (~attached => tasks = {})
      /\ \A u \in tasks : u # t => Settled(status[u], c, u)
      /\ (t \in tasks => Speaking(pc[t], aiText[t], c, t))
  BY <1>2, Runs
<1>4. c = Append(said, m) /\ Len(agentSession.messages) = MAX_SESSION_MESSAGES + 1
  BY <1>1, OnCompaction
<1>5. /\ agentSession' \in Session /\ c \in Seq(Message) /\ c # <<>>
      /\ ConversationOf(agentSession') = Shortened(c)
      /\ c[Len(c)] = m /\ Len(agentSession'.messages) = MAX_SESSION_MESSAGES
  BY <1>1, <1>3, <1>4, RollsBack
<1>6. m \in Message
  <2>1. agentSession.messages \in Seq(Message) BY <1>3 DEF Session
  <2>2. Len(c) \in 1..Len(c)
    <3>1. Len(c) \in Nat \ {0} BY <1>5, EmptySeq
    <3> QED BY <3>1
  <2> QED BY <1>5, <2>2, ElementOfSeq
<1> HIDE DEF c, m
<1>7. Shortened(c) = said
  <2>1. /\ Len(c) = Len(said) + 1 /\ Len(said) \in Nat
        /\ \A i \in 1..Len(said) : c[i] = said[i]
    BY <1>3, <1>4, <1>6, Appended
  <2>2. /\ Shortened(c) \in Seq(Message) /\ Len(Shortened(c)) = Len(c) - 1
        /\ \A i \in 1..Len(c) - 1 : Shortened(c)[i] = c[i]
    BY <1>5, ShortenedIs
  <2>3. Len(c) - 1 = Len(said) BY <2>1
  <2> QED BY <1>3, <2>1, <2>2, <2>3, SeqEqual
<1>8. attached => OwnedBy(said, tasks) BY <1>3, <1>5, <1>7, OwnedShrinks
<1>9. tasks \subseteq Task BY DEF AgentTypeOK
<1>10. t \in tasks => c[Len(c)][1] = t /\ Unanswered(said, t)
  <2> SUFFICES ASSUME t \in tasks PROVE c[Len(c)][1] = t /\ Unanswered(said, t) OBVIOUS
  <2>1. \/ AskedLast(c, t) /\ Unanswered(c, t)
        \/ AnsweredLast(c, t)
    BY <1>1, <1>3 DEF Speaking, Compacting
  <2>2. CASE AskedLast(c, t) /\ Unanswered(c, t)
    <3>1. c[Len(c)] = <<t, "human">> BY <2>2 DEF AskedLast
    <3>2. Unanswered(said, t) BY <1>5, <1>7, <2>2, ShortenedUnanswered
    <3> QED BY <3>1, <3>2, MessagesAre
  <2>3. CASE AnsweredLast(c, t)
    <3>1. c[Len(c)] = <<t, "ai">> /\ Unanswered(said, t) BY <1>5, <1>7, <2>3, ReplyPairs
    <3> QED BY <3>1, MessagesAre
  <2> QED BY <2>1, <2>2, <2>3
<1>11. \A u \in tasks : u # t => Settled(status[u], said, u)
  <2> SUFFICES ASSUME NEW u \in tasks, u # t PROVE Settled(status[u], said, u) OBVIOUS
  <2>1. t \in tasks BY <1>3
  <2>2. u \in Task /\ Settled(status[u], c, u) /\ c[Len(c)][1] = t BY <1>3, <1>9, <1>10, <2>1
  <2> QED BY <1>5, <1>7, <2>2, OthersShrink
<1>12. t \in tasks => Settled("error", said, t) BY <1>10 DEF Settled
<1>13. /\ aiText' \in [Task -> {"none", "tokens", "received"}] /\ said' = said
       /\ \A u \in Task : u # t => aiText'[u] = aiText[u]
       /\ UNCHANGED <<wants, answer, attached, tasks, tokens, agent, agentBounds>>
  BY <1>1 DEF AgentTypeOK, model
<1>14. Len(agentSession'.messages) <= MAX_SESSION_MESSAGES BY <1>5, AgentAssumption
<1> QED BY <1>1, <1>2, <1>3, <1>5, <1>7, <1>8, <1>11, <1>12, <1>13, <1>14, StreamLeaves

LEMMA InitAgentKeeps == ASSUME AgentIInv, NEW t \in Task, InitAgent(t) PROVE AgentIInv'
<1>1. /\ agent' \in {"ready", "failed"}
      /\ UNCHANGED <<requests, runtime, tokens, aiText, agentBounds>>
  BY DEF InitAgent
<1>2. AgentTypeOK' BY <1>1 DEF AgentIInv, AgentTypeOK, requests, runtime, agentBounds
<1> QED BY <1>1, <1>2
    DEF AgentIInv, LineKept, HoldsLock, Memory, MemoryComplete, Statuses, TasksSeenFinished, Turns,
        Conversation, requests, runtime

(* A request that is refused, read or cancelled.                           *)
LEMMA OthersKeep ==
    ASSUME AgentIInv,
           \/ \E r \in Request : Refused(r)
           \/ \E t \in Task : BadInput(t)
           \/ \E o \in Op : Serve(o)
    PROVE  AgentIInv'
<1> USE DEF AgentIInv
<1>1. /\ answer \in [Op -> Status \cup {"session", "not found"}] /\ status \in [Task -> Status]
      /\ \A o \in Op : answer[o] \notin {"pending", "running", "interrupted"}
      /\ "refused" \in Ends /\ "answered" \in Ends /\ tasks \subseteq Task
      /\ Task \subseteq Request /\ Op \subseteq Request
  BY DEF AgentTypeOK, Statuses, TasksSeenFinished, Ends, Request
<1>2. ASSUME NEW r \in Request, Refused(r) PROVE AgentIInv'
  <2>1. /\ pc[r] = "waiting" /\ HoldsLock(r) /\ Leave(r, "refused")
        /\ UNCHANGED <<wants, answer, runtime, model, agentBounds>>
    BY <1>2 DEF Refused
  <2>2. UNCHANGED <<agentSession, said, attached>> /\ UNCHANGED <<tasks, status>>
    BY <2>1 DEF runtime
  <2> QED BY <1>1, <2>1, <2>2, ServedKeeps
<1>3. ASSUME NEW t \in Task, BadInput(t) PROVE AgentIInv'
  <2>1. /\ pc[t] = "waiting" /\ HoldsLock(t) /\ Leave(t, "refused")
        /\ agentSession' = OpenSession /\ said' = SaidInSession /\ attached' = TRUE
        /\ tasks' = tasks \cup {t} /\ status' = [status EXCEPT ![t] = "error"]
        /\ UNCHANGED <<wants, answer, model, agentBounds>>
    BY <1>3 DEF BadInput
  <2> QED BY <1>1, <2>1, ServedKeeps
<1>4. ASSUME NEW o \in Op, ReadSession(o) PROVE AgentIInv'
  <2>1. /\ pc[o] = "waiting" /\ HoldsLock(o) /\ Leave(o, "answered")
        /\ agentSession' = OpenSession /\ said' = SaidInSession /\ attached' = TRUE
        /\ answer' = [answer EXCEPT ![o] = "session"]
        /\ UNCHANGED <<wants, tasks, status, model, agentBounds>>
    BY <1>4 DEF ReadSession
  <2>2. /\ answer' \in [Op -> Status \cup {"session", "not found"}]
        /\ \A q \in Op : answer'[q] \notin {"pending", "running", "interrupted"}
    BY <1>1, <2>1
  <2> QED BY <1>1, <2>1, <2>2, ServedKeeps
\* What a poll or a cancel finds has finished.
<1>5. ASSUME NEW o \in Op, pc[o] = "waiting", HoldsLock(o)
      PROVE  /\ wants[o].task \in Task
             /\ Found(wants[o].task) =>
                  status[wants[o].task] \notin {"pending", "running", "interrupted"}
  <2>1. wants[o] \in Wish BY <1>5 DEF LineKept
  <2>2. wants[o].task \in Task BY <2>1 DEF Wish
  <2>3. \A t \in Task : pc[t] \notin Running BY <1>1, <1>5, NobodyRuns
  <2> QED BY <2>2, <2>3 DEF Found, Statuses, TasksSeenFinished
<1>6. ASSUME NEW o \in Op, Poll(o) PROVE AgentIInv'
  <2> DEFINE t == wants[o].task
             a == IF Found(t) THEN status[t] ELSE "not found"
  <2>1. /\ pc[o] = "waiting" /\ HoldsLock(o) /\ Leave(o, "answered")
        /\ answer' = [answer EXCEPT ![o] = a]
        /\ UNCHANGED <<wants, runtime, model, agentBounds>>
    BY <1>6 DEF Poll
  <2>2. a \in Status \cup {"session", "not found"} /\ a \notin {"pending", "running", "interrupted"}
    BY <1>1, <1>5, <2>1
  <2> HIDE DEF a
  <2>3. /\ answer' \in [Op -> Status \cup {"session", "not found"}]
        /\ \A q \in Op : answer'[q] \notin {"pending", "running", "interrupted"}
    BY <1>1, <2>1, <2>2
  <2>4. UNCHANGED <<agentSession, said, attached>> /\ UNCHANGED <<tasks, status>>
    BY <2>1 DEF runtime
  <2> QED BY <1>1, <2>1, <2>3, <2>4, ServedKeeps
<1>7. ASSUME NEW o \in Op, Cancel(o) PROVE AgentIInv'
  <2>1. pc[o] = "waiting" /\ HoldsLock(o) BY <1>7 DEF Cancel
  <2>2. /\ wants[o].task \in Task
        /\ Found(wants[o].task) =>
             status[wants[o].task] \notin {"pending", "running", "interrupted"}
    BY <1>5, <2>1
  <2>3. status' = status BY <1>7, <2>2 DEF Cancel
  <2> DEFINE t == wants[o].task
             a == IF Found(t) THEN status[t] ELSE "not found"
  <2>4. /\ Leave(o, "answered") /\ answer' = [answer EXCEPT ![o] = a]
        /\ UNCHANGED <<wants, agentSession, attached, tasks, said, model, agentBounds>>
    BY <1>7, <2>3 DEF Cancel
  <2>5. a \in Status \cup {"session", "not found"} /\ a \notin {"pending", "running", "interrupted"}
    BY <1>1, <2>2
  <2> HIDE DEF a
  <2>6. /\ answer' \in [Op -> Status \cup {"session", "not found"}]
        /\ \A q \in Op : answer'[q] \notin {"pending", "running", "interrupted"}
    BY <1>1, <2>4, <2>5
  <2> QED BY <1>1, <2>1, <2>3, <2>4, <2>6, ServedKeeps
<1> QED BY <1>2, <1>3, <1>4, <1>6, <1>7 DEF Serve

LEMMA WipeKeeps == ASSUME AgentIInv, Wipe PROVE AgentIInv'
<1> USE DEF AgentIInv
<1>1. /\ wipes < MaxWipes /\ wipes' = wipes + 1 /\ attached' = FALSE /\ tasks' = {}
      /\ UNCHANGED <<requests, agentSession, said, status, model, restarts>>
  BY DEF Wipe
<1>2. wipes' \in 0..MaxWipes
  <2>1. wipes \in 0..MaxWipes BY DEF AgentTypeOK
  <2>2. MaxWipes \in Nat BY AgentAssumption
  <2> QED BY <1>1, <2>1, <2>2
<1>3. AgentTypeOK' BY <1>1, <1>2 DEF AgentTypeOK, requests, model
<1>4. LineKept' /\ Memory'
  BY <1>1 DEF LineKept, HoldsLock, Memory, MemoryComplete, Conversation, requests
<1>5. Statuses' BY <1>1 DEF Statuses, TasksSeenFinished, requests, model
<1>6. Turns' BY <1>1 DEF Turns
<1> QED BY <1>3, <1>4, <1>5, <1>6

LEMMA RestartKeeps == ASSUME AgentIInv, Restart PROVE AgentIInv'
<1> USE DEF AgentIInv
<1>1. /\ restarts < MaxRestarts /\ restarts' = restarts + 1 /\ line' = <<>>
      /\ pc' = [r \in Request |-> IF pc[r] \in {"waiting"} \cup Running THEN "lost" ELSE pc[r]]
      /\ agentSession' = NewSession /\ said' = <<>> /\ attached' = FALSE /\ tasks' = {}
      /\ agent' = "none" /\ UNCHANGED <<wants, answer, status, tokens, aiText, wipes>>
  BY DEF Restart
<1>2. restarts' \in 0..MaxRestarts
  <2>1. restarts \in 0..MaxRestarts BY DEF AgentTypeOK
  <2>2. MaxRestarts \in Nat BY AgentAssumption
  <2> QED BY <1>1, <2>1, <2>2
<1>3. <<>> \in Seq(Message) /\ <<>> \in Seq(Request) /\ Len(<<>>) = 0 BY EmptySeq
<1>4. /\ NewSession \in Session /\ NewSession.summary = <<>> /\ NewSession.messages = <<>>
      /\ ConversationOf(NewSession) = <<>>
  BY <1>3, ConcatEmptySeq DEF NewSession, Session, ConversationOf
<1>5. 0 <= MAX_SESSION_MESSAGES /\ 0 <= MAX_SESSION_MESSAGES + 1 BY AgentAssumption
<1>6. /\ pc' \in [Request -> Places]
      /\ \A r \in Request : pc'[r] \notin Running
      /\ \A r \in Request : pc'[r] \in {"new", "waiting"} => pc[r] \in {"new", "waiting"}
      /\ \A r \in Request : pc'[r] # "new" => pc[r] # "new"
  <2>1. "lost" \in Places /\ "lost" \notin Running /\ "lost" \notin {"new", "waiting"}
        /\ "new" \notin Running
    BY DEF Places, Running
  <2>2. pc \in [Request -> Places] BY DEF AgentTypeOK, Places
  <2> QED BY <1>1, <2>1, <2>2
<1>7. Task \subseteq Request /\ Op \subseteq Request /\ Compacting \subseteq Running
  BY DEF Request, Compacting, Running
<1>8. AgentTypeOK'
  <2>1. Len(agentSession'.messages) <= MAX_SESSION_MESSAGES + 1 BY <1>1, <1>3, <1>4, <1>5
  <2>2. agentSession' \in Session /\ said' \in Seq(Message) /\ line' \in Seq(Request)
    BY <1>1, <1>3, <1>4
  <2> QED BY <1>1, <1>2, <1>6, <2>1, <2>2 DEF AgentTypeOK, Places, Session
<1>9. LineKept'
  <2>1. \A i \in 1..Len(line') : FALSE BY <1>1, <1>3
  <2>2. \A o \in Op : pc'[o] # "new" => wants'[o] \in Wish BY <1>1, <1>6, <1>7 DEF LineKept
  <2> QED BY <1>6, <2>1, <2>2 DEF LineKept
<1>10. Memory'
  <2>1. ConversationOf(agentSession') = said' /\ Len(agentSession'.messages) <= MAX_SESSION_MESSAGES
    BY <1>1, <1>3, <1>4, <1>5
  <2>2. \A t \in Task : pc'[t] \notin Compacting BY <1>6, <1>7
  <2> QED BY <2>1, <2>2, MemoryAtRest
<1>11. Statuses' BY <1>1, <1>6, <1>7 DEF Statuses, TasksSeenFinished
<1>12. Turns' BY <1>1 DEF Turns
<1> QED BY <1>8, <1>9, <1>10, <1>11, <1>12

(* withTenantLock, appendSessionMessage, compactSessionMemory and           *)
(* runWithStream together: a compaction, done or failed, keeps every        *)
(* message once; a succeeded turn left its question and answer side by      *)
(* side and a failed one no answer; nobody is told of a task under way.     *)
THEOREM AgentInvariantHolds == AgentSpec => []AgentInvariant
<1>1. AgentIInv /\ UNCHANGED agentVars => AgentIInv'
  <2> SUFFICES ASSUME AgentIInv, UNCHANGED agentVars PROVE AgentIInv' OBVIOUS
  <2> USE DEF AgentIInv
  <2>1. UNCHANGED <<requests, runtime, model, agentBounds>> BY DEF agentVars
  <2>2. AgentTypeOK' BY <2>1 DEF AgentTypeOK, requests, runtime, model, agentBounds
  <2>3. LineKept' BY <2>1 DEF LineKept, HoldsLock, requests
  <2>4. Memory' BY <2>1 DEF Memory, MemoryComplete, Conversation, requests, runtime
  <2>5. Statuses' BY <2>1 DEF Statuses, TasksSeenFinished, requests, runtime, model
  <2>6. Turns' BY <2>1 DEF Turns, Conversation, requests, runtime, model
  <2> QED BY <2>2, <2>3, <2>4, <2>5, <2>6
<1>2. AgentIInv /\ AgentNext => AgentIInv'
  BY ArriveKeeps, StartKeeps, InitAgentKeeps, TokenKeeps, StreamEndsKeeps, CompactedKeeps,
     CompactionFailsKeeps, OthersKeep, WipeKeeps, RestartKeeps
  DEF AgentNext, Progress, Step
<1>3. AgentIInv => AgentInvariant
  <2> SUFFICES ASSUME AgentIInv PROVE AgentInvariant OBVIOUS
  <2>1. TurnsAreWhole
    <3> SUFFICES ASSUME NEW t \in tasks, attached
                 PROVE  /\ status[t] = "success" => Paired(Conversation, t)
                        /\ status[t] = "error" => Unanswered(Conversation, t)
      BY DEF TurnsAreWhole, Paired, Unanswered
    <3>1. t \in Task BY DEF AgentIInv, AgentTypeOK
    <3>2. pc[t] \in Running => status[t] = "running" BY <3>1 DEF AgentIInv, Statuses
    <3>3. pc[t] \notin Running => Settled(status[t], Conversation, t) BY DEF AgentIInv, Turns
    <3> QED BY <3>2, <3>3 DEF Settled
  <2> QED BY <2>1 DEF AgentIInv, AgentInvariant, Memory, Statuses
<1> QED BY <1>1, <1>2, <1>3, InitiallyAgent, PTL DEF AgentSpec

(***************************************************************************)
(* The merchant app.                                                       *)
(***************************************************************************)

(* Outside "ready" nobody is logged in and nothing is under way; a login    *)
(* or an onboarding call is made without a session.                         *)
OneSession ==
    /\ phase # "ready" => authSession = None /\ authCall = "none" /\ writes = <<>>
    /\ authCall \in {"code", "login", "onboard"} => authSession = None
(* What is shown without a session is nobody's.                             *)
OwnData == ~late => \A v \in View : displayed[v] \in {None, authSession}
(* The last write under way, or else what is stored, is the session in use. *)
LastWrite ==
    (phase = "ready" /\ ~storageFailed) =>
        IF writes = <<>> THEN stored = authSession ELSE writes[Len(writes)] = authSession

OwnerIInv == AppTypeOK /\ OneSession /\ OwnData /\ LastWrite /\ SubmittingIsSending

\* The messages have the ids of what was sent.
Messages(c, n) == c \in Seq(Listed) /\ \A i \in 1..Len(c) : c[i].id \in 1..n

LEMMA NoMessages == ASSUME NEW c, c = <<>>, NEW n PROVE Messages(c, n)
<1>1. c \in Seq(Listed) /\ Len(c) = 0 BY EmptySeq
<1>2. 1..Len(c) = {} BY <1>1
<1> QED BY <1>1, <1>2 DEF Messages

(* The last element of a sequence that grows or loses its head.            *)
LEMMA LastOfAppend ==
    ASSUME NEW S, NEW q \in Seq(S), NEW e \in S
    PROVE  /\ Append(q, e) \in Seq(S) /\ Append(q, e) # <<>>
           /\ Append(q, e)[Len(Append(q, e))] = e
BY AppendProperties

LEMMA LastOfTail ==
    ASSUME NEW S, NEW q \in Seq(S), q # <<>>
    PROVE  /\ Head(q) \in S /\ Tail(q) \in Seq(S)
           /\ Tail(q) = <<>> => q[Len(q)] = Head(q)
           /\ Tail(q) # <<>> => Tail(q)[Len(Tail(q))] = q[Len(q)]
           /\ Len(q) = 1 => Tail(q) = <<>>
<1>1. /\ Head(q) \in S /\ Tail(q) \in Seq(S) /\ Len(Tail(q)) = Len(q) - 1
      /\ \A i \in 1..Len(Tail(q)) : Tail(q)[i] = q[i + 1]
  BY HeadTailProperties
<1>2. Len(q) \in Nat \ {0} /\ Len(Tail(q)) \in Nat BY <1>1, EmptySeq, LenProperties
<1>3. Tail(q) # <<>> => Len(Tail(q)) \in Nat \ {0} BY <1>1, EmptySeq
<1>4. Len(<<>>) = 0 BY EmptySeq
<1>5. Head(q) = q[1] OBVIOUS
<1>6. Tail(q) = <<>> => q[Len(q)] = Head(q) BY <1>1, <1>2, <1>4, <1>5
<1>7. Tail(q) # <<>> => Tail(q)[Len(Tail(q))] = q[Len(q)] BY <1>1, <1>2, <1>3
<1> QED BY <1>1, <1>2, <1>3, <1>6, <1>7

(* What the handlers share keeps.                                          *)
Bounded == logins \in 0..MaxLogins /\ sends \in 0..MaxSends /\ launches \in 0..MaxLaunches

LEMMA ResetKeeps ==
    ASSUME OwnerIInv, resetSessionScopedState
    PROVE  /\ displayed' \in [View -> Merchant \cup {None}]
           /\ late' = FALSE /\ draft' = FALSE /\ aiIntentSubmitting' = FALSE
           /\ chat' = <<>> /\ chatSendPhase' = "idle"
           /\ OwnData' /\ SubmittingIsSending'
<1>1. /\ displayed' = [v \in View |-> None] /\ late' = FALSE /\ draft' = FALSE
      /\ chat' = <<>> /\ aiIntentSubmitting' = FALSE /\ chatSendPhase' = "idle"
  BY DEF resetSessionScopedState
<1>2. OwnData' BY <1>1 DEF OwnData
<1>3. SubmittingIsSending' BY <1>1 DEF SubmittingIsSending
<1> QED BY <1>1, <1>2, <1>3

LEMMA ApplyKeeps ==
    ASSUME OwnerIInv, NEW m \in Merchant, applyAuthenticatedSession(m), authSession = None
    PROVE  /\ authSession' = m /\ pendingOnboarding' = FALSE
           /\ chat' = <<>> /\ draft' = FALSE /\ chatSendPhase' = "idle"
           /\ fetching' \in [View \X Merchant -> Nat]
           /\ UNCHANGED <<displayed, sending, aiIntentSubmitting, late>>
           /\ OwnData' /\ SubmittingIsSending'
<1>1. /\ authSession' = m /\ pendingOnboarding' = FALSE
      /\ chat' = <<>> /\ draft' = FALSE /\ chatSendPhase' = "idle"
      /\ fetching' = [f \in View \X Merchant |->
                        IF f[2] = m THEN fetching[f] + 1 ELSE fetching[f]]
      /\ UNCHANGED <<displayed, sending, aiIntentSubmitting, late>>
  BY DEF applyAuthenticatedSession
<1>2. fetching' \in [View \X Merchant -> Nat] BY <1>1 DEF OwnerIInv, AppTypeOK
<1>3. OwnData' BY <1>1 DEF OwnerIInv, OwnData
<1>4. SubmittingIsSending' BY <1>1 DEF SubmittingIsSending
<1> QED BY <1>1, <1>2, <1>3, <1>4

LEMMA InitiallyApp == AppInit => OwnerIInv
<1> SUFFICES ASSUME AppInit PROVE OwnerIInv OBVIOUS
<1>1. <<>> \in Seq(Merchant \cup {None}) BY EmptySeq
<1>2. 0 \in 0..MaxLogins /\ 0 \in 0..MaxSends /\ 0 \in 0..MaxLaunches BY AppAssumption
<1>3. AppTypeOK BY <1>1, <1>2, NoMessages DEF Messages, AppInit, AppTypeOK
<1>4. OneSession /\ OwnData /\ LastWrite /\ SubmittingIsSending
  BY DEF AppInit, OneSession, OwnData, LastWrite, SubmittingIsSending
<1> QED BY <1>3, <1>4 DEF OwnerIInv

(* What the owner does.                                                    *)
LEMMA OwnerKeeps == ASSUME OwnerIInv, Owner PROVE OwnerIInv'
<1> USE DEF OwnerIInv
<1>1. CASE LaunchApp
  <2>1. /\ phase = "closed" /\ phase' = "hydrating"
        /\ launches < MaxLaunches /\ launches' = launches + 1
        /\ UNCHANGED <<store, auth, data, talk, logins, sends, late>>
    BY <1>1 DEF LaunchApp
  <2>2. launches' \in 0..MaxLaunches BY <2>1, AppAssumption DEF AppTypeOK
  <2>3. AppTypeOK' BY <2>1, <2>2 DEF AppTypeOK, store, auth, data, talk
  <2>4. (OneSession /\ OwnData /\ LastWrite /\ SubmittingIsSending)'
    BY <2>1 DEF OneSession, OwnData, LastWrite, SubmittingIsSending, store, auth, data, talk
  <2> QED BY <2>3, <2>4
<1>2. CASE CloseApp
  <2>1. /\ phase' = "closed" /\ authSession' = None /\ pendingOnboarding' = FALSE
        /\ authCall' = "none" /\ resetSessionScopedState
        /\ fetching' = [f \in View \X Merchant |-> 0] /\ sending' = {}
        /\ writes' = <<>> /\ storageFailed' = (storageFailed \/ writes # <<>>)
        /\ UNCHANGED <<stored, appBounds>>
    BY <1>2 DEF CloseApp
  <2>2. <<>> \in Seq(Merchant \cup {None}) BY EmptySeq
  <2>3. AppTypeOK' BY <2>1, <2>2, ResetKeeps, NoMessages DEF Messages, AppTypeOK, appBounds
  <2>4. (OneSession /\ OwnData /\ LastWrite /\ SubmittingIsSending)'
    BY <2>1, ResetKeeps DEF OneSession, LastWrite
  <2> QED BY <2>3, <2>4
<1>3. CASE requestLoginCode \/ loginWithPhone \/ completeOnboarding
  <2>1. /\ phase = "ready" /\ authSession = None
        /\ authCall' \in {"code", "login", "onboard"}
        /\ logins < MaxLogins /\ logins' = logins + 1
        /\ UNCHANGED <<store, phase, authSession, pendingOnboarding, data, talk, sends,
                       launches, late>>
    BY <1>3 DEF requestLoginCode, loginWithPhone, completeOnboarding, OnLogin, Submit, AppTypeOK
  <2>2. logins' \in 0..MaxLogins BY <2>1, AppAssumption DEF AppTypeOK
  <2>3. AppTypeOK' BY <2>1, <2>2 DEF AppTypeOK, store, data, talk
  <2>4. (OneSession /\ OwnData /\ LastWrite /\ SubmittingIsSending)'
    BY <2>1 DEF OneSession, OwnData, LastWrite, SubmittingIsSending, store, data, talk
  <2> QED BY <2>3, <2>4
<1>4. CASE clearPendingOnboardingSession
  <2>1. /\ pendingOnboarding' = FALSE
        /\ UNCHANGED <<store, phase, authSession, authCall, data, talk, appBounds, late>>
    BY <1>4 DEF clearPendingOnboardingSession
  <2>2. AppTypeOK' BY <2>1 DEF AppTypeOK, store, data, talk, appBounds
  <2>3. (OneSession /\ OwnData /\ LastWrite /\ SubmittingIsSending)'
    BY <2>1 DEF OneSession, OwnData, LastWrite, SubmittingIsSending, store, data, talk
  <2> QED BY <2>2, <2>3
<1>5. CASE logout
  <2>1. /\ phase = "ready" /\ authSession # None /\ writes' = Append(writes, None)
        /\ authSession' = None /\ pendingOnboarding' = FALSE /\ resetSessionScopedState
        /\ UNCHANGED <<stored, storageFailed, phase, authCall, fetching, sending, appBounds>>
    BY <1>5 DEF logout, Write
  <2>2. /\ writes' \in Seq(Merchant \cup {None}) /\ writes' # <<>>
        /\ writes'[Len(writes')] = None
    <3>1. writes \in Seq(Merchant \cup {None}) /\ None \in Merchant \cup {None} BY DEF AppTypeOK
    <3> QED BY <2>1, <3>1, LastOfAppend
  <2>3. AppTypeOK' BY <2>1, <2>2, ResetKeeps, NoMessages DEF Messages, AppTypeOK, appBounds
  <2>4. (OneSession /\ OwnData /\ LastWrite /\ SubmittingIsSending)'
    BY <2>1, <2>2, ResetKeeps DEF OneSession, LastWrite
  <2> QED BY <2>3, <2>4
<1>6. CASE Refresh
  <2>1. /\ fetching' = [fetching EXCEPT ![<<"contract", authSession>>] = 1]
        /\ UNCHANGED <<store, phase, auth, displayed, talk, appBounds, late>>
    BY <1>6 DEF Refresh
  <2>2. fetching' \in [View \X Merchant -> Nat] BY <2>1 DEF AppTypeOK
  <2>3. AppTypeOK' BY <2>1, <2>2 DEF AppTypeOK, store, auth, talk, appBounds
  <2>4. (OneSession /\ OwnData /\ LastWrite /\ SubmittingIsSending)'
    BY <2>1 DEF OneSession, OwnData, LastWrite, SubmittingIsSending, store, auth, talk
  <2> QED BY <2>3, <2>4
<1>7. CASE setAiIntentDraft \/ onRetryMessage
  <2>1. /\ draft' = TRUE /\ chatSendPhase' \in {chatSendPhase, "idle"}
        /\ UNCHANGED <<store, phase, auth, data, chat, sending, aiIntentSubmitting, appBounds,
                       late>>
    BY <1>7 DEF setAiIntentDraft, onRetryMessage
  <2>2. AppTypeOK' BY <2>1 DEF AppTypeOK, store, auth, data, appBounds
  <2>3. (OneSession /\ OwnData /\ LastWrite)'
    BY <2>1 DEF OneSession, OwnData, LastWrite, store, auth, data
  <2>4. SubmittingIsSending' BY <2>1 DEF SubmittingIsSending
  <2> QED BY <2>2, <2>3, <2>4
<1>8. CASE onSendAgentMessage
  <2>1. /\ sends < MaxSends /\ sends' = sends + 1
        /\ draft' = FALSE /\ chatSendPhase' = "submitting" /\ aiIntentSubmitting' = TRUE
        /\ chat' = Append(chat, [id |-> sends', status |-> "sending"])
        /\ sending' = sending \cup {sends'}
        /\ UNCHANGED <<store, phase, auth, data, logins, launches, late>>
    BY <1>8 DEF onSendAgentMessage
  <2> DEFINE m == [id |-> sends', status |-> "sending"]
  <2>2. sends' \in 0..MaxSends /\ sends' \in 1..sends' /\ 1..sends \subseteq 1..sends'
    BY <2>1, AppAssumption DEF AppTypeOK
  <2>3. m \in Listed /\ m.id = sends' /\ m.status = "sending" BY <2>2 DEF Listed
  <2>4. chat \in Seq(Listed) /\ \A i \in 1..Len(chat) : chat[i].id \in 1..sends
    BY DEF AppTypeOK
  <2> HIDE DEF m
  <2>5. /\ chat' \in Seq(Listed) /\ Len(chat') = Len(chat) + 1 /\ Len(chat) \in Nat
        /\ chat'[Len(chat) + 1] = m /\ \A i \in 1..Len(chat) : chat'[i] = chat[i]
    <3>1. chat' = Append(chat, m) BY <2>1 DEF m
    <3> QED BY <2>3, <2>4, <3>1, AppendProperties, LenProperties
  <2>6. \A i \in 1..Len(chat') : chat'[i].id \in 1..sends'
    <3> TAKE i \in 1..Len(chat')
    <3>1. CASE i = Len(chat) + 1 BY <2>2, <2>3, <2>5, <3>1
    <3>2. CASE i # Len(chat) + 1
      <4>1. i \in 1..Len(chat) BY <2>5, <3>2
      <4> QED BY <2>2, <2>4, <2>5, <4>1
    <3> QED BY <3>1, <3>2
  <2>7. sending' \subseteq 1..sends' BY <2>1, <2>2 DEF AppTypeOK
  <2>8. AppTypeOK' BY <2>1, <2>2, <2>5, <2>6, <2>7 DEF AppTypeOK, store, auth, data
  <2>9. SubmittingIsSending'
    <3>1. Len(chat) + 1 \in 1..Len(chat') BY <2>5
    <3>2. chat'[Len(chat) + 1].status = "sending" /\ chat'[Len(chat) + 1].id \in sending'
      BY <2>1, <2>3, <2>5
    <3> QED BY <3>1, <3>2 DEF SubmittingIsSending
  <2>10. (OneSession /\ OwnData /\ LastWrite)'
    BY <2>1 DEF OneSession, OwnData, LastWrite, store, auth, data
  <2> QED BY <2>8, <2>9, <2>10
<1> QED BY <1>1, <1>2, <1>3, <1>4, <1>5, <1>6, <1>7, <1>8 DEF Owner

(* What the device and the server answer.                                  *)
LEMMA OwnerAnswersKeep == ASSUME OwnerIInv, OwnerAnswers PROVE OwnerIInv'
<1> USE DEF OwnerIInv
<1>1. CASE Hydrated
  <2>1. /\ phase = "hydrating" /\ stored # None /\ phase' = "ready"
        /\ applyAuthenticatedSession(stored)
        /\ UNCHANGED <<store, authCall, appBounds>>
    BY <1>1 DEF Hydrated
  <2>2. stored \in Merchant /\ authSession = None /\ authCall = "none" /\ writes = <<>>
    BY <2>1 DEF AppTypeOK, OneSession
  <2>3. /\ authSession' = stored /\ pendingOnboarding' = FALSE
        /\ chat' = <<>> /\ draft' = FALSE /\ chatSendPhase' = "idle"
        /\ fetching' \in [View \X Merchant -> Nat]
        /\ UNCHANGED <<displayed, sending, aiIntentSubmitting, late>>
        /\ OwnData' /\ SubmittingIsSending'
    BY <2>1, <2>2, ApplyKeeps
  <2>4. AppTypeOK' BY <2>1, <2>2, <2>3, NoMessages DEF Messages, AppTypeOK, store, appBounds
  <2>5. OneSession' /\ LastWrite' BY <2>1, <2>2, <2>3 DEF OneSession, LastWrite, store
  <2> QED BY <2>3, <2>4, <2>5
<1>2. CASE HydrateEmpty
  <2>1. /\ phase = "hydrating" /\ stored = None /\ phase' = "ready"
        /\ UNCHANGED <<store, auth, data, talk, appBounds, late>>
    BY <1>2 DEF HydrateEmpty
  <2>2. authSession = None /\ authCall = "none" /\ writes = <<>> BY <2>1 DEF OneSession
  <2>3. AppTypeOK' BY <2>1 DEF AppTypeOK, store, auth, data, talk, appBounds
  <2>4. (OneSession /\ OwnData /\ LastWrite /\ SubmittingIsSending)'
    BY <2>1, <2>2 DEF OneSession, OwnData, LastWrite, SubmittingIsSending, store, auth, data, talk
  <2> QED BY <2>3, <2>4
<1>3. CASE HydrateFails
  <2>1. /\ phase = "hydrating" /\ phase' = "ready"
        /\ \/ stored' = None /\ UNCHANGED storageFailed
           \/ storageFailed' = TRUE /\ UNCHANGED stored
        /\ authSession' = None /\ pendingOnboarding' = FALSE /\ resetSessionScopedState
        /\ UNCHANGED <<writes, authCall, fetching, sending, appBounds>>
    BY <1>3 DEF HydrateFails
  <2>2. writes = <<>> BY <2>1 DEF OneSession
  <2>3. AppTypeOK' BY <2>1, ResetKeeps, NoMessages DEF Messages, AppTypeOK, appBounds
  <2>4. (OneSession /\ OwnData /\ LastWrite /\ SubmittingIsSending)'
    BY <2>1, <2>2, ResetKeeps DEF OneSession, LastWrite
  <2> QED BY <2>3, <2>4
<1>4. CASE CallEnds
  <2>1. /\ authCall' = "none"
        /\ UNCHANGED <<store, phase, authSession, pendingOnboarding, data, talk, appBounds, late>>
    BY <1>4 DEF CallEnds
  <2>2. AppTypeOK' BY <2>1 DEF AppTypeOK, store, data, talk, appBounds
  <2>3. (OneSession /\ OwnData /\ LastWrite /\ SubmittingIsSending)'
    BY <2>1 DEF OneSession, OwnData, LastWrite, SubmittingIsSending, store, data, talk
  <2> QED BY <2>2, <2>3
<1>5. CASE OnboardRequired
  <2>1. /\ authCall = "login" /\ authCall' = "none"
        /\ \/ stored' = None /\ UNCHANGED storageFailed
           \/ storageFailed' = TRUE /\ UNCHANGED stored
        /\ authSession' = None /\ pendingOnboarding' = TRUE /\ resetSessionScopedState
        /\ UNCHANGED <<writes, phase, fetching, sending, appBounds>>
    BY <1>5 DEF OnboardRequired
  <2>2. authSession = None /\ phase = "ready" BY <2>1 DEF OneSession
  <2>3. AppTypeOK' BY <2>1, ResetKeeps, NoMessages DEF Messages, AppTypeOK, appBounds
  <2>4. (OneSession /\ OwnData /\ SubmittingIsSending)'
    BY <2>1, <2>2, ResetKeeps DEF OneSession
  <2>5. LastWrite'
    <3>1. CASE storageFailed' BY <3>1 DEF LastWrite
    <3>2. CASE ~storageFailed'
      <4>1. stored' = None /\ ~storageFailed BY <2>1, <3>2
      <4> QED BY <2>1, <2>2, <4>1 DEF LastWrite
    <3> QED BY <3>1, <3>2
  <2> QED BY <2>3, <2>4, <2>5
<1>6. ASSUME NEW m \in Merchant, OwnerLoggedIn(m) PROVE OwnerIInv'
  <2>1. /\ authCall \in {"login", "onboard"} /\ authCall' = "save"
        /\ applyAuthenticatedSession(m) /\ writes' = Append(writes, m)
        /\ UNCHANGED <<stored, storageFailed, phase, appBounds>>
    BY <1>6 DEF OwnerLoggedIn, Write
  <2>2. authSession = None /\ phase = "ready" BY <2>1 DEF OneSession
  <2>3. /\ authSession' = m /\ pendingOnboarding' = FALSE
        /\ chat' = <<>> /\ draft' = FALSE /\ chatSendPhase' = "idle"
        /\ fetching' \in [View \X Merchant -> Nat]
        /\ UNCHANGED <<displayed, sending, aiIntentSubmitting, late>>
        /\ OwnData' /\ SubmittingIsSending'
    BY <2>1, <2>2, ApplyKeeps
  <2>4. /\ writes' \in Seq(Merchant \cup {None}) /\ writes' # <<>>
        /\ writes'[Len(writes')] = m
    <3>1. writes \in Seq(Merchant \cup {None}) /\ m \in Merchant \cup {None} BY DEF AppTypeOK
    <3> QED BY <2>1, <3>1, LastOfAppend
  <2>5. AppTypeOK' BY <2>1, <2>3, <2>4, NoMessages DEF Messages, AppTypeOK, appBounds
  <2>6. OneSession' /\ LastWrite' BY <2>1, <2>2, <2>3, <2>4 DEF OneSession, LastWrite
  <2> QED BY <2>3, <2>5, <2>6
<1>7. ASSUME NEW ok \in BOOLEAN, StorageDone(ok) PROVE OwnerIInv'
  <2>1. /\ writes # <<>> /\ stored' = (IF ok THEN Head(writes) ELSE stored)
        /\ storageFailed' = (storageFailed \/ ~ok) /\ writes' = Tail(writes)
        /\ authCall' \in {authCall, "none"}
        /\ UNCHANGED <<phase, authSession, pendingOnboarding, data, talk, appBounds, late>>
    BY <1>7 DEF StorageDone
  <2>2. /\ Head(writes) \in Merchant \cup {None} /\ writes' \in Seq(Merchant \cup {None})
        /\ writes' = <<>> => writes[Len(writes)] = Head(writes)
        /\ writes' # <<>> => writes'[Len(writes')] = writes[Len(writes)]
    <3>1. writes \in Seq(Merchant \cup {None}) BY DEF AppTypeOK
    <3> QED BY <2>1, <3>1, LastOfTail
  <2>3. AppTypeOK' BY <2>1, <2>2 DEF AppTypeOK, data, talk, appBounds
  <2>4. (OneSession /\ OwnData /\ SubmittingIsSending)'
    BY <2>1 DEF OneSession, OwnData, SubmittingIsSending, data, talk
  <2>5. LastWrite' BY <2>1, <2>2 DEF LastWrite
  <2> QED BY <2>3, <2>4, <2>5
<1>8. ASSUME NEW v \in View, NEW m \in Merchant, NEW ok \in BOOLEAN, Fetched(v, m, ok)
      PROVE  OwnerIInv'
  <2>1. /\ fetching[<<v, m>>] > 0 /\ fetching' = [fetching EXCEPT ![<<v, m>>] = @ - 1]
        /\ displayed' = (IF ok THEN [displayed EXCEPT ![v] = m] ELSE displayed)
        /\ late' = (late \/ (ok /\ m # authSession))
        /\ UNCHANGED <<store, phase, auth, talk, appBounds>>
    BY <1>8 DEF Fetched
  <2>2. fetching' \in [View \X Merchant -> Nat]
    <3>1. <<v, m>> \in View \X Merchant OBVIOUS
    <3>2. fetching[<<v, m>>] \in Nat BY <3>1 DEF AppTypeOK
    <3>3. fetching[<<v, m>>] - 1 \in Nat BY <2>1, <3>2
    <3> QED BY <2>1, <3>1, <3>3 DEF AppTypeOK
  <2>3. displayed' \in [View -> Merchant \cup {None}] BY <2>1 DEF AppTypeOK
  <2>4. AppTypeOK' BY <2>1, <2>2, <2>3 DEF AppTypeOK, store, auth, talk, appBounds
  <2>5. OwnData' BY <2>1 DEF OwnData, auth, AppTypeOK
  <2>6. (OneSession /\ LastWrite /\ SubmittingIsSending)'
    BY <2>1 DEF OneSession, LastWrite, SubmittingIsSending, store, auth, talk
  <2> QED BY <2>4, <2>5, <2>6
<1> QED BY <1>1, <1>2, <1>3, <1>4, <1>5, <1>6, <1>7, <1>8 DEF OwnerAnswers

(* What the agent answers.                                                 *)
LEMMA ChatAnswerKeeps == ASSUME OwnerIInv, ChatAnswer PROVE OwnerIInv'
<1> USE DEF OwnerIInv
<1>1. PICK id \in sending, ok \in BOOLEAN : Answered(id, ok) BY DEF ChatAnswer
<1> DEFINE mark == IF ok THEN "sent" ELSE "failed"
           after(i) == IF chat[i].id = id THEN [chat[i] EXCEPT !.status = mark] ELSE chat[i]
<1>2. /\ sending' = sending \ {id} /\ chat' = [i \in 1..Len(chat) |-> after(i)]
      /\ chatSendPhase' \in {"idle", "failed"} /\ aiIntentSubmitting' = FALSE
      /\ UNCHANGED <<store, phase, auth, data, draft, appBounds, late>>
  BY <1>1 DEF Answered
<1>3. chat \in Seq(Listed) /\ Len(chat) \in Nat /\ \A i \in 1..Len(chat) : chat[i] \in Listed
  BY LenProperties, ElementOfSeq DEF AppTypeOK
<1>4. \A i \in 1..Len(chat) : after(i) \in Listed /\ after(i).id = chat[i].id
  BY <1>3 DEF Listed
<1> HIDE DEF after
<1>5. chat' \in Seq(Listed) /\ Len(chat') = Len(chat) BY <1>2, <1>3, <1>4
<1>6. AppTypeOK'
  BY <1>2, <1>4, <1>5 DEF AppTypeOK, store, auth, data, appBounds
<1>7. (OneSession /\ OwnData /\ LastWrite)'
  BY <1>2 DEF OneSession, OwnData, LastWrite, store, auth, data
<1>8. SubmittingIsSending' BY <1>2 DEF SubmittingIsSending
<1> QED BY <1>6, <1>7, <1>8

(* resetSessionScopedState, applyAuthenticatedSession, loginWithPhone,     *)
(* logout and onSendAgentMessage together: a session shows no other        *)
(* store's data unless a fetch was answered late, the device keeps the     *)
(* session in use, and the chat submits only while a message of it waits.  *)
THEOREM MerchantAppInvariantHolds == AppSpec => []MerchantAppInvariant
<1>1. OwnerIInv /\ UNCHANGED appVars => OwnerIInv'
  BY DEF OwnerIInv, AppTypeOK, OneSession, OwnData, LastWrite, SubmittingIsSending,
         appVars, store, auth, data, talk, appBounds
<1>2. OwnerIInv /\ [AppNext]_appVars => OwnerIInv'
  BY <1>1, OwnerKeeps, OwnerAnswersKeep, ChatAnswerKeeps DEF AppNext
<1>3. OwnerIInv => MerchantAppInvariant
  <2> SUFFICES ASSUME OwnerIInv PROVE MerchantAppInvariant OBVIOUS
  <2>1. StoreDataIsOwn BY DEF OwnerIInv, OwnData, StoreDataIsOwn
  <2>2. StoredSessionIsCurrent BY DEF OwnerIInv, LastWrite, StoredSessionIsCurrent
  <2> QED BY <2>1, <2>2 DEF OwnerIInv, MerchantAppInvariant
<1> QED BY <1>2, <1>3, InitiallyApp, PTL DEF AppSpec

(***************************************************************************)
(* The mini program.                                                       *)
(***************************************************************************)

IsCall(c) == c = [id |-> c.id, kind |-> c.kind, store |-> c.store, at |-> c.at,
                  token |-> c.token, from |-> c.from, load |-> c.load, user |-> c.user]
Own(c) == IsCall(c) /\ c.token \in {None, c.store}
IsPayment(c) == c.kind = "pay" /\ c.from = "index"
Payments(cs) == {c \in cs : IsPayment(c)}

(* Calls are records with their own store's token.                         *)
OwnCalls(cs) == \A c \in cs : Own(c)
(* The page's flag and its payment under way, one at most.                 *)
PayOne(cs, flag) ==
    /\ flag = (\E c \in cs : IsPayment(c))
    /\ \A c, d \in cs : IsPayment(c) /\ IsPayment(d) => c = d

(* A closed program has no calls: that is why one that starts, with a page *)
(* that does not pay, has no payment of an earlier page.                   *)
IInv == /\ OwnCalls(calls)
        /\ page = "closed" => calls = {}
        /\ PayOne(calls, paying)

(* The call whose login has answered.                                      *)
Logged(c) == [c EXCEPT !.at = "request", !.token = c.store]

(* It carries its own store's token, and pays if it paid before.           *)
LEMMA LoggedInOwn ==
    ASSUME NEW c, IsCall(c)
    PROVE  Own(Logged(c)) /\ (IsPayment(Logged(c)) <=> IsPayment(c))
<1> DEFINE s == c.store
           b == [c EXCEPT !.at = "request"]
           d == [b EXCEPT !.token = s]
<1>1. Logged(c) = d BY DEF Logged
<1>2. IsCall(b) /\ b.store = s /\ b.kind = c.kind /\ b.from = c.from BY DEF IsCall
<1>3. IsCall(d) /\ d.token = s /\ d.store = s /\ d.kind = c.kind /\ d.from = c.from
  <2> HIDE DEF b, s
  <2> QED BY <1>2 DEF IsCall
<1> HIDE DEF d, s
<1> QED BY <1>1, <1>3 DEF Own, IsPayment

(* What With adds is one call, as it was asked for.                        *)
LEMMA WithAdds ==
    ASSUME NEW cs, NEW kind, NEW m, NEW from, NEW user
    PROVE  \E c : /\ With(cs, kind, m, from, user) = cs \cup {c}
                  /\ Own(c) /\ c.kind = kind /\ c.from = from
<1> DEFINE s == IF kind = "exists" THEN [at |-> "request", token |-> None] ELSE ensureCustomerSession(m)
           id == CHOOSE i \in FreeIds(cs) : \A j \in FreeIds(cs) : i <= j
           c == [id |-> id, kind |-> kind, store |-> m, at |-> s.at, token |-> s.token,
                 from |-> from, load |-> taps', user |-> user]
<1>1. s.token \in {None, m} BY DEF ensureCustomerSession
<1>2. With(cs, kind, m, from, user) = cs \cup {c} BY DEF With
<1>3. c.kind = kind /\ c.from = from /\ c.store = m /\ c.token = s.token OBVIOUS
<1>4. IsCall(c)
  <2> HIDE DEF s, id
  <2> QED BY DEF IsCall
<1>5. Own(c) BY <1>1, <1>3, <1>4 DEF Own
<1> HIDE DEF c
<1> QED BY <1>2, <1>3, <1>5

(* A call that is no payment of the home page leaves the payments alone.   *)
LEMMA WithKeeps ==
    ASSUME NEW cs, NEW kind, NEW m, NEW from, NEW user, NEW flag,
           OwnCalls(cs), PayOne(cs, flag), kind # "pay" \/ from # "index"
    PROVE  /\ OwnCalls(With(cs, kind, m, from, user))
           /\ PayOne(With(cs, kind, m, from, user), flag)
<1>1. PICK c : /\ With(cs, kind, m, from, user) = cs \cup {c}
               /\ Own(c) /\ c.kind = kind /\ c.from = from
  BY WithAdds
<1>2. ~IsPayment(c) BY <1>1 DEF IsPayment
<1>3. OwnCalls(cs \cup {c}) BY <1>1 DEF OwnCalls
<1>4. PayOne(cs \cup {c}, flag)
  <2>1. (\E d \in cs \cup {c} : IsPayment(d)) <=> (\E d \in cs : IsPayment(d)) BY <1>2
  <2> QED BY <1>2, <2>1, Zenon DEF PayOne
<1> QED BY <1>1, <1>3, <1>4

(* Calls that end and are no payment of the home page leave it alone.      *)
LEMMA WithoutKeeps ==
    ASSUME NEW cs, NEW ended, NEW flag,
           OwnCalls(cs), PayOne(cs, flag), \A c \in ended : ~IsPayment(c)
    PROVE  OwnCalls(cs \ ended) /\ PayOne(cs \ ended, flag)
<1>1. OwnCalls(cs \ ended) BY DEF OwnCalls
<1>2. (\E d \in cs \ ended : IsPayment(d)) <=> (\E d \in cs : IsPayment(d)) OBVIOUS
<1>3. PayOne(cs \ ended, flag) BY <1>2, Zenon DEF PayOne
<1> QED BY <1>1, <1>3

(* Where the home page is gone none of its payments is left.               *)
LEMMA UnmountedHasNone ==
    ASSUME NEW cs, NEW gone, OwnCalls(cs), "index" \in gone
    PROVE  OwnCalls(Unmounted(cs, gone)) /\ PayOne(Unmounted(cs, gone), FALSE)
<1>1. \A c \in cs : /\ Own([c EXCEPT !.from = "gone"])
                    /\ [c EXCEPT !.from = "gone"].from = "gone"
  BY DEF OwnCalls, Own, IsCall
<1>2. OwnCalls(Unmounted(cs, gone)) BY <1>1 DEF OwnCalls, Unmounted
<1>3. \A c \in Unmounted(cs, gone) : ~IsPayment(c)
  BY <1>1 DEF Unmounted, IsPayment
<1>4. PayOne(Unmounted(cs, gone), FALSE) BY <1>3 DEF PayOne
<1> QED BY <1>2, <1>4

(* A page that is replaced by the startup page or the home page.           *)
LEMMA BootstrapKeeps ==
    ASSUME NEW entry, NEW cs, OwnCalls(cs), PayOne(cs, FALSE), Bootstrap(entry, cs)
    PROVE  OwnCalls(calls') /\ page' # "closed" /\ PayOne(calls', paying')
<1>1. ~paying' /\ paying' = FALSE BY DEF Bootstrap, Fresh
<1>2. CASE entry # None
  <2>1. page' = "boot" /\ calls' = With(cs, "exists", entry, "boot", None)
    BY <1>2 DEF Bootstrap
  <2> QED BY <1>1, <2>1, WithKeeps
<1>3. CASE entry = None /\ lastStore' # None
  <2>1. page' = "boot" /\ calls' = With(cs, "exists", lastStore', "last", None)
    BY <1>3 DEF Bootstrap
  <2> QED BY <1>1, <2>1, WithKeeps
<1>4. CASE entry = None /\ lastStore' = None
  <2>1. page' = "scan" /\ calls' = cs BY <1>4 DEF Bootstrap
  <2> QED BY <1>1, <2>1
<1> QED BY <1>2, <1>3, <1>4

LEMMA Initially == Init => IInv
BY DEF Init, IInv, OwnCalls, PayOne

(* What the customer does.                                                 *)
LEMMA CustomerKeeps == IInv /\ Customer => IInv'
<1> SUFFICES ASSUME IInv, Customer PROVE IInv'
  OBVIOUS
<1> USE DEF IInv
<1>1. ASSUME NEW entry \in Store, Launch(entry) PROVE IInv'
  <2>1. PayOne({}, FALSE) /\ OwnCalls({}) BY DEF PayOne, OwnCalls
  <2>2. calls = {} /\ Bootstrap(entry, calls) BY <1>1 DEF Launch
  <2> QED BY <2>1, <2>2, BootstrapKeeps
<1>2. ASSUME Close PROVE IInv'
  BY <1>2 DEF Close, Fresh, OwnCalls, PayOne
<1>3. ASSUME NEW m \in Merchant, handleScan(m) PROVE IInv'
  <2>1. /\ calls' = With(calls, "exists", m, "scan", None)
        /\ paying' = paying /\ page' # "closed"
    BY <1>3 DEF handleScan, pages
  <2> QED BY <2>1, WithKeeps
<1>4. ASSUME loadSnapshot PROVE IInv'
  <2>1. /\ calls' = With(calls, "snapshot", storeId["index"], "index", None)
        /\ paying' = paying /\ page' # "closed"
    BY <1>4 DEF loadSnapshot, pages
  <2> QED BY <2>1, WithKeeps
<1>5. ASSUME handlePay PROVE IInv'
  <2>1. /\ calls' = With(calls, "pay", storeId["index"], "index", None)
        /\ ~paying /\ paying' = TRUE /\ page' # "closed"
    BY <1>5 DEF handlePay
  <2>2. PICK c : calls' = calls \cup {c} /\ Own(c) /\ c.kind = "pay" /\ c.from = "index"
    BY <2>1, WithAdds
  <2>3. \A d \in calls : ~IsPayment(d) BY <2>1 DEF PayOne
  <2>4. IsPayment(c) BY <2>2 DEF IsPayment
  <2>5. PayOne(calls', paying') BY <2>1, <2>2, <2>3, <2>4 DEF PayOne
  <2>6. OwnCalls(calls') BY <2>2 DEF OwnCalls
  <2> QED BY <2>1, <2>5, <2>6
<1>6. ASSUME NEW m, page = "account" \/ page = "index", calls' = LoadCalls(m),
             paying' = paying, page' # "closed"
      PROVE  IInv'
  <2> DEFINE home == With(calls, "home", m, "account", None)
  <2>1. OwnCalls(home) /\ PayOne(home, paying) BY WithKeeps
  <2>2. calls' = With(home, "read", m, "account", None) BY <1>6 DEF LoadCalls
  <2> HIDE DEF home
  <2>3. OwnCalls(calls') /\ PayOne(calls', paying) BY <2>1, <2>2, WithKeeps
  <2> QED BY <1>6, <2>3
<1>7. ASSUME handleOpenAccount PROVE IInv'
  BY <1>6, <1>7 DEF handleOpenAccount
<1>8. ASSUME loadData PROVE IInv'
  BY <1>6, <1>8 DEF loadData, pages
<1>9. ASSUME Back PROVE IInv'
  <2>1. /\ calls' = Unmounted(calls, {"account"})
        /\ paying' = paying /\ page' # "closed"
    BY <1>9 DEF Back
  <2>2. \A c \in calls : /\ Own([c EXCEPT !.from = "gone"])
                         /\ [c EXCEPT !.from = "gone"].from = "gone"
    BY DEF OwnCalls, Own, IsCall
  <2>3. OwnCalls(calls') BY <2>1, <2>2 DEF Unmounted, OwnCalls
  <2>4. \A c : (c \in calls' /\ IsPayment(c)) <=> (c \in calls /\ IsPayment(c))
    BY <2>1, <2>2 DEF Unmounted, IsPayment
  <2>5. PayOne(calls', paying) BY <2>4, Zenon DEF PayOne
  <2> QED BY <2>1, <2>3, <2>5
<1>10. ASSUME Save PROVE IInv'
  <2>1. /\ calls' = With(calls, "write", storeId["account"], "account", None)
        /\ paying' = paying /\ page' # "closed"
    BY <1>10 DEF Save, pages
  <2> QED BY <2>1, WithKeeps
<1>11. ASSUME handleCancelAccount PROVE IInv'
  <2>1. paying' = paying /\ page' # "closed" BY <1>11 DEF handleCancelAccount
  <2>2. CASE calls' = calls BY <2>1, <2>2
  <2>3. ASSUME NEW user, calls' = With(calls, "cancel", storeId["account"], "account", user)
        PROVE  IInv'
    BY <2>1, <2>3, WithKeeps
  <2>4. calls' = calls \/ \E user : calls' = With(calls, "cancel", storeId["account"], "account", user)
    BY <1>11 DEF handleCancelAccount
  <2> QED BY <2>2, <2>3, <2>4
<1> QED BY <1>1, <1>2, <1>3, <1>4, <1>5, <1>7, <1>8, <1>9, <1>10, <1>11 DEF Customer

(* What an answer does: no page is closed while a call is under way.       *)
LEMMA AnswerKeeps == IInv /\ Answer => IInv'
<1> SUFFICES ASSUME IInv, NEW c \in calls,
                    \/ LoggedIn(c) \/ Exists(c) \/ ExistsNot(c) \/ ExistsFails(c)
                    \/ Cancelled(c) \/ CancelFails(c)
                    \/ \E ok \in BOOLEAN :
                          Prefetched(c, ok) \/ SnapshotEnds(c, ok) \/ PaymentEnds(c, ok)
                          \/ DataEnds(c, ok) \/ InformingEnds(c, ok)
             PROVE  IInv'
  BY DEF Answer
<1> USE DEF IInv
<1>0. page # "closed" OBVIOUS
<1>a. ASSUME NEW ended, \A d \in ended : ~IsPayment(d), NEW kind, kind # "pay",
             calls' = calls \ ended
             \/ \E m, from, user : calls' = With(calls \ ended, kind, m, from, user),
             paying' = paying, page' # "closed"
      PROVE  IInv'
  <2>1. OwnCalls(calls \ ended) /\ PayOne(calls \ ended, paying) BY <1>a, WithoutKeeps
  <2>2. CASE calls' = calls \ ended BY <1>a, <2>1, <2>2
  <2>3. ASSUME NEW m, NEW from, NEW user, calls' = With(calls \ ended, kind, m, from, user)
        PROVE  IInv'
    BY <1>a, <2>1, <2>3, WithKeeps
  <2> QED BY <1>a, <2>2, <2>3
<1>1. ASSUME LoggedIn(c) PROVE IInv'
  <2>1. calls' = (calls \ {c}) \cup {Logged(c)} /\ paying' = paying /\ page' = page
    BY <1>1 DEF LoggedIn, Logged, pages
  <2>2. Own(Logged(c)) /\ (IsPayment(Logged(c)) <=> IsPayment(c))
    BY LoggedInOwn DEF OwnCalls, Own
  <2>3. OwnCalls(calls') BY <2>1, <2>2 DEF OwnCalls
  <2>4. (\E e \in calls' : IsPayment(e)) <=> (\E e \in calls : IsPayment(e)) BY <2>1, <2>2
  <2>5. \A e, f \in calls' : IsPayment(e) /\ IsPayment(f) => e = f BY <2>1, <2>2 DEF PayOne
  <2>6. PayOne(calls', paying) BY <2>4, <2>5, Zenon DEF PayOne
  <2> QED BY <1>0, <2>1, <2>3, <2>6
<1>2. ASSUME Exists(c) PROVE IInv'
  <2>1. /\ calls' = With(calls \ {c}, "prefetch", c.store, c.from, None)
        /\ paying' = paying /\ page' = page /\ ~IsPayment(c)
    BY <1>2 DEF Exists, pages, IsPayment
  <2> QED BY <1>0, <1>a, <2>1
<1>3. ASSUME ExistsNot(c) \/ ExistsFails(c) PROVE IInv'
  <2>1. /\ calls' = calls \ {c} /\ paying' = paying /\ ~IsPayment(c)
        /\ page' \in {page, "scan"}
    BY <1>3 DEF ExistsNot, ExistsFails, ReadyForScan, IsPayment
  <2> QED BY <1>0, <1>a, <2>1
<1>4. ASSUME NEW ok \in BOOLEAN, Prefetched(c, ok) PROVE IInv'
  <2> DEFINE cs == Unmounted(calls \ {c}, {"index", "account"})
  <2>1. OwnCalls(calls \ {c}) BY DEF OwnCalls
  <2>2. OwnCalls(cs) /\ PayOne(cs, FALSE) BY <2>1, UnmountedHasNone
  <2>3. IndexPage(cs) BY <1>4 DEF Prefetched
  <2> HIDE DEF cs
  <2>4. CASE lastStore = None
    <3>1. Bootstrap(None, cs) BY <2>3, <2>4 DEF IndexPage
    <3> QED BY <2>2, <3>1, BootstrapKeeps
  <2>5. CASE lastStore # None
    <3>1. /\ page' = "index" /\ paying' = FALSE
          /\ calls' = With(cs, "snapshot", lastStore, "index", None)
      BY <2>3, <2>5 DEF IndexPage, Fresh
    <3> QED BY <2>2, <3>1, WithKeeps
  <2> QED BY <2>4, <2>5
<1>5. ASSUME NEW ok \in BOOLEAN, SnapshotEnds(c, ok) PROVE IInv'
  <2>1. /\ calls' = calls \ {c} \/ calls' = With(calls \ {c}, "info", c.store, c.from, None)
        /\ paying' = paying /\ page' = page /\ ~IsPayment(c)
    BY <1>5 DEF SnapshotEnds, IsPayment
  <2>2. \A d \in {c} : ~IsPayment(d) BY <2>1
  <2>3. CASE calls' = calls \ {c} BY <1>0, <1>a, <2>1, <2>2, <2>3
  <2>4. CASE calls' = With(calls \ {c}, "info", c.store, c.from, None)
    <3>1. OwnCalls(calls \ {c}) /\ PayOne(calls \ {c}, paying) BY <2>2, WithoutKeeps
    <3>2. OwnCalls(calls') /\ PayOne(calls', paying) BY <2>4, <3>1, WithKeeps
    <3> QED BY <1>0, <2>1, <3>2
  <2> QED BY <2>1, <2>3, <2>4
<1>6. ASSUME NEW ok \in BOOLEAN, PaymentEnds(c, ok) PROVE IInv'
  <2>1. /\ calls' = calls \ {c} \/ calls' = With(calls \ {c}, "info", c.store, c.from, None)
        /\ paying' = (paying /\ c.from # "index") /\ page' = page /\ c.kind = "pay"
    BY <1>6 DEF PaymentEnds
  <2>2. OwnCalls(calls \ {c}) /\ PayOne(calls \ {c}, paying')
    <3>1. CASE c.from = "index"
      <4>1. IsPayment(c) /\ ~paying' /\ paying' = FALSE BY <2>1, <3>1 DEF IsPayment
      <4>2. \A d \in calls \ {c} : ~IsPayment(d) BY <4>1 DEF PayOne
      <4> QED BY <4>1, <4>2 DEF PayOne, OwnCalls
    <3>2. CASE c.from # "index"
      <4>1. paying \in BOOLEAN BY DEF PayOne
      <4>2. ~IsPayment(c) /\ paying' = paying BY <2>1, <3>2, <4>1 DEF IsPayment
      <4> QED BY <4>2, WithoutKeeps
    <3> QED BY <3>1, <3>2
  <2>3. OwnCalls(calls') /\ PayOne(calls', paying') BY <2>1, <2>2, WithKeeps
  <2> QED BY <1>0, <2>1, <2>3
<1>7. ASSUME NEW ok \in BOOLEAN, DataEnds(c, ok) PROVE IInv'
  <2> DEFINE half == {d \in calls : d.kind \in {"home", "read"} /\ d.load = c.load /\ d # c}
             done == {d \in half : d.at = "done"}
  <2>1. paying' = paying /\ page' = page /\ c.kind \in {"home", "read"}
    BY <1>7 DEF DataEnds
  <2>2. \A d \in {c} \cup done : ~IsPayment(d) BY <2>1 DEF IsPayment
  <2>3. CASE calls' = calls \ ({c} \cup done) \/ calls' = calls \ {c}
             \/ calls' = With(calls \ ({c} \cup done), "info", c.store, c.from, None)
    <3> HIDE DEF half, done
    <3> QED BY <1>0, <1>a, <2>1, <2>2, <2>3
  <2>4. CASE calls' = (calls \ {c}) \cup {[c EXCEPT !.at = "done"]}
    <3> DEFINE d == [c EXCEPT !.at = "done"]
    <3>1. Own(d) /\ ~IsPayment(d) BY <2>1 DEF OwnCalls, Own, IsCall, IsPayment
    <3>2. OwnCalls(calls \ {c}) /\ PayOne(calls \ {c}, paying) BY <2>2, WithoutKeeps
    <3> HIDE DEF d
    <3>3. OwnCalls(calls') BY <2>4, <3>1, <3>2 DEF OwnCalls, d
    <3>4. PayOne(calls', paying)
      <4>1. calls' = (calls \ {c}) \cup {d} BY <2>4 DEF d
      <4>2. (\E e \in calls' : IsPayment(e)) <=> (\E e \in calls \ {c} : IsPayment(e)) BY <3>1, <4>1
      <4> QED BY <3>1, <3>2, <4>1, <4>2, Zenon DEF PayOne
    <3> QED BY <1>0, <2>1, <3>3, <3>4
  <2>5. \/ calls' = calls \ ({c} \cup done) \/ calls' = calls \ {c}
        \/ calls' = With(calls \ ({c} \cup done), "info", c.store, c.from, None)
        \/ calls' = (calls \ {c}) \cup {[c EXCEPT !.at = "done"]}
    BY <1>7 DEF DataEnds
  <2> QED BY <2>3, <2>4, <2>5
<1>8. ASSUME NEW ok \in BOOLEAN, InformingEnds(c, ok) PROVE IInv'
  <2>1. /\ calls' = calls \ {c} \/ calls' = With(calls \ {c}, "info", c.store, c.from, None)
        /\ paying' = paying /\ page' = page /\ ~IsPayment(c)
    BY <1>8 DEF InformingEnds, pages, IsPayment
  <2>2. \A d \in {c} : ~IsPayment(d) BY <2>1
  <2>3. CASE calls' = calls \ {c} BY <1>0, <1>a, <2>1, <2>2, <2>3
  <2>4. CASE calls' = With(calls \ {c}, "info", c.store, c.from, None)
    <3>1. OwnCalls(calls \ {c}) /\ PayOne(calls \ {c}, paying) BY <2>2, WithoutKeeps
    <3>2. OwnCalls(calls') /\ PayOne(calls', paying) BY <2>4, <3>1, WithKeeps
    <3> QED BY <1>0, <2>1, <3>2
  <2> QED BY <2>1, <2>3, <2>4
<1>9. ASSUME Cancelled(c) PROVE IInv'
  <2> DEFINE cs == Unmounted(calls \ {c}, {"index", "account"})
  <2>1. OwnCalls(calls \ {c}) BY DEF OwnCalls
  <2>2. OwnCalls(cs) /\ PayOne(cs, FALSE) BY <2>1, UnmountedHasNone
  <2>3. Bootstrap(None, cs) BY <1>9 DEF Cancelled
  <2> HIDE DEF cs
  <2> QED BY <2>2, <2>3, BootstrapKeeps
<1>10. ASSUME CancelFails(c) PROVE IInv'
  <2>1. calls' = calls \ {c} /\ paying' = paying /\ page' = page /\ ~IsPayment(c)
    BY <1>10 DEF CancelFails, IsPayment
  <2> QED BY <1>0, <1>a, <2>1
<1> QED BY <1>1, <1>2, <1>3, <1>4, <1>5, <1>6, <1>7, <1>8, <1>9, <1>10

THEOREM Inductive == Spec => []IInv
<1>1. IInv /\ UNCHANGED vars => IInv'
  BY DEF IInv, vars, pages
<1>2. IInv /\ [Next]_vars => IInv'
  BY <1>1, CustomerKeeps, AnswerKeeps DEF Next
<1> QED BY <1>2, Initially, PTL DEF Spec

(* ensureCustomerSession: whatever stores are entered, by code, scan or     *)
(* last visit, while calls of another are under way, and whoever logs in or *)
(* clears the session, no request carries another store's token.            *)
THEOREM OwnTokenHolds == Spec => []OwnToken
<1>1. IInv => OwnToken BY DEF IInv, OwnCalls, Own, OwnToken
<1> QED BY <1>1, Inductive, PTL

(* handlePay: a home page is paying exactly while a payment it began is     *)
(* under way, and never begins a second one, however many pages, payments   *)
(* of replaced pages and failed calls there are.                            *)
THEOREM PayingIsPaymentHolds == Spec => []PayingIsPayment
<1>1. ASSUME IInv PROVE PayingIsPayment
  <2> DEFINE payments == Payments(calls)
  <2>1. PayOne(calls, paying) BY <1>1 DEF IInv
  <2>2. paying = (payments # {}) BY <2>1, Zenon DEF PayOne, Payments
  <2>3. Cardinality(payments) <= 1
    <3>1. CASE payments = {} BY <3>1, FS_EmptySet
    <3>2. CASE payments # {}
      <4>1. PICK c : c \in payments BY <3>2
      <4>2. payments = {c} BY <2>1, <4>1 DEF PayOne, Payments
      <4> QED BY <4>2, FS_Singleton
    <3> QED BY <3>1, <3>2
  <2> QED BY <2>2, <2>3 DEF PayingIsPayment, Payments, IsPayment
<1> QED BY <1>1, Inductive, PTL

-----------------------------------------------------------------------------
(***************************************************************************)
(* Types, and the customer who left.  Calls have ids of their own, so one  *)
(* that ends frees an id for the one that follows it; the account page is  *)
(* only opened from a store.  After a tidy cancellation the device also    *)
(* has no last store: that is why the next start waits for a scan.         *)
(***************************************************************************)
Sources == {"boot", "last", "scan", "index", "account", "gone"}
Ids(cs) == {c.id : c \in cs}

(* Calls of their types, each with its own id.                             *)
Numbered(cs) == cs \subseteq Call /\ \A c, d \in cs : c.id = d.id => c = d

DeviceTyped ==
    /\ session \in Store /\ lastStore \in Store /\ departed \in Store
    /\ cached \subseteq Merchant
    /\ untidy \in BOOLEAN
    /\ starts \in 0..MaxStarts /\ taps \in 0..MaxTaps

PagesTyped ==
    /\ page \in {"closed", "boot", "scan", "index", "account"}
    /\ storeId \in [{"index", "account"} -> Store]
    /\ shown \in BOOLEAN
    /\ paying \in BOOLEAN
    /\ cancelArmed \in BOOLEAN
    /\ customerUserId \in Store
    /\ page \in {"index", "account"} => storeId["index"] # None
    /\ page = "account" => storeId["account"] # None

Away ==
    (departed # None /\ ~untidy) =>
        /\ session = None /\ lastStore = None /\ calls = {}
        /\ departed \notin cached /\ page \in {"closed", "scan"}

TInv == DeviceTyped /\ PagesTyped /\ Numbered(calls) /\ Away

(* A set of ids that is not empty has a least one.                         *)
LEMMA LeastId ==
    ASSUME NEW ids, ids \subseteq Nat, ids # {}
    PROVE  \E i \in ids : \A j \in ids : i <= j
<1>1. PICK i \in ids : \A j \in ids : ~(<<j, i>> \in OpToRel(<, Nat))
  BY NatLessThanWellFounded, WFMin
<1>2. \A j \in ids : ~(j < i) BY <1>1 DEF OpToRel
<1> QED BY <1>2

(* With takes a free id, and the new call is a call.                       *)
LEMMA WithNumbered ==
    ASSUME NEW cs, Numbered(cs), FreeIds(cs) # {}, NEW kind \in Kind,
           NEW m \in Merchant, NEW from \in Sources, NEW user \in Store, taps' \in 0..MaxTaps
    PROVE  /\ Numbered(With(cs, kind, m, from, user))
           /\ \E i \in FreeIds(cs) : FreeIds(With(cs, kind, m, from, user)) = FreeIds(cs) \ {i}
<1> DEFINE s == IF kind = "exists" THEN [at |-> "request", token |-> None] ELSE ensureCustomerSession(m)
           id == CHOOSE i \in FreeIds(cs) : \A j \in FreeIds(cs) : i <= j
           c == [id |-> id, kind |-> kind, store |-> m, at |-> s.at, token |-> s.token,
                 from |-> from, load |-> taps', user |-> user]
<1>1. id \in FreeIds(cs)
  <2>1. FreeIds(cs) \subseteq Nat BY CustomerAppAssumption DEF FreeIds
  <2>2. \E i \in FreeIds(cs) : \A j \in FreeIds(cs) : i <= j BY <2>1, LeastId
  <2> QED BY <2>2
<1>2. With(cs, kind, m, from, user) = cs \cup {c} BY DEF With
<1>3. s.at \in {"login", "request", "done"} /\ s.token \in Store
  BY DEF ensureCustomerSession, Store
<1>4. id \in 1..MaxCalls /\ \A d \in cs : d.id # id BY <1>1 DEF FreeIds
<1>5. c \in Call /\ c.id = id
  <2> HIDE DEF s, id
  <2> QED BY <1>3, <1>4 DEF Call, Sources
<1> HIDE DEF c, id, s
<1>6. Numbered(cs \cup {c}) BY <1>4, <1>5 DEF Numbered
<1>7. FreeIds(cs \cup {c}) = FreeIds(cs) \ {id} BY <1>5 DEF FreeIds
<1> QED BY <1>1, <1>2, <1>6, <1>7

(* A call that ends frees its id.                                          *)
LEMMA EndedNumbered ==
    ASSUME NEW cs, Numbered(cs), NEW c \in cs, NEW ended, c \in ended
    PROVE  Numbered(cs \ ended) /\ FreeIds(cs \ ended) # {}
<1>1. Numbered(cs \ ended) BY DEF Numbered
<1>2. c.id \in FreeIds(cs \ ended)
  <2>1. c.id \in 1..MaxCalls BY DEF Numbered, Call
  <2>2. \A d \in cs \ ended : d.id # c.id BY DEF Numbered
  <2> QED BY <2>1, <2>2 DEF FreeIds
<1> QED BY <1>1, <1>2

(* A page that goes leaves the calls their ids.                            *)
LEMMA UnmountedNumbered ==
    ASSUME NEW cs, Numbered(cs), NEW gone
    PROVE  Numbered(Unmounted(cs, gone)) /\ FreeIds(Unmounted(cs, gone)) = FreeIds(cs)
<1> DEFINE left(c) == IF c.from \in gone THEN [c EXCEPT !.from = "gone"] ELSE c
<1>1. \A c \in cs : left(c) \in Call /\ left(c).id = c.id
  BY DEF Numbered, Call
<1>2. Unmounted(cs, gone) = {left(c) : c \in cs} BY DEF Unmounted
<1> HIDE DEF left
<1>3. Numbered({left(c) : c \in cs}) BY <1>1 DEF Numbered
<1>4. FreeIds({left(c) : c \in cs}) = FreeIds(cs) BY <1>1 DEF FreeIds
<1> QED BY <1>2, <1>3, <1>4

(* A call that goes on keeps its id.                                       *)
LEMMA GoesOnNumbered ==
    ASSUME NEW cs, Numbered(cs), NEW c \in cs, NEW d \in Call, d.id = c.id
    PROVE  Numbered((cs \ {c}) \cup {d})
BY DEF Numbered

LEMMA InitiallyTyped == Init => TInv
<1> SUFFICES ASSUME Init PROVE TInv
  OBVIOUS
<1>1. DeviceTyped
  <2>1. MaxStarts \in Nat /\ MaxTaps \in Nat BY CustomerAppAssumption
  <2>2. starts \in 0..MaxStarts /\ taps \in 0..MaxTaps BY <2>1 DEF Init
  <2> QED BY <2>2 DEF Init, DeviceTyped, Store
<1>2. PagesTyped BY DEF Init, PagesTyped, NoStore, Store
<1>3. Numbered(calls) /\ Away BY DEF Init, Numbered, Away
<1> QED BY <1>1, <1>2, <1>3 DEF TInv

(* Where a store was entered by hand or a call is under way, nobody has    *)
(* left, and a step that keeps the history keeps it so.                    *)
LEMMA NobodyLeft ==
    ASSUME Away, calls # {} \/ page \notin {"closed", "scan"}, UNCHANGED history
    PROVE  Away'
BY DEF Away, history

(* The startup page that replaces the pages.                               *)
LEMMA BootstrapTyped ==
    ASSUME NEW entry \in Store, NEW cs, Numbered(cs), FreeIds(cs) # {},
           lastStore' \in Store, taps' \in 0..MaxTaps, Bootstrap(entry, cs)
    PROVE  PagesTyped' /\ Numbered(calls')
<1>1. page' \in {"boot", "scan"} /\ storeId' = NoStore /\ Fresh
  BY DEF Bootstrap
<1>2. PagesTyped' BY <1>1 DEF PagesTyped, Fresh, NoStore, Store
<1>3. "exists" \in Kind /\ "boot" \in Sources /\ "last" \in Sources /\ None \in Store
  BY DEF Kind, Sources, Store
<1>4. CASE entry # None
  <2>1. calls' = With(cs, "exists", entry, "boot", None) BY <1>4 DEF Bootstrap
  <2>2. entry \in Merchant BY <1>4 DEF Store
  <2> QED BY <1>2, <1>3, <2>1, <2>2, WithNumbered
<1>5. CASE entry = None /\ lastStore' # None
  <2>1. calls' = With(cs, "exists", lastStore', "last", None) BY <1>5 DEF Bootstrap
  <2>2. lastStore' \in Merchant BY <1>5 DEF Store
  <2> QED BY <1>2, <1>3, <2>1, <2>2, WithNumbered
<1>6. CASE entry = None /\ lastStore' = None
  BY <1>2, <1>6 DEF Bootstrap
<1> QED BY <1>4, <1>5, <1>6

(* Two free ids are enough for the two halves of the account page's data.  *)
LEMMA LoadCallsNumbered ==
    ASSUME Numbered(calls), Room(2), NEW m \in Merchant,
           taps' \in 0..MaxTaps
    PROVE  Numbered(LoadCalls(m))
<1> DEFINE home == With(calls, "home", m, "account", None)
<1>1. {"home", "read"} \subseteq Kind /\ "account" \in Sources /\ None \in Store
  BY DEF Kind, Sources, Store
<1>2. FreeIds(calls) # {} /\ \A i : FreeIds(calls) # {i}
  <2>1. Cardinality(FreeIds(calls)) >= 2 BY DEF Room
  <2>2. Cardinality({}) = 0 BY FS_EmptySet
  <2>3. \A i : Cardinality({i}) = 1 BY FS_Singleton
  <2>4. ~(0 >= 2) /\ ~(1 >= 2) OBVIOUS
  <2> QED BY Zenon, <2>1, <2>2, <2>3, <2>4
<1>3. Numbered(home) /\ \E i \in FreeIds(calls) : FreeIds(home) = FreeIds(calls) \ {i}
  BY <1>1, <1>2, WithNumbered
<1>4. FreeIds(home) # {} BY <1>2, <1>3
<1> HIDE DEF home
<1>5. Numbered(With(home, "read", m, "account", None)) BY <1>1, <1>3, <1>4, WithNumbered
<1> QED BY <1>5 DEF LoadCalls, home

LEMMA RoomForOne ==
    ASSUME Room(1)
    PROVE  FreeIds(calls) # {}
BY FS_EmptySet DEF Room

LEMMA CustomerTyped ==
    ASSUME TInv, page = "closed" => calls = {}, Customer
    PROVE  TInv'
<1> USE DEF TInv
<1>0. /\ {"exists", "snapshot", "pay", "write", "cancel"} \subseteq Kind
      /\ {"scan", "index", "account"} \subseteq Sources /\ None \in Store
  BY DEF Kind, Sources, Store
<1>1. ASSUME Tap, UNCHANGED <<device, untidy>>, departed' \in Store
      PROVE  DeviceTyped' /\ taps' \in 0..MaxTaps
  <2>1. taps' \in 0..MaxTaps /\ starts' = starts
    BY <1>1, CustomerAppAssumption DEF Tap, DeviceTyped
  <2> QED BY <1>1, <2>1 DEF DeviceTyped, device
<1>2. ASSUME NEW entry \in Store, Launch(entry) PROVE TInv'
  <2>1. /\ page = "closed" /\ calls = {} /\ UNCHANGED <<device, taps, untidy>>
        /\ starts' = starts + 1 /\ starts < MaxStarts
        /\ departed' = (IF entry = None THEN departed ELSE None)
        /\ Bootstrap(entry, calls)
    BY <1>2 DEF Launch
  <2>2. DeviceTyped'
    <3>1. starts' \in 0..MaxStarts BY <2>1, CustomerAppAssumption DEF DeviceTyped
    <3> QED BY <2>1, <3>1, <1>0 DEF DeviceTyped, device
  <2>3. FreeIds(calls) # {}
    <3>1. 1 \in 1..MaxCalls BY CustomerAppAssumption
    <3> QED BY <2>1, <3>1 DEF FreeIds
  <2>4. PagesTyped' /\ Numbered(calls')
    <3>1. lastStore' \in Store /\ taps' \in 0..MaxTaps BY <2>2 DEF DeviceTyped
    <3> QED BY <2>1, <2>3, <3>1, BootstrapTyped
  <2>5. Away'
    <3>1. CASE entry # None BY <2>1, <3>1 DEF Away
    <3>2. CASE entry = None /\ departed # None /\ ~untidy
      <4>1. lastStore' = None /\ session' = None /\ departed \notin cached'
        BY <2>1, <3>2 DEF Away, device
      <4>2. page' = "scan" /\ calls' = {} BY <2>1, <3>2, <4>1 DEF Bootstrap
      <4> QED BY <2>1, <3>2, <4>1, <4>2 DEF Away
    <3>3. CASE entry = None /\ ~(departed # None /\ ~untidy)
      BY <2>1, <3>3 DEF Away
    <3> QED BY <3>1, <3>2, <3>3
  <2> QED BY <2>2, <2>4, <2>5
<1>3. ASSUME Close PROVE TInv'
  <2>1. /\ page' = "closed" /\ Fresh /\ calls' = {} /\ storeId' = NoStore
        /\ UNCHANGED <<device, bounds, history>>
    BY <1>3 DEF Close
  <2>2. DeviceTyped' BY <2>1 DEF DeviceTyped, device, bounds, history
  <2>3. PagesTyped' BY <2>1 DEF PagesTyped, Fresh, NoStore, Store
  <2>4. Numbered(calls') BY <2>1 DEF Numbered
  <2>5. Away' BY <2>1 DEF Away, device, history
  <2> QED BY <2>2, <2>3, <2>4, <2>5
<1>4. ASSUME NEW m \in Merchant, handleScan(m) PROVE TInv'
  <2>1. /\ Tap /\ UNCHANGED <<device, pages, untidy>> /\ departed' = None /\ Room(1)
        /\ calls' = With(calls, "exists", m, "scan", None)
    BY <1>4 DEF handleScan
  <2>2. DeviceTyped' /\ taps' \in 0..MaxTaps BY <1>0, <1>1, <2>1
  <2>3. PagesTyped' BY <2>1 DEF PagesTyped, pages
  <2>4. Numbered(calls') BY <1>0, <2>1, <2>2, RoomForOne, WithNumbered
  <2>5. Away' BY <2>1 DEF Away
  <2> QED BY <2>2, <2>3, <2>4, <2>5
<1>5. ASSUME NEW kind \in Kind, NEW from \in Sources, NEW m \in Merchant, NEW user \in Store,
             page \in {"index", "account"}, Room(1), Tap, UNCHANGED <<device, history>>,
             calls' = With(calls, kind, m, from, user),
             PagesTyped'
      PROVE  TInv'
  <2>1. departed' \in Store /\ untidy' = untidy BY <1>5 DEF history, DeviceTyped
  <2>2. DeviceTyped' /\ taps' \in 0..MaxTaps BY <1>1, <1>5, <2>1
  <2>3. Numbered(calls') BY <1>5, <2>2, RoomForOne, WithNumbered
  <2>4. Away' BY <1>5, NobodyLeft
  <2> QED BY <1>5, <2>2, <2>3, <2>4
<1>6. page = "index" => storeId["index"] \in Merchant
  BY DEF PagesTyped, Store
<1>7. page = "account" => storeId["account"] \in Merchant
  BY DEF PagesTyped, Store
<1>8. ASSUME loadSnapshot PROVE TInv'
  <2>1. /\ page = "index" /\ Room(1) /\ Tap /\ UNCHANGED <<device, pages, history>>
        /\ calls' = With(calls, "snapshot", storeId["index"], "index", None)
    BY <1>8 DEF loadSnapshot
  <2>2. PagesTyped' BY <2>1 DEF PagesTyped, pages
  <2> QED BY <1>0, <1>5, <1>6, <2>1, <2>2
<1>9. ASSUME handlePay PROVE TInv'
  <2>1. /\ page = "index" /\ Room(1) /\ Tap
        /\ UNCHANGED <<device, page, storeId, shown, cancelArmed, customerUserId, history>>
        /\ paying' = TRUE
        /\ calls' = With(calls, "pay", storeId["index"], "index", None)
    BY <1>9 DEF handlePay
  <2>2. PagesTyped' BY <2>1 DEF PagesTyped
  <2>3. UNCHANGED <<device, history>> BY <2>1
  <2> QED BY <1>0, <1>5, <1>6, <2>1, <2>2, <2>3
<1>10. ASSUME NEW m \in Merchant, page \in {"index", "account"}, Room(2), Tap,
              UNCHANGED <<device, history>>, calls' = LoadCalls(m), PagesTyped'
       PROVE  TInv'
  <2>1. departed' \in Store /\ untidy' = untidy BY <1>10 DEF history, DeviceTyped
  <2>2. DeviceTyped' /\ taps' \in 0..MaxTaps BY <1>1, <1>10, <2>1
  <2>3. Numbered(calls') BY <1>10, <2>2, LoadCallsNumbered
  <2>4. Away' BY <1>10, NobodyLeft
  <2> QED BY <1>10, <2>2, <2>3, <2>4
<1>11. ASSUME handleOpenAccount PROVE TInv'
  <2>1. /\ page = "index" /\ lastStore # None /\ Room(2) /\ Tap
        /\ page' = "account" /\ storeId' = [storeId EXCEPT !["account"] = lastStore]
        /\ calls' = LoadCalls(lastStore)
        /\ UNCHANGED <<device, shown, paying, cancelArmed, customerUserId, history>>
    BY <1>11 DEF handleOpenAccount
  <2>2. lastStore \in Merchant BY <2>1 DEF DeviceTyped, Store
  <2>3. PagesTyped' BY <2>1, <2>2 DEF PagesTyped, Store
  <2>4. UNCHANGED <<device, history>> BY <2>1
  <2> QED BY <1>10, <2>1, <2>2, <2>3, <2>4
<1>12. ASSUME Back PROVE TInv'
  <2>1. /\ page = "account" /\ page' = "index"
        /\ storeId' = [storeId EXCEPT !["account"] = None]
        /\ cancelArmed' = FALSE /\ customerUserId' = None
        /\ calls' = Unmounted(calls, {"account"})
        /\ UNCHANGED <<device, shown, paying, bounds, history>>
    BY <1>12 DEF Back
  <2>2. DeviceTyped' BY <2>1 DEF DeviceTyped, device, bounds, history
  <2>3. PagesTyped' BY <2>1 DEF PagesTyped, Store
  <2>4. Numbered(calls') BY <2>1, UnmountedNumbered
  <2>5. Away' BY <2>1, NobodyLeft
  <2> QED BY <2>2, <2>3, <2>4, <2>5
<1>13. ASSUME loadData PROVE TInv'
  <2>1. /\ page = "account" /\ Room(2) /\ Tap /\ calls' = LoadCalls(storeId["account"])
        /\ UNCHANGED <<device, pages, history>>
    BY <1>13 DEF loadData
  <2>2. PagesTyped' BY <2>1 DEF PagesTyped, pages
  <2> QED BY <1>7, <1>10, <2>1, <2>2
<1>14. ASSUME Save PROVE TInv'
  <2>1. /\ page = "account" /\ Room(1) /\ Tap /\ UNCHANGED <<device, pages, history>>
        /\ calls' = With(calls, "write", storeId["account"], "account", None)
    BY <1>14 DEF Save
  <2>2. PagesTyped' BY <2>1 DEF PagesTyped, pages
  <2> QED BY <1>0, <1>5, <1>7, <2>1, <2>2
<1>15. ASSUME handleCancelAccount PROVE TInv'
  <2>1. /\ page = "account"
        /\ UNCHANGED <<device, page, storeId, shown, paying, customerUserId, history>>
    BY <1>15 DEF handleCancelAccount
  <2>2. CASE cancelArmed' \in BOOLEAN /\ UNCHANGED <<calls, bounds>>
    <3>1. DeviceTyped' BY <2>1, <2>2 DEF DeviceTyped, device, bounds, history
    <3>2. PagesTyped' BY <2>1, <2>2 DEF PagesTyped
    <3>3. Numbered(calls') BY <2>2
    <3>4. Away' BY <2>1, NobodyLeft
    <3> QED BY <3>1, <3>2, <3>3, <3>4
  <2>3. ASSUME NEW user \in Store, Room(1), Tap, cancelArmed' = cancelArmed,
               calls' = With(calls, "cancel", storeId["account"], "account", user)
        PROVE  TInv'
    <3>1. PagesTyped' BY <2>1, <2>3 DEF PagesTyped
    <3>2. UNCHANGED <<device, history>> BY <2>1
    <3> QED BY <1>0, <1>5, <1>7, <2>1, <2>3, <3>1, <3>2
  <2>4. customerUserId \in Store /\ session \in Store BY DEF PagesTyped, DeviceTyped
  <2> QED BY <1>15, <2>2, <2>3, <2>4 DEF handleCancelAccount
<1> QED BY <1>2, <1>3, <1>4, <1>8, <1>9, <1>11, <1>12, <1>13, <1>14, <1>15 DEF Customer

(* What an answer does: the call that ended frees the id the next one      *)
(* needs.  Only a cancellation that met no other call leaves nobody.       *)
LEMMA AnswerTyped ==
    ASSUME TInv, page = "closed" => calls = {}, Answer
    PROVE  TInv'
<1> USE DEF TInv
<1> PICK c \in calls :
        \/ LoggedIn(c) \/ Exists(c) \/ ExistsNot(c) \/ ExistsFails(c)
        \/ Cancelled(c) \/ CancelFails(c)
        \/ \E ok \in BOOLEAN :
              Prefetched(c, ok) \/ SnapshotEnds(c, ok) \/ PaymentEnds(c, ok)
              \/ DataEnds(c, ok) \/ InformingEnds(c, ok)
  BY DEF Answer
<1>0. /\ {"prefetch", "snapshot", "info"} \subseteq Kind /\ None \in Store
      /\ "index" \in Sources
  BY DEF Kind, Sources, Store
<1>1. /\ c \in Call /\ c.store \in Merchant /\ c.from \in Sources /\ c.user \in Store
      /\ Merchant \subseteq Store
  BY DEF Numbered, Call, Sources, Store
<1>2. SessionAfterError(c.kind) \in Store
  BY <1>0 DEF SessionAfterError, DeviceTyped
\* What a call that ends leaves: nothing, or one that follows it.
<1>3. ASSUME NEW ended, c \in ended, NEW kind \in Kind, taps' \in 0..MaxTaps,
             calls' = calls \ ended \/ calls' = With(calls \ ended, kind, c.store, c.from, None)
      PROVE  Numbered(calls')
  <2>1. Numbered(calls \ ended) /\ FreeIds(calls \ ended) # {} BY <1>3, EndedNumbered
  <2>2. Numbered(With(calls \ ended, kind, c.store, c.from, None))
    BY <1>0, <1>1, <1>3, <2>1, WithNumbered
  <2> QED BY <1>3, <2>1, <2>2
<1>4. ASSUME session' \in Store, lastStore' \in Store, cached' \subseteq Merchant,
             UNCHANGED <<bounds, history>>
      PROVE  DeviceTyped' /\ taps' \in 0..MaxTaps /\ Away'
  <2>1. DeviceTyped' BY <1>4 DEF DeviceTyped, bounds, history
  <2>2. Away' BY <1>4, NobodyLeft
  <2> QED BY <2>1, <2>2 DEF DeviceTyped
<1>5. /\ session \in Store /\ lastStore \in Store /\ cached \subseteq Merchant
      /\ cached \cup {c.store} \subseteq Merchant
  BY <1>1 DEF DeviceTyped
<1>6. ASSUME LoggedIn(c) PROVE TInv'
  <2>1. /\ session' = c.store /\ UNCHANGED <<lastStore, cached, pages, bounds, history>>
        /\ calls' = (calls \ {c}) \cup {Logged(c)}
    BY <1>6 DEF LoggedIn, Logged
  <2>2. DeviceTyped' /\ Away' BY <1>1, <1>4, <1>5, <2>1
  <2>3. PagesTyped' BY <2>1 DEF PagesTyped, pages
  <2>4. Logged(c) \in Call /\ Logged(c).id = c.id BY <1>1 DEF Logged, Call
  <2>5. Numbered(calls') BY <2>1, <2>4, GoesOnNumbered
  <2> QED BY <2>2, <2>3, <2>5
<1>7. ASSUME Exists(c) PROVE TInv'
  <2>1. /\ lastStore' = c.store /\ UNCHANGED <<session, cached, pages, bounds, history>>
        /\ calls' = With(calls \ {c}, "prefetch", c.store, c.from, None)
    BY <1>7 DEF Exists
  <2>2. DeviceTyped' /\ Away' /\ taps' \in 0..MaxTaps BY <1>1, <1>4, <1>5, <2>1
  <2>3. PagesTyped' BY <2>1 DEF PagesTyped, pages
  <2>4. Numbered(calls') BY <1>0, <1>3, <2>1, <2>2
  <2> QED BY <2>2, <2>3, <2>4
<1>8. ASSUME ExistsNot(c) \/ ExistsFails(c) PROVE TInv'
  <2>1. /\ lastStore' \in {None, lastStore} /\ page' \in {page, "scan"}
        /\ calls' = calls \ {c}
        /\ UNCHANGED <<session, cached, storeId, shown, paying, cancelArmed, customerUserId,
                       bounds, history>>
    BY <1>8 DEF ExistsNot, ExistsFails, ReadyForScan, device
  <2>2. DeviceTyped' /\ Away' /\ taps' \in 0..MaxTaps BY <1>0, <1>4, <1>5, <2>1
  <2>3. PagesTyped' BY <2>1 DEF PagesTyped
  <2>4. Numbered(calls') BY <1>0, <1>3, <2>1, <2>2
  <2> QED BY <2>2, <2>3, <2>4
<1> DEFINE cs == Unmounted(calls \ {c}, {"index", "account"})
<1>10. Numbered(cs) /\ FreeIds(cs) # {}
  <2>1. Numbered(calls \ {c}) /\ FreeIds(calls \ {c}) # {} BY EndedNumbered
  <2> QED BY <2>1, UnmountedNumbered
<1>11. ASSUME NEW ok \in BOOLEAN, Prefetched(c, ok) PROVE TInv'
  <2>1. /\ cached' \in {cached, cached \cup {c.store}}
        /\ UNCHANGED <<session, lastStore, bounds, history>> /\ IndexPage(cs)
    BY <1>11 DEF Prefetched
  <2> HIDE DEF cs
  <2>2. DeviceTyped' /\ Away' /\ taps' \in 0..MaxTaps BY <1>4, <1>5, <2>1
  <2>3. CASE lastStore = None
    <3>1. Bootstrap(None, cs) BY <2>1, <2>3 DEF IndexPage
    <3>2. lastStore' \in Store BY <1>5, <2>1
    <3> QED BY <1>0, <1>10, <2>2, <3>1, <3>2, BootstrapTyped
  <2>4. CASE lastStore # None
    <3>1. /\ Fresh /\ page' = "index" /\ storeId' = [NoStore EXCEPT !["index"] = lastStore]
          /\ calls' = With(cs, "snapshot", lastStore, "index", None)
      BY <2>1, <2>4 DEF IndexPage
    <3>2. lastStore \in Merchant BY <1>5, <2>4 DEF Store
    <3>3. PagesTyped' BY <3>1, <3>2, <2>4 DEF PagesTyped, Fresh, NoStore, Store
    <3>4. Numbered(calls') BY <1>0, <1>10, <2>2, <3>1, <3>2, WithNumbered
    <3> QED BY <2>2, <3>3, <3>4
  <2> QED BY <2>3, <2>4
<1>12. ASSUME NEW ok \in BOOLEAN, SnapshotEnds(c, ok) \/ PaymentEnds(c, ok) PROVE TInv'
  <2>1. /\ cached' \in {cached, cached \cup {c.store}}
        /\ session' \in {session, SessionAfterError(c.kind)}
        /\ shown' \in BOOLEAN /\ paying' \in BOOLEAN
        /\ UNCHANGED <<lastStore, page, storeId, cancelArmed, customerUserId, bounds, history>>
    BY <1>12 DEF SnapshotEnds, PaymentEnds, PagesTyped
  <2>2. calls' = calls \ {c} \/ calls' = With(calls \ {c}, "info", c.store, c.from, None)
    BY <1>12 DEF SnapshotEnds, PaymentEnds
  <2>3. DeviceTyped' /\ Away' /\ taps' \in 0..MaxTaps BY <1>2, <1>4, <1>5, <2>1
  <2>4. PagesTyped' BY <2>1 DEF PagesTyped
  <2>5. Numbered(calls') BY <1>0, <1>3, <2>2, <2>3
  <2> QED BY <2>3, <2>4, <2>5
<1>13. ASSUME NEW ok \in BOOLEAN, DataEnds(c, ok) PROVE TInv'
  <2> DEFINE half == {d \in calls : d.kind \in {"home", "read"} /\ d.load = c.load /\ d # c}
             done == {d \in half : d.at = "done"}
  <2>1. /\ cached' \in {cached, cached \cup {c.store}}
        /\ session' \in {session, SessionAfterError(c.kind)}
        /\ customerUserId' \in {session, customerUserId}
        /\ UNCHANGED <<lastStore, page, storeId, shown, paying, cancelArmed, bounds, history>>
    BY <1>13 DEF DataEnds
  <2>2. \/ calls' = calls \ ({c} \cup done) \/ calls' = calls \ {c}
        \/ calls' = With(calls \ ({c} \cup done), "info", c.store, c.from, None)
        \/ calls' = (calls \ {c}) \cup {[c EXCEPT !.at = "done"]}
    BY <1>13 DEF DataEnds
  <2> HIDE DEF half, done
  <2>3. DeviceTyped' /\ Away' /\ taps' \in 0..MaxTaps BY <1>2, <1>4, <1>5, <2>1
  <2>4. PagesTyped' BY <1>5, <2>1 DEF PagesTyped
  <2>5. Numbered(calls')
    <3>1. CASE calls' = calls \ {c} BY <1>0, <1>3, <2>3, <3>1
    <3>2. CASE \/ calls' = calls \ ({c} \cup done)
               \/ calls' = With(calls \ ({c} \cup done), "info", c.store, c.from, None)
      BY <1>0, <1>3, <2>3, <3>2
    <3>3. CASE calls' = (calls \ {c}) \cup {[c EXCEPT !.at = "done"]}
      <4>1. [c EXCEPT !.at = "done"] \in Call /\ [c EXCEPT !.at = "done"].id = c.id
        BY <1>1 DEF Call
      <4> QED BY <3>3, <4>1, GoesOnNumbered
    <3> QED BY <2>2, <3>1, <3>2, <3>3
  <2> QED BY <2>3, <2>4, <2>5
<1>14. ASSUME NEW ok \in BOOLEAN, InformingEnds(c, ok) PROVE TInv'
  <2>1. UNCHANGED <<session, lastStore, cached, pages, bounds, history>>
    BY <1>14 DEF InformingEnds, device
  <2>2. calls' = calls \ {c} \/ calls' = With(calls \ {c}, "info", c.store, c.from, None)
    BY <1>14 DEF InformingEnds
  <2>3. DeviceTyped' /\ Away' /\ taps' \in 0..MaxTaps BY <1>4, <1>5, <2>1
  <2>4. PagesTyped' BY <2>1 DEF PagesTyped, pages
  <2>5. Numbered(calls') BY <1>0, <1>3, <2>2, <2>3
  <2> QED BY <2>3, <2>4, <2>5
<1>15. ASSUME Cancelled(c) PROVE TInv'
  <2>1. /\ session' = None /\ lastStore' = None /\ UNCHANGED bounds
        /\ cached' = (IF c.user = c.store THEN cached \ {c.store} ELSE cached)
        /\ departed' = c.store /\ untidy' = (calls # {c} \/ c.user # c.store)
        /\ Bootstrap(None, cs)
    BY <1>15 DEF Cancelled
  <2>2. untidy' \in BOOLEAN /\ (~untidy' => calls = {c} /\ c.user = c.store) BY <2>1
  <2>3. DeviceTyped' /\ taps' \in 0..MaxTaps
    BY <1>0, <1>1, <1>5, <2>1, <2>2 DEF DeviceTyped, bounds
  <2>4. ~untidy' => cs = {} BY <2>2 DEF Unmounted
  <2> HIDE DEF cs
  <2>5. PagesTyped' /\ Numbered(calls') BY <1>0, <1>10, <2>1, <2>3, BootstrapTyped
  <2>6. page' = "scan" /\ calls' = cs BY <2>1 DEF Bootstrap
  <2>7. Away' BY <2>1, <2>2, <2>4, <2>6 DEF Away
  <2> QED BY <2>3, <2>5, <2>7
<1>16. ASSUME CancelFails(c) PROVE TInv'
  <2>1. /\ session' = SessionAfterError("cancel") /\ calls' = calls \ {c}
        /\ cancelArmed' \in BOOLEAN /\ c.kind = "cancel"
        /\ UNCHANGED <<lastStore, cached, page, storeId, shown, paying, customerUserId, bounds,
                       history>>
    BY <1>16 DEF CancelFails
  <2>2. DeviceTyped' /\ Away' /\ taps' \in 0..MaxTaps BY <1>2, <1>4, <1>5, <2>1
  <2>3. PagesTyped' BY <2>1 DEF PagesTyped
  <2>4. Numbered(calls') BY <1>0, <1>3, <2>1, <2>2
  <2> QED BY <2>2, <2>3, <2>4
<1> QED BY <1>6, <1>7, <1>8, <1>11, <1>12, <1>13, <1>14, <1>15, <1>16

LEMMA TypesInductive == Spec => []TInv
<1>1. TInv /\ UNCHANGED vars => TInv'
  BY DEF TInv, DeviceTyped, PagesTyped, Away, vars, device, pages, bounds, history
<1>2. IInv /\ TInv /\ [Next]_vars => TInv'
  BY <1>1, CustomerTyped, AnswerTyped DEF Next, IInv
<1>3. Init => TInv
  BY InitiallyTyped
<1> QED BY <1>2, <1>3, Inductive, PTL DEF Spec

(* As many ids as calls.                                                   *)
LEMMA NumberedApart ==
    ASSUME NEW cs, Numbered(cs)
    PROVE  Cardinality({c.id : c \in cs}) = Cardinality(cs)
<1> DEFINE ids == {c.id : c \in cs}
           f == [c \in cs |-> c.id]
<1>1. f \in Bijection(cs, ids)
  <2>1. f \in [cs -> ids] OBVIOUS
  <2>2. \A c, d \in cs : f[c] = f[d] => c = d BY DEF Numbered
  <2>3. \A i \in ids : \E c \in cs : f[c] = i OBVIOUS
  <2> HIDE DEF f, ids
  <2> QED BY <2>1, <2>2, <2>3, Fun_IsBij
<1>2. IsFiniteSet(ids)
  <2>1. IsFiniteSet(1..MaxCalls)
    <3>1. 1 \in Int /\ MaxCalls \in Int BY CustomerAppAssumption
    <3> QED BY <3>1, FS_Interval
  <2>2. ids \subseteq 1..MaxCalls BY DEF Numbered, Call
  <2> QED BY <2>1, <2>2, FS_Subset
<1>3. IsFiniteSet(cs)
  <2>1. f \in Injection(cs, ids) BY <1>1 DEF Bijection
  <2> HIDE DEF f, ids
  <2> QED BY <1>2, <2>1, FS_Injection
<1> HIDE DEF f, ids
<1>4. ExistsBijection(cs, ids) BY <1>1 DEF ExistsBijection
<1>5. Cardinality(ids) = Cardinality(cs) BY <1>3, <1>4, FS_Bijection
<1> QED BY <1>5 DEF ids

(* resolveStartupIntent, clearCustomerSession, handlePay and               *)
(* ensureCustomerSession together: calls with ids of their own, requests   *)
(* with their own store's token, a page that pays once and knows it, and,  *)
(* after a cancellation that met no other call, a device that keeps        *)
(* nothing of the customer and logs nobody in until a store is entered by  *)
(* its code; for any number of stores, calls, taps and starts.             *)
THEOREM CustomerAppInvariantHolds == Spec => []CustomerAppInvariant
<1>1. TInv => CustomerAppTypeOK /\ CancelledStaysAway
  <2> SUFFICES ASSUME TInv PROVE CustomerAppTypeOK /\ CancelledStaysAway
    OBVIOUS
  <2>1. Cardinality({c.id : c \in calls}) = Cardinality(calls)
    BY NumberedApart DEF TInv
  <2>2. CustomerAppTypeOK
    BY <2>1 DEF TInv, DeviceTyped, PagesTyped, Numbered, CustomerAppTypeOK
  <2> QED BY <2>2 DEF TInv, Away, CancelledStaysAway
<1> QED BY <1>1, TypesInductive, OwnTokenHolds, PayingIsPaymentHolds, PTL DEF CustomerAppInvariant
=============================================================================
