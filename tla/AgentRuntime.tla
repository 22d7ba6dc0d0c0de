---------------------------- MODULE AgentRuntime ----------------------------
(***************************************************************************)
(* The agent runtime behind /api/agent-os: one session per operator, tasks *)
(* that stream a turn of the model, the memory that is compacted when the  *)
(* session grows, and the tenant lock every request of a merchant takes.   *)
(* An operator token always names its merchant and, on the login routes,   *)
(* the same operator: one session, one lock.                               *)
(***************************************************************************)
EXTENDS Naturals, Sequences, FiniteSets

CONSTANTS
    Task,                  \* requests that stream a turn
    Op,                    \* the other requests: read the session, poll or cancel a task
    Nothing,               \* before an Op has asked for anything
    MAX_SESSION_MESSAGES,
    KEEP_SESSION_MESSAGES,
    MaxTokens,             \* bound: tokens of a turn
    MaxWipes,              \* bound: transactions of other callers that reload the database
    MaxRestarts            \* bound: restarts

\* What the values of the constants satisfy.
ASSUME AgentAssumption ==
    /\ Task \cap Op = {} /\ Nothing \notin Task \cup Op
    /\ MAX_SESSION_MESSAGES \in Nat
    /\ KEEP_SESSION_MESSAGES \in 1..MAX_SESSION_MESSAGES
    /\ {MaxTokens, MaxWipes, MaxRestarts} \subseteq Nat

Request == Task \cup Op
Message == Task \X {"human", "ai"}
Wish == [op : {"session", "poll", "cancel"}, task : Task]
Status == {"none", "pending", "running", "interrupted", "success", "error"}
Running == {"compactHuman", "turn", "compactAi", "compactFinal"}

VARIABLES
    line,          \* tenantLocks: the requests of the merchant, the holder first
    pc,            \* where a request is
    wants,         \* what an Op asks for: [op, task]
    answer,        \* what it was answered
    agentSession,  \* the session object last handed out: [summary, messages]
    attached,      \* it is still the one in bucket.sessions
    tasks,         \* bucket.tasks
    status,        \* task.status
    tokens,        \* tokens streamed
    aiText,        \* the content of the task's AI message
    agent,         \* cachedAgentPromise: "none", "ready" or "failed"
    said,          \* history: everything that was said in this session
    wipes, restarts

requests == <<line, pc, wants, answer>>
runtime == <<agentSession, attached, tasks, status, said>>
model == <<tokens, aiText, agent>>
agentBounds == <<wipes, restarts>>
agentVars == <<requests, runtime, model, agentBounds>>

NewSession == [summary |-> <<>>, messages |-> <<>>]

AgentTypeOK ==
    /\ line \in Seq(Request)
    /\ pc \in [Request -> {"new", "waiting", "answered", "refused", "lost"} \cup Running]
    /\ wants \in [Op -> Wish \cup {Nothing}]
    /\ answer \in [Op -> Status \cup {"session", "not found"}]
    /\ agentSession \in [summary : Seq(Message), messages : Seq(Message)]
    /\ Len(agentSession.messages) <= MAX_SESSION_MESSAGES + 1
    /\ attached \in BOOLEAN /\ tasks \subseteq Task /\ status \in [Task -> Status]
    /\ tokens \in [Task -> 0..MaxTokens]
    /\ aiText \in [Task -> {"none", "tokens", "received"}]
    /\ agent \in {"none", "ready", "failed"}
    /\ said \in Seq(Message)
    /\ wipes \in 0..MaxWipes /\ restarts \in 0..MaxRestarts

AgentInit ==
    /\ line = <<>> /\ pc = [r \in Request |-> "new"]
    /\ wants = [o \in Op |-> Nothing] /\ answer = [o \in Op |-> "none"]
    /\ agentSession = NewSession /\ attached = FALSE /\ said = <<>>
    /\ tasks = {} /\ status = [t \in Task |-> "none"]
    /\ tokens = [t \in Task |-> 0] /\ aiText = [t \in Task |-> "none"]
    /\ agent = "none"
    /\ wipes = 0 /\ restarts = 0

------------------------------------------------------------------------------
(* The tenant lock. *)

(* Mutant: the lock is taken per path. *)
HoldsLockMutant(r) == \E i \in 1..Len(line) : line[i] = r

HoldsLock(r) == line # <<>> /\ Head(line) = r

(* Mutant: an error leaves the lock held. *)
LeaveMutant(r, outcome) ==
    /\ pc' = [pc EXCEPT ![r] = outcome]
    /\ line' = IF outcome = "refused" THEN line ELSE Tail(line)

(* The response is sent and the lock passed on, whatever the outcome: the   *)
(* one that leaves is its holder.                                           *)
Leave(r, outcome) ==
    /\ pc' = [pc EXCEPT ![r] = outcome]
    /\ line' = Tail(line)

GoOn(r, place) == pc' = [pc EXCEPT ![r] = place] /\ UNCHANGED line

(* A task's id is known to its owner once the stream has sent its headers. *)
Arrive(r) ==
    /\ pc[r] = "new"
    /\ pc' = [pc EXCEPT ![r] = "waiting"]
    /\ line' = Append(line, r)
    /\ IF r \in Task
       THEN UNCHANGED wants
       ELSE \E op \in {"session", "poll", "cancel"}, t \in Task :
              /\ op # "session" => status[t] # "none"
              /\ wants' = [wants EXCEPT ![r] = [op |-> op, task |-> t]]
    /\ UNCHANGED <<answer, runtime, model, agentBounds>>

------------------------------------------------------------------------------
(* The session and its memory. *)

(* getOrCreateSessionForOperator. *)
OpenSession == IF attached THEN agentSession ELSE NewSession
SaidInSession == IF attached THEN said ELSE <<>>

Push(s, m) == [s EXCEPT !.messages = Append(@, m)]

(* Mutant: one message too many is kept before the memory is compacted. *)
TooLongMutant(s) == Len(s.messages) > MAX_SESSION_MESSAGES + 1

TooLong(s) == Len(s.messages) > MAX_SESSION_MESSAGES

(* Mutant: the split drops the first message it should keep. *)
compactSessionMemoryMutant(s) ==
    LET split == Len(s.messages) - KEEP_SESSION_MESSAGES
    IN  [summary |-> s.summary \o SubSeq(s.messages, 1, split),
         messages |-> SubSeq(s.messages, split + 2, Len(s.messages))]

(* The summary stands for the messages the model was asked to merge into it. *)
compactSessionMemory(s) ==
    LET split == Len(s.messages) - KEEP_SESSION_MESSAGES
    IN  [summary |-> s.summary \o SubSeq(s.messages, 1, split),
         messages |-> SubSeq(s.messages, split + 1, Len(s.messages))]

RolledBack(s) == [s EXCEPT !.messages = SubSeq(@, 1, Len(@) - 1)]

(* appendSessionMessage: the push, and the model's summary awaited when the *)
(* session has become too long.                                             *)
Say(t, s, soFar, m, compacting, onwards) ==
    /\ agentSession' = Push(s, m)
    /\ IF TooLong(agentSession')
       THEN GoOn(t, compacting) /\ said' = soFar
       ELSE GoOn(t, onwards) /\ said' = Append(soFar, m)

------------------------------------------------------------------------------
(* POST /api/agent-os/tasks/stream: runWithStream. *)

(* The owner's quota refuses the request before a task is created. *)
Refused(r) ==
    /\ pc[r] = "waiting" /\ HoldsLock(r)
    /\ r \in Op => wants[r].op = "cancel"
    /\ Leave(r, "refused")
    /\ UNCHANGED <<wants, answer, runtime, model, agentBounds>>

(* A resume command, or an input without a human text. *)
BadInput(t) ==
    /\ pc[t] = "waiting" /\ HoldsLock(t)
    /\ agentSession' = OpenSession /\ said' = SaidInSession /\ attached' = TRUE
    /\ tasks' = tasks \cup {t} /\ status' = [status EXCEPT ![t] = "error"]
    /\ Leave(t, "refused")
    /\ UNCHANGED <<wants, answer, model, agentBounds>>

Start(t) ==
    /\ pc[t] = "waiting" /\ HoldsLock(t)
    /\ attached' = TRUE
    /\ tasks' = tasks \cup {t} /\ status' = [status EXCEPT ![t] = "running"]
    /\ Say(t, OpenSession, SaidInSession, <<t, "human">>, "compactHuman", "turn")
    /\ UNCHANGED <<wants, answer, model, agentBounds>>

(* getAgent: the promise is cached, a rejected one too. *)
InitAgent(t) ==
    /\ pc[t] = "turn" /\ agent = "none"
    /\ agent' \in {"ready", "failed"}
    /\ UNCHANGED <<requests, runtime, tokens, aiText, agentBounds>>

Token(t) ==
    /\ pc[t] = "turn" /\ agent = "ready" /\ status[t] # "interrupted"
    /\ tokens[t] < MaxTokens /\ tokens' = [tokens EXCEPT ![t] = @ + 1]
    /\ aiText' = [aiText EXCEPT ![t] = "tokens"]
    /\ IF aiText[t] = "none"
       THEN Say(t, agentSession, said, <<t, "ai">>, "compactAi", "turn")
       ELSE UNCHANGED <<line, pc, agentSession, said>>
    /\ UNCHANGED <<wants, answer, attached, tasks, status, agent, agentBounds>>

Succeed(t) ==
    /\ status' = [status EXCEPT ![t] = "success"]
    /\ Leave(t, "answered")

(* Mutant: a turn without tokens succeeds without an answer. *)
StreamEndsMutant(t) ==
    /\ pc[t] = "turn" /\ agent # "none"
    /\ Succeed(t)
    /\ UNCHANGED <<wants, answer, agentSession, said, attached, tasks, model, agentBounds>>

(* The generator returns.  A turn that is complete, one the model broke off *)
(* and one without a model end alike: streamAgentTurn reports a failure in  *)
(* its result, where nothing looks for it.  An interrupted task is left as  *)
(* it is.                                                                   *)
StreamEnds(t) ==
    /\ pc[t] = "turn" /\ agent # "none"
    /\ IF status[t] = "interrupted"
       THEN Leave(t, "answered") /\ UNCHANGED <<agentSession, said, status, aiText>>
       ELSE IF aiText[t] # "none"
       THEN Succeed(t) /\ UNCHANGED <<agentSession, said, aiText>>
       ELSE /\ aiText' = [aiText EXCEPT ![t] = "received"]
            /\ agentSession' = Push(agentSession, <<t, "ai">>)
            /\ IF TooLong(agentSession')
               THEN GoOn(t, "compactFinal") /\ UNCHANGED <<said, status>>
               ELSE Succeed(t) /\ said' = Append(said, <<t, "ai">>)
    /\ UNCHANGED <<wants, answer, attached, tasks, tokens, agent, agentBounds>>

Compacting == {"compactHuman", "compactAi", "compactFinal"}

Compacted(t) ==
    /\ pc[t] \in Compacting
    /\ agentSession' = compactSessionMemory(agentSession)
    /\ said' = Append(said, agentSession.messages[Len(agentSession.messages)])
    /\ IF pc[t] = "compactFinal"
       THEN Succeed(t)
       ELSE GoOn(t, "turn") /\ UNCHANGED status
    /\ UNCHANGED <<wants, answer, attached, tasks, model, agentBounds>>

(* Mutant: the message that could not be added stays in the session. *)
CompactionFailsMutant(t) ==
    /\ pc[t] \in Compacting
    /\ status' = [status EXCEPT ![t] = "error"]
    /\ Leave(t, "refused")
    /\ UNCHANGED <<wants, answer, agentSession, attached, tasks, said, model, agentBounds>>

(* The model gives no summary: the session is what it was, the task failed. *)
CompactionFails(t) ==
    /\ pc[t] \in Compacting
    /\ agentSession' = RolledBack(agentSession)
    /\ status' = [status EXCEPT ![t] = "error"]
    /\ Leave(t, "refused")
    /\ UNCHANGED <<wants, answer, attached, tasks, said, model, agentBounds>>

------------------------------------------------------------------------------
(* The other requests. *)

(* GET and POST /api/agent-os/sessions: a missing session is created. *)
ReadSession(o) ==
    /\ pc[o] = "waiting" /\ HoldsLock(o) /\ wants[o].op = "session"
    /\ agentSession' = OpenSession /\ said' = SaidInSession /\ attached' = TRUE
    /\ answer' = [answer EXCEPT ![o] = "session"]
    /\ Leave(o, "answered")
    /\ UNCHANGED <<wants, tasks, status, model, agentBounds>>

Found(t) == attached /\ t \in tasks

(* GET .../tasks/:id and its stream. *)
Poll(o) ==
    LET t == wants[o].task IN
    /\ pc[o] = "waiting" /\ HoldsLock(o) /\ wants[o].op = "poll"
    /\ answer' = [answer EXCEPT ![o] = IF Found(t) THEN status[t] ELSE "not found"]
    /\ Leave(o, "answered")
    /\ UNCHANGED <<wants, runtime, model, agentBounds>>

(* POST .../tasks/:id/cancel: cancelTask. *)
Cancel(o) ==
    LET t == wants[o].task IN
    /\ pc[o] = "waiting" /\ HoldsLock(o) /\ wants[o].op = "cancel"
    /\ status' = IF Found(t) /\ status[t] \in {"pending", "running"}
                 THEN [status EXCEPT ![t] = "interrupted"] ELSE status
    /\ answer' = [answer EXCEPT ![o] = IF Found(t) THEN status'[t] ELSE "not found"]
    /\ Leave(o, "answered")
    /\ UNCHANGED <<wants, agentSession, attached, tasks, said, model, agentBounds>>

------------------------------------------------------------------------------
(* The fresh transaction of another caller, a login or a gateway callback,  *)
(* reloads the database object: agentRuntime has no table to come back from.*)
Wipe ==
    /\ wipes < MaxWipes /\ (attached \/ tasks # {})
    /\ wipes' = wipes + 1
    /\ attached' = FALSE /\ tasks' = {}
    /\ UNCHANGED <<requests, agentSession, said, status, model, restarts>>

Restart ==
    /\ restarts < MaxRestarts
    /\ restarts' = restarts + 1
    /\ line' = <<>>
    /\ pc' = [r \in Request |-> IF pc[r] \in {"waiting"} \cup Running THEN "lost" ELSE pc[r]]
    /\ agentSession' = NewSession /\ said' = <<>> /\ attached' = FALSE /\ tasks' = {}
    /\ agent' = "none"
    /\ UNCHANGED <<wants, answer, status, tokens, aiText, wipes>>

Step(t) ==
    \/ BadInput(t) \/ Start(t) \/ InitAgent(t) \/ Token(t)
    \/ StreamEnds(t) \/ Compacted(t) \/ CompactionFails(t)
Serve(o) == ReadSession(o) \/ Poll(o) \/ Cancel(o)

Progress ==
    \/ \E t \in Task : Step(t)
    \/ \E o \in Op : Serve(o)
    \/ \E r \in Request : Refused(r)

AgentNext ==
    \/ \E r \in Request : Arrive(r)
    \/ Progress
    \/ Wipe
    \/ Restart

(* The holder of the lock goes on: the model's calls end, with an answer or *)
(* with the timeout they are given.                                         *)
AgentFairness == WF_agentVars(Progress)

AgentSpec == AgentInit /\ [][AgentNext]_agentVars /\ AgentFairness

------------------------------------------------------------------------------
Conversation == agentSession.summary \o agentSession.messages

(* No message of a session is lost or kept twice by a compaction, whether   *)
(* it succeeds or fails, and between appends the session is within its      *)
(* bound (compactSessionMemory, appendSessionMessage).                      *)
MemoryComplete ==
    IF \E t \in Task : pc[t] \in Compacting
    THEN Conversation = Append(said, agentSession.messages[Len(agentSession.messages)])
    ELSE Conversation = said /\ Len(agentSession.messages) <= MAX_SESSION_MESSAGES

(* A task that succeeded left its question and, next to it, an answer in    *)
(* the session; one that failed left no answer (runWithStream).             *)
TurnsAreWhole ==
    \A t \in tasks : attached =>
        /\ status[t] = "success" =>
              \E i \in 1..Len(Conversation) - 1 :
                  Conversation[i] = <<t, "human">> /\ Conversation[i + 1] = <<t, "ai">>
        /\ status[t] = "error" =>
              \A i \in 1..Len(Conversation) : Conversation[i] # <<t, "ai">>

(* The stream of a task holds the merchant's lock to its end, so a poll or  *)
(* a cancel is served only then: no caller is told of a task under way, and *)
(* a cancel never interrupts one.                                           *)
TasksSeenFinished ==
    /\ \A o \in Op : answer[o] \notin {"pending", "running", "interrupted"}
    /\ \A t \in Task : status[t] # "interrupted"

(* No message of a session is lost by a compaction, succeeded turns have    *)
(* question and answer and failed ones no answer, and no caller is told of  *)
(* a task under way.                                                        *)
AgentInvariant == AgentTypeOK /\ MemoryComplete /\ TurnsAreWhole /\ TasksSeenFinished

(* Every request that waits for the lock is answered, or lost by a restart. *)
EveryRequestServed ==
    \A r \in Request : (pc[r] = "waiting") ~> (pc[r] \in {"answered", "refused", "lost"})

==============================================================================
