----------------------------- MODULE MerchantApp -----------------------------
(***************************************************************************)
(* The owner's app (MerchantContext): the stored session it starts from,   *)
(* login, onboarding and logout, the data it fetches for the session, and  *)
(* the chat with the agent.  The answers of the server arrive in any order *)
(* and nothing calls them back when the session they were asked in ends.   *)
(***************************************************************************)
EXTENDS Naturals, Sequences, FiniteSets, Stores

CONSTANTS
    View,          \* the views of merchantState that are fetched: dashboard, contracts
    MaxLogins,     \* bound: calls of the login and onboarding screens
    MaxSends,      \* bound: messages sent to the agent
    MaxLaunches    \* bound: starts of the app

\* What the values of the constants satisfy.
ASSUME AppAssumption ==
    /\ None \notin Merchant /\ "contract" \in View
    /\ {MaxLogins, MaxSends, MaxLaunches} \subseteq Nat

VARIABLES
    stored,            \* SecureStore: the session kept on the device
    writes,            \* the SecureStore operations that are under way, in order
    phase,             \* "closed", "hydrating" (authHydrating) or "ready"
    authSession,
    pendingOnboarding, \* pendingOnboardingSession is set
    authCall,          \* what authSubmitting waits for: "none", "code", "login", "onboard", "save"
    displayed,         \* whose data merchantState shows in each view
    fetching,          \* fetches under way, by view and session
    chat,              \* agentMessages: the owner's messages, [id, status]
    sending,           \* ids of the messages that wait for the agent's answer
    chatSendPhase,
    aiIntentSubmitting,
    draft,             \* aiIntentDraft is not blank
    logins, sends, launches,
    late,              \* history: since the last reset, a fetch was answered outside its session
    storageFailed      \* history: a SecureStore operation failed or was cut off

auth == <<authSession, pendingOnboarding, authCall>>
data == <<displayed, fetching>>
talk == <<chat, sending, chatSendPhase, aiIntentSubmitting, draft>>
store == <<stored, writes, storageFailed>>
appBounds == <<logins, sends, launches>>
appVars == <<store, phase, auth, data, talk, appBounds, late>>

Listed == [id : Nat, status : {"sending", "sent", "failed"}]

AppTypeOK ==
    /\ stored \in Merchant \cup {None} /\ writes \in Seq(Merchant \cup {None})
    /\ phase \in {"closed", "hydrating", "ready"}
    /\ authSession \in Merchant \cup {None} /\ pendingOnboarding \in BOOLEAN
    /\ authCall \in {"none", "code", "login", "onboard", "save"}
    /\ displayed \in [View -> Merchant \cup {None}]
    /\ fetching \in [View \X Merchant -> Nat]
    /\ chat \in Seq(Listed) /\ \A i \in 1..Len(chat) : chat[i].id \in 1..sends
    /\ sending \subseteq 1..sends
    /\ chatSendPhase \in {"idle", "submitting", "failed"}
    /\ aiIntentSubmitting \in BOOLEAN /\ draft \in BOOLEAN
    /\ late \in BOOLEAN /\ storageFailed \in BOOLEAN
    /\ (pendingOnboarding => authSession = None)
    /\ logins \in 0..MaxLogins /\ sends \in 0..MaxSends /\ launches \in 0..MaxLaunches

AppInit ==
    /\ stored \in Merchant \cup {None} /\ writes = <<>> /\ storageFailed = FALSE
    /\ phase = "closed"
    /\ authSession = None /\ pendingOnboarding = FALSE /\ authCall = "none"
    /\ displayed = [v \in View |-> None] /\ fetching = [f \in View \X Merchant |-> 0]
    /\ chat = <<>> /\ sending = {} /\ chatSendPhase = "idle"
    /\ aiIntentSubmitting = FALSE /\ draft = FALSE
    /\ logins = 0 /\ sends = 0 /\ launches = 0 /\ late = FALSE

------------------------------------------------------------------------------
(* What the handlers share. *)

(* Mutant: the store's data survives the session. *)
resetSessionScopedStateMutant ==
    /\ displayed' = displayed
    /\ late' = FALSE
    /\ chat' = <<>> /\ draft' = FALSE /\ aiIntentSubmitting' = FALSE /\ chatSendPhase' = "idle"

resetSessionScopedState ==
    /\ displayed' = [v \in View |-> None]
    /\ late' = FALSE
    /\ chat' = <<>> /\ draft' = FALSE /\ aiIntentSubmitting' = FALSE /\ chatSendPhase' = "idle"

(* The new session is shown with what merchantState held, and its effect    *)
(* fetches the dashboard and the contracts.                                 *)
applyAuthenticatedSession(m) ==
    /\ authSession' = m /\ pendingOnboarding' = FALSE
    /\ chat' = <<>> /\ draft' = FALSE /\ chatSendPhase' = "idle"
    /\ fetching' = [f \in View \X Merchant |-> IF f[2] = m THEN fetching[f] + 1 ELSE fetching[f]]
    /\ UNCHANGED <<displayed, sending, aiIntentSubmitting, late>>

Write(m) == writes' = Append(writes, m)

------------------------------------------------------------------------------
(* The device. *)

LaunchApp ==
    /\ phase = "closed" /\ launches < MaxLaunches
    /\ launches' = launches + 1
    /\ phase' = "hydrating"
    /\ UNCHANGED <<store, auth, data, talk, logins, sends, late>>

CloseApp ==
    /\ phase # "closed"
    /\ phase' = "closed"
    /\ authSession' = None /\ pendingOnboarding' = FALSE /\ authCall' = "none"
    /\ resetSessionScopedState
    /\ fetching' = [f \in View \X Merchant |-> 0] /\ sending' = {}
    /\ writes' = <<>> /\ storageFailed' = (storageFailed \/ writes # <<>>)
    /\ UNCHANGED <<stored, appBounds>>

StorageDone(ok) ==
    /\ writes # <<>>
    /\ stored' = IF ok THEN Head(writes) ELSE stored
    /\ storageFailed' = (storageFailed \/ ~ok)
    /\ writes' = Tail(writes)
    /\ authCall' = IF authCall = "save" /\ Len(writes) = 1 THEN "none" ELSE authCall
    /\ UNCHANGED <<phase, authSession, pendingOnboarding, data, talk, appBounds, late>>

(* hydrateAuthSession: without a stored session the login screen follows;   *)
(* one whose stores cannot be fetched, whatever the reason, is cleared.     *)
Hydrated ==
    /\ phase = "hydrating" /\ stored # None
    /\ phase' = "ready"
    /\ applyAuthenticatedSession(stored)
    /\ UNCHANGED <<store, authCall, appBounds>>

HydrateEmpty ==
    /\ phase = "hydrating" /\ stored = None
    /\ phase' = "ready"
    /\ UNCHANGED <<store, auth, data, talk, appBounds, late>>

HydrateFails ==
    /\ phase = "hydrating" /\ stored # None
    /\ \/ stored' = None /\ UNCHANGED storageFailed
       \/ storageFailed' = TRUE /\ UNCHANGED stored
    /\ phase' = "ready"
    /\ authSession' = None /\ pendingOnboarding' = FALSE
    /\ resetSessionScopedState
    /\ UNCHANGED <<writes, authCall, fetching, sending, appBounds>>

------------------------------------------------------------------------------
(* The login and onboarding screens; their buttons are disabled while       *)
(* authSubmitting.                                                          *)

OnLogin == phase = "ready" /\ authSession = None /\ ~pendingOnboarding

Submit(call) ==
    /\ authCall = "none" /\ logins < MaxLogins
    /\ logins' = logins + 1 /\ authCall' = call
    /\ UNCHANGED <<store, phase, authSession, pendingOnboarding, data, talk, sends, launches, late>>

requestLoginCode == OnLogin /\ Submit("code")
loginWithPhone == OnLogin /\ Submit("login")
completeOnboarding == phase = "ready" /\ pendingOnboarding /\ Submit("onboard")

(* The code was sent, or the call failed and its error is shown. *)
CallEnds ==
    /\ authCall \in {"code", "login", "onboard"}
    /\ authCall' = "none"
    /\ UNCHANGED <<store, phase, authSession, pendingOnboarding, data, talk, appBounds, late>>

(* The phone owns no store yet. *)
OnboardRequired ==
    /\ authCall = "login"
    /\ authCall' = "none"
    /\ \/ stored' = None /\ UNCHANGED storageFailed
       \/ storageFailed' = TRUE /\ UNCHANGED stored
    /\ authSession' = None /\ pendingOnboarding' = TRUE
    /\ resetSessionScopedState
    /\ UNCHANGED <<writes, phase, fetching, sending, appBounds>>

(* An onboarding the owner has backed out of still ends in its store. *)
OwnerLoggedIn(m) ==
    /\ authCall \in {"login", "onboard"}
    /\ authCall' = "save"
    /\ applyAuthenticatedSession(m)
    /\ Write(m)
    /\ UNCHANGED <<stored, storageFailed, phase, appBounds>>

(* The back button is not disabled. *)
clearPendingOnboardingSession ==
    /\ phase = "ready" /\ pendingOnboarding
    /\ pendingOnboarding' = FALSE
    /\ UNCHANGED <<store, phase, authSession, authCall, data, talk, appBounds, late>>

(* Mutant: the stored session is left. *)
logoutMutant ==
    /\ phase = "ready" /\ authSession # None
    /\ authSession' = None /\ pendingOnboarding' = FALSE
    /\ resetSessionScopedState
    /\ UNCHANGED <<stored, writes, storageFailed, phase, authCall, fetching, sending, appBounds>>

logout ==
    /\ phase = "ready" /\ authSession # None
    /\ Write(None)
    /\ authSession' = None /\ pendingOnboarding' = FALSE
    /\ resetSessionScopedState
    /\ UNCHANGED <<stored, storageFailed, phase, authCall, fetching, sending, appBounds>>

------------------------------------------------------------------------------
(* refreshMerchantDashboard and refreshContractVisibility write what they   *)
(* fetched into the state of the moment.                                    *)
Fetched(v, m, ok) ==
    /\ fetching[<<v, m>>] > 0
    /\ fetching' = [fetching EXCEPT ![<<v, m>>] = @ - 1]
    /\ displayed' = IF ok THEN [displayed EXCEPT ![v] = m] ELSE displayed
    /\ late' = (late \/ (ok /\ m # authSession))
    /\ UNCHANGED <<store, phase, auth, talk, appBounds>>

Refresh ==
    /\ phase = "ready" /\ authSession # None
    /\ fetching[<<"contract", authSession>>] = 0
    /\ fetching' = [fetching EXCEPT ![<<"contract", authSession>>] = 1]
    /\ UNCHANGED <<store, phase, auth, displayed, talk, appBounds, late>>

------------------------------------------------------------------------------
(* The chat. *)

setAiIntentDraft ==
    /\ phase = "ready" /\ authSession # None /\ ~draft /\ sends < MaxSends
    /\ draft' = TRUE
    /\ UNCHANGED <<store, phase, auth, data, chat, sending, chatSendPhase,
                   aiIntentSubmitting, appBounds, late>>

(* The button is disabled while aiIntentSubmitting. *)
onSendAgentMessage ==
    /\ phase = "ready" /\ authSession # None /\ draft /\ ~aiIntentSubmitting
    /\ sends < MaxSends /\ sends' = sends + 1
    /\ draft' = FALSE /\ chatSendPhase' = "submitting" /\ aiIntentSubmitting' = TRUE
    /\ chat' = Append(chat, [id |-> sends', status |-> "sending"])
    /\ sending' = sending \cup {sends'}
    /\ UNCHANGED <<store, phase, auth, data, logins, launches, late>>

(* Mutant: only an answer that is an error settles its message. *)
AnsweredMutant(id, ok) ==
    /\ id \in sending /\ sending' = sending \ {id}
    /\ chat' = [i \in 1..Len(chat) |->
          IF chat[i].id = id /\ ~ok THEN [chat[i] EXCEPT !.status = "failed"] ELSE chat[i]]
    /\ chatSendPhase' = IF ok THEN chatSendPhase ELSE "failed"
    /\ aiIntentSubmitting' = FALSE
    /\ UNCHANGED <<store, phase, auth, data, draft, appBounds, late>>

(* runAgentTask has read the whole stream, or it failed: the message is     *)
(* marked where it is still listed, the phase of the chat in any case.      *)
Answered(id, ok) ==
    /\ id \in sending /\ sending' = sending \ {id}
    /\ chat' = [i \in 1..Len(chat) |->
          IF chat[i].id = id
          THEN [chat[i] EXCEPT !.status = IF ok THEN "sent" ELSE "failed"]
          ELSE chat[i]]
    /\ chatSendPhase' = IF ok THEN "idle" ELSE "failed"
    /\ aiIntentSubmitting' = FALSE
    /\ UNCHANGED <<store, phase, auth, data, draft, appBounds, late>>

onRetryMessage ==
    /\ phase = "ready" /\ chat # <<>>
    /\ draft' = TRUE /\ chatSendPhase' = "idle"
    /\ UNCHANGED <<store, phase, auth, data, chat, sending, aiIntentSubmitting, appBounds, late>>

------------------------------------------------------------------------------
Owner ==
    \/ LaunchApp \/ CloseApp
    \/ requestLoginCode \/ loginWithPhone \/ completeOnboarding
    \/ clearPendingOnboardingSession \/ logout
    \/ Refresh \/ setAiIntentDraft \/ onSendAgentMessage \/ onRetryMessage

OwnerAnswers ==
    \/ Hydrated \/ HydrateEmpty \/ HydrateFails
    \/ CallEnds \/ OnboardRequired \/ \E m \in Merchant : OwnerLoggedIn(m)
    \/ \E ok \in BOOLEAN : StorageDone(ok)
    \/ \E v \in View, m \in Merchant, ok \in BOOLEAN : Fetched(v, m, ok)

ChatAnswer == \E id \in sending, ok \in BOOLEAN : Answered(id, ok)

AppNext == Owner \/ OwnerAnswers \/ ChatAnswer

(* A fetch ends, with the response or with an error. *)
ChatFairness == WF_appVars(ChatAnswer)

AppSpec == AppInit /\ [][AppNext]_appVars /\ ChatFairness

------------------------------------------------------------------------------
(* A session shows no other store's data, unless a fetch begun in an        *)
(* earlier session was answered late: nothing cancels one.                  *)
StoreDataIsOwn ==
    (authSession # None /\ ~late) => \A v \in View : displayed[v] \in {None, authSession}

(* Unless a write failed or was cut off, what the device keeps is the       *)
(* session in use: a start never brings back one the owner has left.        *)
StoredSessionIsCurrent ==
    (phase = "ready" /\ writes = <<>> /\ ~storageFailed) => stored = authSession

(* The chat says it is submitting only while a message of this chat waits   *)
(* for its answer.                                                          *)
SubmittingIsSending ==
    chatSendPhase = "submitting" =>
        \E i \in 1..Len(chat) : chat[i].status = "sending" /\ chat[i].id \in sending

(* A session shows its own store's data, the device keeps the session in    *)
(* use, and the chat submits only while a message waits.                    *)
MerchantAppInvariant == AppTypeOK /\ StoreDataIsOwn /\ StoredSessionIsCurrent /\ SubmittingIsSending

(* Every message is marked sent or failed, or goes with its chat. *)
EveryMessageSettles ==
    \A id \in 1..MaxSends :
        (\E i \in 1..Len(chat) : chat[i].id = id /\ chat[i].status = "sending")
            ~> ~(\E i \in 1..Len(chat) : chat[i].id = id /\ chat[i].status = "sending")

==============================================================================
