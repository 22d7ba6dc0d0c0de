----------------------------- MODULE CustomerApp -----------------------------
(***************************************************************************)
(* The customer's mini program: the store it starts in, the session every  *)
(* call makes sure of, the home page with its payment, the account page    *)
(* and the cancellation of the account.  Calls run side by side, each may  *)
(* log in, and a failed one clears the session the others rely on.  A call *)
(* goes on when its page is gone; only what it sets on the page is lost.   *)
(***************************************************************************)
EXTENDS Naturals, FiniteSets, Stores

CONSTANTS
    MaxCalls,      \* bound: calls under way at once
    MaxStarts,     \* bound: starts of the program
    MaxTaps        \* bound: taps that begin calls

\* What the values of the constants satisfy.
ASSUME CustomerAppAssumption ==
    None \notin Merchant /\ MaxCalls \in Nat \ {0} /\ {MaxStarts, MaxTaps} \subseteq Nat

(* What a call is for.  "home" and "read" are the two halves of the account *)
(* page's data (its ledger and its invoices are read alike), "write" saves  *)
(* a preference or a ticket, "info" is any call that only informs.          *)
Kind == {"exists", "prefetch", "snapshot", "pay", "home", "read", "info", "write", "cancel"}

VARIABLES
    session,       \* storage: the merchant whose token and user id are kept
    lastStore,     \* storage: mq_last_store_id
    cached,        \* storage: the merchants with a home snapshot
    page,          \* "closed", "boot" (startup, connecting), "scan" (startup), "index" or "account"
    storeId,       \* of the mounted pages, read when they mount: [index, account]
    shown,         \* the home page has a snapshot
    paying,
    cancelArmed,
    customerUserId, \* the merchant whose user id the account page has read
    calls,         \* under way: [id, kind, store, at, token, from, load, user]
    starts, taps,
    departed,      \* history: the store whose account was cancelled, until a store is entered
    untidy         \* history: the cancellation met other calls, or another store's user id

device == <<session, lastStore, cached>>
pages == <<page, storeId, shown, paying, cancelArmed, customerUserId>>
bounds == <<starts, taps>>
history == <<departed, untidy>>
vars == <<device, pages, calls, bounds, history>>

Store == Merchant \cup {None}
Call == [id : 1..MaxCalls, kind : Kind, store : Merchant, at : {"login", "request", "done"},
         token : Store, from : {"boot", "last", "scan", "index", "account", "gone"},
         load : 0..MaxTaps, user : Store]

CustomerAppTypeOK ==
    /\ session \in Store /\ lastStore \in Store /\ customerUserId \in Store /\ departed \in Store
    /\ cached \subseteq Merchant
    /\ page \in {"closed", "boot", "scan", "index", "account"}
    /\ storeId \in [{"index", "account"} -> Store]
    /\ shown \in BOOLEAN /\ paying \in BOOLEAN /\ cancelArmed \in BOOLEAN /\ untidy \in BOOLEAN
    /\ calls \subseteq Call
    /\ Cardinality({c.id : c \in calls}) = Cardinality(calls)
    /\ starts \in 0..MaxStarts /\ taps \in 0..MaxTaps
    /\ page \in {"index", "account"} => storeId["index"] # None

NoStore == [p \in {"index", "account"} |-> None]

Init ==
    /\ session = None /\ lastStore = None /\ cached = {}
    /\ page = "closed" /\ storeId = NoStore
    /\ shown = FALSE /\ paying = FALSE /\ cancelArmed = FALSE /\ customerUserId = None
    /\ calls = {} /\ starts = 0 /\ taps = 0
    /\ departed = None /\ untidy = FALSE

------------------------------------------------------------------------------
(* The session. *)

(* Mutant: the cached session is used whatever its merchant. *)
ensureCustomerSessionMutant(m) ==
    IF session # None
    THEN [at |-> "request", token |-> session]
    ELSE [at |-> "login", token |-> None]

(* The first half of ensureCustomerSession: the session kept for the        *)
(* merchant is used, otherwise the call logs in.                            *)
ensureCustomerSession(m) ==
    IF session = m
    THEN [at |-> "request", token |-> m]
    ELSE [at |-> "login", token |-> None]

FreeIds(cs) == (1..MaxCalls) \ {c.id : c \in cs}
Room(n) == Cardinality(FreeIds(calls)) >= n

(* A new call beside the calls cs.  Whether a store exists is asked without *)
(* a session.                                                               *)
With(cs, kind, m, from, user) ==
    LET id == CHOOSE i \in FreeIds(cs) : \A j \in FreeIds(cs) : i <= j
        s == IF kind = "exists" THEN [at |-> "request", token |-> None] ELSE ensureCustomerSession(m)
    IN  cs \cup {[id |-> id, kind |-> kind, store |-> m, at |-> s.at, token |-> s.token,
                  from |-> from, load |-> taps', user |-> user]}

(* The pages' state is gone, their calls are not. *)
Unmounted(cs, from) == {IF c.from \in from THEN [c EXCEPT !.from = "gone"] ELSE c : c \in cs}

(* runRemote: an error clears the session, whose ever it is by then, unless *)
(* the call only informs; the prefetch does not come through runRemote.     *)
SessionAfterError(kind) ==
    IF kind \in {"snapshot", "pay", "home", "read", "cancel"} THEN None ELSE session

Answers(c, ok) == c.at # "done" /\ (ok => c.at = "request")

LoggedIn(c) ==
    /\ c.at = "login"
    /\ session' = c.store
    /\ calls' = (calls \ {c}) \cup {[c EXCEPT !.at = "request", !.token = c.store]}
    /\ UNCHANGED <<lastStore, cached, pages, bounds, history>>

------------------------------------------------------------------------------
(* Entering a store. *)

Fresh ==
    /\ shown' = FALSE /\ paying' = FALSE /\ cancelArmed' = FALSE /\ customerUserId' = None

(* The startup page mounts: bootstrap enters the store of the entry code,   *)
(* or the last store, or waits for a scan.                                  *)
Bootstrap(entry, cs) ==
    /\ Fresh /\ storeId' = NoStore
    /\ IF entry # None
       THEN page' = "boot" /\ calls' = With(cs, "exists", entry, "boot", None)
       ELSE IF lastStore' # None
       THEN page' = "boot" /\ calls' = With(cs, "exists", lastStore', "last", None)
       ELSE page' = "scan" /\ calls' = cs

Launch(entry) ==
    /\ page = "closed" /\ starts < MaxStarts /\ starts' = starts + 1
    /\ UNCHANGED <<device, taps, untidy>>
    /\ departed' = IF entry = None THEN departed ELSE None
    /\ Bootstrap(entry, calls)

Close ==
    /\ page # "closed" /\ page' = "closed"
    /\ Fresh /\ calls' = {} /\ storeId' = NoStore
    /\ UNCHANGED <<device, bounds, history>>

Tap == taps < MaxTaps /\ taps' = taps + 1 /\ UNCHANGED starts

handleScan(m) ==
    /\ page = "scan" /\ Room(1) /\ Tap
    /\ calls' = With(calls, "exists", m, "scan", None)
    /\ departed' = None
    /\ UNCHANGED <<device, pages, untidy>>

(* enterStore after its check. *)
Exists(c) ==
    /\ c.kind = "exists"
    /\ lastStore' = c.store
    /\ UNCHANGED <<session, cached, pages, bounds, history>>
    /\ calls' = With(calls \ {c}, "prefetch", c.store, c.from, None)

ReadyForScan == IF page = "boot" THEN "scan" ELSE page

(* A last store that is there no more is forgotten, whichever it is by then.*)
ExistsNot(c) ==
    /\ c.kind = "exists"
    /\ lastStore' = IF c.from = "last" THEN None ELSE lastStore
    /\ page' = ReadyForScan
    /\ calls' = calls \ {c}
    /\ UNCHANGED <<session, cached, storeId, shown, paying, cancelArmed, customerUserId, bounds, history>>

(* Mutant: the error is not caught. *)
ExistsFailsMutant(c) ==
    /\ c.kind = "exists"
    /\ calls' = calls \ {c}
    /\ UNCHANGED <<device, pages, bounds, history>>

ExistsFails(c) ==
    /\ c.kind = "exists"
    /\ page' = ReadyForScan
    /\ calls' = calls \ {c}
    /\ UNCHANGED <<device, storeId, shown, paying, cancelArmed, customerUserId, bounds, history>>

(* The home page mounts with the last store of that moment and loads its    *)
(* snapshot; without one it leads back to the startup page.                 *)
IndexPage(cs) ==
    IF lastStore # None
    THEN /\ Fresh /\ page' = "index"
         /\ storeId' = [NoStore EXCEPT !["index"] = lastStore]
         /\ calls' = With(cs, "snapshot", lastStore, "index", None)
    ELSE Bootstrap(None, cs)

(* The store is entered whether its snapshot came or not. *)
Prefetched(c, ok) ==
    /\ c.kind = "prefetch" /\ Answers(c, ok)
    /\ cached' = IF ok THEN cached \cup {c.store} ELSE cached
    /\ UNCHANGED <<session, lastStore, bounds, history>>
    /\ IndexPage(Unmounted(calls \ {c}, {"index", "account"}))

------------------------------------------------------------------------------
(* The home page. *)

loadSnapshot ==
    /\ page = "index" /\ Room(1) /\ Tap
    /\ calls' = With(calls, "snapshot", storeId["index"], "index", None)
    /\ UNCHANGED <<device, pages, history>>

SnapshotEnds(c, ok) ==
    /\ c.kind = "snapshot" /\ Answers(c, ok)
    /\ cached' = IF ok THEN cached \cup {c.store} ELSE cached
    /\ session' = IF ok THEN session ELSE SessionAfterError("snapshot")
    /\ shown' = (shown \/ (ok /\ c.from = "index"))
    /\ UNCHANGED <<lastStore, page, storeId, paying, cancelArmed, customerUserId, bounds, history>>
    /\ calls' = IF ok THEN With(calls \ {c}, "info", c.store, c.from, None) ELSE calls \ {c}

(* Mutant: the button is not disabled during a payment. *)
handlePayMutant ==
    /\ page = "index" /\ shown /\ Room(1) /\ Tap
    /\ paying' = TRUE
    /\ calls' = With(calls, "pay", storeId["index"], "index", None)
    /\ UNCHANGED <<device, page, storeId, shown, cancelArmed, customerUserId, history>>

(* Every tap pays with a key of its own. *)
handlePay ==
    /\ page = "index" /\ shown /\ ~paying /\ Room(1) /\ Tap
    /\ paying' = TRUE
    /\ calls' = With(calls, "pay", storeId["index"], "index", None)
    /\ UNCHANGED <<device, page, storeId, shown, cancelArmed, customerUserId, history>>

(* Mutant: a payment that failed leaves the page paying. *)
PaymentEndsMutant(c, ok) ==
    /\ c.kind = "pay" /\ Answers(c, ok)
    /\ cached' = IF ok THEN cached \cup {c.store} ELSE cached
    /\ session' = IF ok THEN session ELSE SessionAfterError("pay")
    /\ paying' = (paying /\ ~(c.from = "index" /\ ok))
    /\ UNCHANGED <<lastStore, page, storeId, shown, cancelArmed, customerUserId, bounds, history>>
    /\ calls' = IF ok THEN With(calls \ {c}, "info", c.store, c.from, None) ELSE calls \ {c}

PaymentEnds(c, ok) ==
    /\ c.kind = "pay" /\ Answers(c, ok)
    /\ cached' = IF ok THEN cached \cup {c.store} ELSE cached
    /\ session' = IF ok THEN session ELSE SessionAfterError("pay")
    /\ paying' = (paying /\ c.from # "index")
    /\ UNCHANGED <<lastStore, page, storeId, shown, cancelArmed, customerUserId, bounds, history>>
    /\ calls' = IF ok THEN With(calls \ {c}, "info", c.store, c.from, None) ELSE calls \ {c}

------------------------------------------------------------------------------
(* The account page, over the home page. *)

(* loadData begins. *)
LoadCalls(m) == With(With(calls, "home", m, "account", None), "read", m, "account", None)

handleOpenAccount ==
    /\ page = "index" /\ lastStore # None /\ Room(2) /\ Tap
    /\ page' = "account" /\ storeId' = [storeId EXCEPT !["account"] = lastStore]
    /\ calls' = LoadCalls(lastStore)
    /\ UNCHANGED <<device, shown, paying, cancelArmed, customerUserId, history>>

Back ==
    /\ page = "account" /\ page' = "index"
    /\ storeId' = [storeId EXCEPT !["account"] = None]
    /\ cancelArmed' = FALSE /\ customerUserId' = None
    /\ calls' = Unmounted(calls, {"account"})
    /\ UNCHANGED <<device, shown, paying, bounds, history>>

loadData ==
    /\ page = "account" /\ Room(2) /\ Tap
    /\ calls' = LoadCalls(storeId["account"])
    /\ UNCHANGED <<device, pages, history>>

(* When both halves have answered, the notifications, preferences, tickets  *)
(* and the stability are asked; when one fails, nothing follows.            *)
DataEnds(c, ok) ==
    LET half == {d \in calls : d.kind \in {"home", "read"} /\ d.load = c.load /\ d # c}
        done == {d \in half : d.at = "done"}
    IN
    /\ c.kind \in {"home", "read"} /\ Answers(c, ok)
    /\ cached' = IF ok /\ c.kind = "home" THEN cached \cup {c.store} ELSE cached
    /\ session' = IF ok THEN session ELSE SessionAfterError(c.kind)
    /\ customerUserId' = IF ok /\ done # {} /\ c.from = "account" THEN session ELSE customerUserId
    /\ UNCHANGED <<lastStore, page, storeId, shown, paying, cancelArmed, bounds, history>>
    /\ calls' = IF ~ok THEN calls \ ({c} \cup done)
                ELSE IF done # {} THEN With(calls \ ({c} \cup done), "info", c.store, c.from, None)
                ELSE IF half # {} THEN (calls \ {c}) \cup {[c EXCEPT !.at = "done"]}
                ELSE calls \ {c}

(* handleSaveNotificationPreferences, handleSubmitFeedback: each refuses a  *)
(* second tap while it is saving, and reads the list again when it saved.   *)
Save ==
    /\ page = "account" /\ Room(1) /\ ~\E c \in calls : c.kind = "write" /\ c.from = "account"
    /\ Tap
    /\ calls' = With(calls, "write", storeId["account"], "account", None)
    /\ UNCHANGED <<device, pages, history>>

InformingEnds(c, ok) ==
    /\ c.kind \in {"info", "write"} /\ Answers(c, ok)
    /\ UNCHANGED <<device, pages, bounds, history>>
    /\ calls' = IF ok /\ c.kind = "write" THEN With(calls \ {c}, "info", c.store, c.from, None)
                ELSE calls \ {c}

Canceling == \E c \in calls : c.kind = "cancel" /\ c.from = "account"

(* The second tap cancels.  The user id is the page's, or whichever is kept.*)
handleCancelAccount ==
    /\ page = "account" /\ ~Canceling
    /\ UNCHANGED <<device, page, storeId, shown, paying, customerUserId, history>>
    /\ IF ~cancelArmed
       THEN cancelArmed' = TRUE /\ UNCHANGED <<calls, bounds>>
       ELSE LET user == IF customerUserId # None THEN customerUserId ELSE session IN
            IF user = None
            THEN cancelArmed' = FALSE /\ UNCHANGED <<calls, bounds>>
            ELSE /\ Room(1) /\ Tap /\ UNCHANGED cancelArmed
                 /\ calls' = With(calls, "cancel", storeId["account"], "account", user)

(* Mutant: clearCustomerSession leaves the last store. *)
CancelledMutant(c) ==
    /\ c.kind = "cancel" /\ Answers(c, TRUE)
    /\ session' = None /\ lastStore' = lastStore
    /\ cached' = IF c.user = c.store THEN cached \ {c.store} ELSE cached
    /\ departed' = c.store
    /\ untidy' = (calls # {c} \/ c.user # c.store)
    /\ UNCHANGED bounds
    /\ Bootstrap(None, Unmounted(calls \ {c}, {"index", "account"}))

(* The account is cancelled: clearCustomerSession for the resolved user,    *)
(* and the startup page, which has no store to go to.                       *)
Cancelled(c) ==
    /\ c.kind = "cancel" /\ Answers(c, TRUE)
    /\ session' = None /\ lastStore' = None
    /\ cached' = IF c.user = c.store THEN cached \ {c.store} ELSE cached
    /\ departed' = c.store
    /\ untidy' = (calls # {c} \/ c.user # c.store)
    /\ UNCHANGED bounds
    /\ Bootstrap(None, Unmounted(calls \ {c}, {"index", "account"}))

(* The answer may have been lost after the server had cancelled. *)
CancelFails(c) ==
    /\ c.kind = "cancel"
    /\ session' = SessionAfterError("cancel")
    /\ cancelArmed' = (cancelArmed /\ c.from # "account")
    /\ calls' = calls \ {c}
    /\ UNCHANGED <<lastStore, cached, page, storeId, shown, paying, customerUserId, bounds, history>>

------------------------------------------------------------------------------
Customer ==
    \/ \E entry \in Store : Launch(entry)
    \/ Close
    \/ \E m \in Merchant : handleScan(m)
    \/ loadSnapshot \/ handlePay \/ handleOpenAccount \/ Back
    \/ loadData \/ Save \/ handleCancelAccount

Answer ==
    \E c \in calls :
        \/ LoggedIn(c) \/ Exists(c) \/ ExistsNot(c) \/ ExistsFails(c)
        \/ Cancelled(c) \/ CancelFails(c)
        \/ \E ok \in BOOLEAN :
              Prefetched(c, ok) \/ SnapshotEnds(c, ok) \/ PaymentEnds(c, ok)
              \/ DataEnds(c, ok) \/ InformingEnds(c, ok)

Next == Customer \/ Answer

(* A request ends, with a response or with an error. *)
Fairness == WF_vars(Answer)

Spec == Init /\ [][Next]_vars /\ Fairness

------------------------------------------------------------------------------
(* Every request carries the token of the store it names, however stores    *)
(* are entered while calls of another are under way (ensureCustomerSession).*)
OwnToken == \A c \in calls : c.token \in {None, c.store}

(* A home page makes one payment at a time, and knows when it does: only a  *)
(* page that was replaced leaves one behind (handlePay).                    *)
PayingIsPayment ==
    LET payments == {c \in calls : c.kind = "pay" /\ c.from = "index"} IN
    paying = (payments # {}) /\ Cardinality(payments) <= 1

(* After a cancellation that met no other call, nothing of the customer is  *)
(* left on the device, and nothing logs in again, before a store is entered *)
(* by its code (handleCancelAccount, clearCustomerSession, bootstrap).      *)
CancelledStaysAway ==
    (departed # None /\ ~untidy) =>
        session = None /\ calls = {} /\ departed \notin cached /\ page \in {"closed", "scan"}

(* What every state of the mini program satisfies. *)
CustomerAppInvariant == CustomerAppTypeOK /\ OwnToken /\ PayingIsPayment /\ CancelledStaysAway

(* The startup page goes on to the store or to the scanner (bootstrap).     *)
ConnectingEnds == (page = "boot") ~> (page # "boot")

(* The payment button comes back (handlePay). *)
PayButtonReturns == paying ~> ~paying

==============================================================================
