------------------------ MODULE NotificationService ------------------------
(***************************************************************************)
(* Notifications of one merchant: the preference and the frequency cap of  *)
(* each recipient, the inbox, its pages, and what the web socket hub sends *)
(* to the sockets of a recipient.  A notification is known by its place in *)
(* notes, as its identifier is its number in the merchant's sequence.      *)
(* A request the tenant policy refuses (TenantQuota) changes nothing here. *)
(***************************************************************************)
EXTENDS Integers, Sequences, FiniteSets, Functions, SequencesExt

CONSTANTS Staff,       \* staff of the merchant, by operator identifier
          Owners,      \* the staff whose role is OWNER
          Users,       \* customers of the merchant
          Categories, ApprovalTodo, ExecutionResult,
          SwitchPatches, CapPatches,  \* what a preference call may carry
          DefaultCap,  \* [window, max] of ExecutionResult
          Retention,   \* time a notification stays in an inbox
          PageSize,
          Sockets,     \* sockets clients may hold
          Holder,      \* Holder[s]: the recipient the token of socket s names
          MaxTime, MaxEmits, MaxCalls      \* bounds

MerchantStaff == "MERCHANT_STAFF"
CustomerUser == "CUSTOMER_USER"
Recipients == [type : {MerchantStaff}, id : Staff] \cup [type : {CustomerUser}, id : Users]

\* What the values of the constants satisfy: a patch names some categories.
Cap == [window : Int, max : Int]
ASSUME NotificationAssumption ==
    /\ IsFiniteSet(Staff) /\ IsFiniteSet(Users) /\ Owners \subseteq Staff
    /\ {ApprovalTodo, ExecutionResult} \subseteq Categories
    /\ \A patch \in SwitchPatches : \A c \in DOMAIN patch : patch[c] \in BOOLEAN
    /\ \A patch \in CapPatches : \A c \in DOMAIN patch : c \in Categories /\ patch[c] \in Cap
    /\ DefaultCap \in Cap /\ DefaultCap.window > 0 /\ DefaultCap.max > 0
    /\ Retention \in Nat /\ PageSize \in Nat \ {0} /\ Holder \in [Sockets -> Recipients]
    /\ MaxTime \in Nat /\ MaxEmits \in Nat /\ MaxCalls \in Nat

VARIABLES
    clock,
    preferences,  \* preferences[r].off: categories switched off; .caps: saved caps
    dispatchState,     \* dispatchState[<<r, c>>]: the deliveries counted by the cap
    notes,        \* every notification, in the order of creation
    audit,        \* deliveries suppressed
    sockets,      \* sockets[s].open; .unread: unread identifiers its messages tell of
    reading,      \* pages one recipient reads with the cursor of the last answer
    since,        \* ghost: Len(notes) when the preference of r was last set
    emits, calls  \* bounds
nvars == <<clock, preferences, dispatchState, notes, audit, sockets, reading, since, emits, calls>>

NoReading == [who |-> {}, status |-> "ALL", cursor |-> 0, pages |-> <<>>, began |-> {},
              more |-> FALSE]

NotificationInit ==
    /\ clock = 0 /\ notes = <<>> /\ audit = <<>> /\ emits = 0 /\ calls = 0
    /\ preferences = [r \in Recipients |-> [off |-> {}, caps |-> <<>>]]
    /\ dispatchState = [k \in Recipients \X Categories |-> {}]
    /\ sockets = [s \in Sockets |-> [open |-> FALSE, unread |-> {}]]
    /\ reading = NoReading
    /\ since = [r \in Recipients |-> 0]

-----------------------------------------------------------------------------
(* Preferences.  A saved map is laid over the default cap, so the cap on   *)
(* ExecutionResult can be changed and never removed.                       *)
normalizeCategorySwitches(patch, off) ==
    {c \in Categories : IF c \in DOMAIN patch THEN ~patch[c] ELSE c \in off}

normalizeFrequencyCaps(patch, base) ==
    LET valid(c) == patch[c].window > 0 /\ patch[c].max > 0
        dropped == {c \in DOMAIN patch : ~valid(c)}
    IN  [c \in (DOMAIN base \cup DOMAIN patch) \ dropped |->
            IF c \in DOMAIN patch THEN patch[c] ELSE base[c]]

getRecipientPreference(r) ==
    [off |-> preferences[r].off,
     caps |-> normalizeFrequencyCaps(preferences[r].caps, [c \in {ExecutionResult} |-> DefaultCap])]

setRecipientPreference(r, switches, caps) ==
    LET current == getRecipientPreference(r) IN
    /\ switches /= <<>> \/ caps /= <<>>            \* an empty patch is refused
    /\ preferences' = [preferences EXCEPT ![r] =
           [off  |-> normalizeCategorySwitches(switches, current.off),
            caps |-> normalizeFrequencyCaps(caps, current.caps)]]
    /\ since' = [since EXCEPT ![r] = Len(notes)]

-----------------------------------------------------------------------------
(* Delivery.  db is the part of the state a delivery writes; the sockets   *)
(* are told after the save, in the same turn of the event loop.  A delivery *)
(* the cap counts is known by its notification, which has its time.        *)
DeliveryState == [dispatchState |-> dispatchState, notes |-> notes, audit |-> audit,
                  sockets |-> sockets]

retainedMutant(db, counted, cap) == {i \in counted : db.notes[i].createdAt > clock - cap.window}
retained(db, counted, cap) == {i \in counted : db.notes[i].createdAt >= clock - cap.window}

(* The answer of shouldDeliverNotification and the deliveries it keeps.    *)
shouldDeliverNotification(db, r, c) ==
    LET preference == getRecipientPreference(r)
        counted == db.dispatchState[<<r, c>>]
        kept == retained(db, counted, preference.caps[c])
    IN  IF c \in preference.off
        THEN [allowed |-> FALSE, reason |-> "PREFERENCE_DISABLED", counted |-> counted]
        ELSE IF c \notin DOMAIN preference.caps
        THEN [allowed |-> TRUE, reason |-> "", counted |-> counted]
        ELSE IF Cardinality(kept) >= preference.caps[c].max
        THEN [allowed |-> FALSE, reason |-> "FREQUENCY_CAP_REACHED", counted |-> kept]
        ELSE [allowed |-> TRUE, reason |-> "", counted |-> kept \cup {Len(db.notes) + 1}]

isRecipientMatchedMutant(s, r) == Holder[s].type = r.type
isRecipientMatched(s, r) ==
    /\ Holder[s].type = r.type
    /\ Holder[s].id = r.id

(* The sockets after a message to r of notifications created or read.      *)
broadcastToRecipients(socks, r, created, read) ==
    [s \in Sockets |->
        IF socks[s].open /\ isRecipientMatched(s, r)
        THEN [socks[s] EXCEPT !.unread = (@ \cup created) \ read]
        ELSE socks[s]]

(* A suppressed delivery is not logged.                                    *)
createNotificationMutant(db, r, c, about) ==
    LET delivery == shouldDeliverNotification(db, r, c)
        note == [to |-> r, category |-> c, about |-> about, createdAt |-> clock,
                 expiresAt |-> clock + Retention, status |-> "UNREAD"]
    IN  IF ~delivery.allowed THEN db
        ELSE [dispatchState |-> [db.dispatchState EXCEPT ![<<r, c>>] = delivery.counted],
              notes |-> Append(db.notes, note), audit |-> db.audit,
              sockets |-> broadcastToRecipients(db.sockets, r, {Len(db.notes) + 1}, {})]
createNotification(db, r, c, about) ==
    LET delivery == shouldDeliverNotification(db, r, c)
        counted == [db.dispatchState EXCEPT ![<<r, c>>] = delivery.counted]
        note == [to |-> r, category |-> c, about |-> about, createdAt |-> clock,
                 expiresAt |-> clock + Retention, status |-> "UNREAD"]
        entry == [to |-> r, category |-> c, about |-> about, reason |-> delivery.reason]
    IN  IF delivery.allowed
        THEN [dispatchState |-> counted, notes |-> Append(db.notes, note), audit |-> db.audit,
              sockets |-> broadcastToRecipients(db.sockets, r, {Len(db.notes) + 1}, {})]
        ELSE [dispatchState |-> counted, notes |-> db.notes, audit |-> Append(db.audit, entry),
              sockets |-> db.sockets]

(* One recipient after the other.                                          *)
createAll(db, rs, c, about) ==
    LET after[n \in 0..Len(rs)] == IF n = 0 THEN db
                                   ELSE createNotification(after[n - 1], rs[n], c, about)
    IN  after[Len(rs)]

Deliver(db) == /\ dispatchState' = db.dispatchState /\ notes' = db.notes
               /\ audit' = db.audit /\ sockets' = db.sockets

listMerchantStaffRecipientIds(roles) ==
    SetToSeq({[type |-> MerchantStaff, id |-> i] : i \in roles})

-----------------------------------------------------------------------------
(* The inbox of a recipient: what is addressed to it and has not expired,  *)
(* newest first, equal times by identifier.                                *)
Owned(r) == {i \in DOMAIN notes : notes[i].to = r /\ notes[i].expiresAt >= clock}
Newer(i, j) == \/ notes[i].createdAt > notes[j].createdAt
               \/ notes[i].createdAt = notes[j].createdAt /\ i > j
listRowsForRecipient(r, status) == {i \in Owned(r) : status = "ALL" \/ notes[i].status = status}

(* Rows past the cursor, the last row answered, by its time and number.    *)
PastMutant(cursor, i) == cursor = 0 \/ notes[cursor].createdAt > notes[i].createdAt
Past(cursor, i) == cursor = 0 \/ Newer(cursor, i)

(* A page is the newest PageSize of the rows past the cursor.              *)
listInbox(r, status, cursor) ==
    LET filtered == {i \in listRowsForRecipient(r, status) : Past(cursor, i)}
    IN  [items |-> {i \in filtered : Cardinality({j \in filtered : Newer(j, i)}) < PageSize},
         hasMore |-> Cardinality(filtered) > PageSize]
lastItem(items) == CHOOSE i \in items : \A j \in items : j = i \/ Newer(j, i)

(* Only unread rows of the caller are marked, and only these are announced.*)
markRead(r, ids, markAll) ==
    LET targets == {i \in listRowsForRecipient(r, "UNREAD") : markAll \/ i \in ids}
    IN  /\ notes' = [i \in DOMAIN notes |-> IF i \in targets THEN [notes[i] EXCEPT !.status = "READ"]
                                           ELSE notes[i]]
        /\ sockets' = IF targets = {} THEN sockets
                      ELSE broadcastToRecipients(sockets, r, {}, targets)

-----------------------------------------------------------------------------
(* The calls of the policy service (server.ts:131-135).                    *)
emitApprovalTodo ==
    /\ emits < MaxEmits /\ emits' = emits + 1
    /\ Deliver(createAll(DeliveryState, listMerchantStaffRecipientIds(Owners), ApprovalTodo,
                         <<"approval", emits', 0>>))
    /\ UNCHANGED <<clock, preferences, reading, since, calls>>

(* A decision run for user, or for nobody when users is empty.             *)
emitExecutionResult(users) ==
    /\ emits < MaxEmits /\ emits' = emits + 1
    /\ Deliver(createAll(DeliveryState,
                   listMerchantStaffRecipientIds(Staff)
                     \o SetToSeq({[type |-> CustomerUser, id |-> u] : u \in users}),
                   ExecutionResult, <<"decision", emits', 0>>))
    /\ UNCHANGED <<clock, preferences, reading, since, calls>>

(* The routes.  A caller names no recipient: its token does.               *)
PutPreferences(r) ==
    /\ calls < MaxCalls /\ calls' = calls + 1
    /\ \E switches \in SwitchPatches, caps \in CapPatches : setRecipientPreference(r, switches, caps)
    /\ UNCHANGED <<clock, dispatchState, notes, audit, sockets, reading, emits>>

PostRead(r) ==
    /\ calls < MaxCalls /\ calls' = calls + 1
    /\ \E markAll \in BOOLEAN, i \in DOMAIN notes : markRead(r, {i}, markAll)
    /\ UNCHANGED <<clock, preferences, dispatchState, audit, reading, since, emits>>

(* The first page, or the next one with the cursor of the page before.     *)
GetInbox(r) ==
    /\ calls < MaxCalls /\ calls' = calls + 1
    /\ \E status \in {"ALL", "UNREAD", "READ"}, next \in BOOLEAN :
        LET asked == IF next THEN reading
                     ELSE [NoReading EXCEPT !.began = listRowsForRecipient(r, status)]
            page == listInbox(r, status, asked.cursor)
        IN  /\ next => reading.more /\ reading.who = {r} /\ reading.status = status
            /\ reading' = [who |-> {r}, status |-> status, began |-> asked.began,
                           pages |-> Append(asked.pages, page.items), more |-> page.hasMore,
                           cursor |-> IF page.items = {} THEN asked.cursor ELSE lastItem(page.items)]
    /\ UNCHANGED <<clock, preferences, dispatchState, notes, audit, sockets, since, emits>>

(* A socket opens; its client reads the unread list over HTTP.             *)
handleUpgrade(s) ==
    /\ ~sockets[s].open
    /\ sockets' = [sockets EXCEPT ![s] =
           [open |-> TRUE,
            unread |-> {i \in DOMAIN notes : notes[i].to = Holder[s] /\ notes[i].status = "UNREAD"}]]
    /\ UNCHANGED <<clock, preferences, dispatchState, notes, audit, reading, since, emits, calls>>

cleanupClient(s) ==
    /\ sockets[s].open
    /\ sockets' = [sockets EXCEPT ![s] = [open |-> FALSE, unread |-> {}]]
    /\ UNCHANGED <<clock, preferences, dispatchState, notes, audit, reading, since, emits, calls>>

Tick == /\ clock < MaxTime /\ clock' = clock + 1
        /\ UNCHANGED <<preferences, dispatchState, notes, audit, sockets, reading, since, emits, calls>>

(* The steps caps depend on, and every step.                               *)
PreferencesNext ==
    \/ \E users \in {{}} \cup {{u} : u \in Users} : emitExecutionResult(users)
    \/ \E r \in Recipients : PutPreferences(r)
    \/ Tick

NotificationNext ==
    \/ PreferencesNext
    \/ emitApprovalTodo
    \/ \E r \in Recipients : PostRead(r) \/ GetInbox(r)
    \/ \E s \in Sockets : handleUpgrade(s) \/ cleanupClient(s)

NotificationSpec == NotificationInit /\ [][NotificationNext]_nvars

-----------------------------------------------------------------------------
(* Every part of the state has its type; the deliveries a cap counts are   *)
(* notifications of its recipient and category.                            *)
NotificationTypeOK ==
    /\ clock \in 0..MaxTime /\ emits \in 0..MaxEmits /\ calls \in 0..MaxCalls
    /\ \A r \in Recipients :
        /\ preferences[r].off \subseteq Categories
        /\ DOMAIN preferences[r].caps \subseteq Categories
        /\ \A c \in DOMAIN preferences[r].caps :
            preferences[r].caps[c].window > 0 /\ preferences[r].caps[c].max > 0
        /\ since[r] \in 0..Len(notes)
        /\ \A c \in Categories : dispatchState[<<r, c>>] \subseteq
                {i \in DOMAIN notes : notes[i].to = r /\ notes[i].category = c}
    /\ \A i \in DOMAIN notes : /\ notes[i].to \in Recipients /\ notes[i].category \in Categories
                               /\ notes[i].createdAt \in 0..clock /\ notes[i].status \in {"UNREAD", "READ"}
    /\ \A s \in Sockets : sockets[s].unread \subseteq DOMAIN notes

(* shouldDeliverNotification and setRecipientPreference: since a recipient *)
(* last set its preference, no window of the cap's length holds more       *)
(* deliveries of the category than the cap allows, and there always is a   *)
(* cap on execution results.                                               *)
InWindow(r, c, window) == {i \in since[r] + 1..Len(notes) : /\ notes[i].to = r /\ notes[i].category = c
                                                            /\ notes[i].createdAt >= clock - window}
CapHolds ==
    \A r \in Recipients :
        LET caps == getRecipientPreference(r).caps IN
        /\ ExecutionResult \in DOMAIN caps
        /\ \A c \in DOMAIN caps : Cardinality(InWindow(r, c, caps[c].window)) <= caps[c].max

(* broadcastToRecipients: what an open socket was told, added to what was  *)
(* unread when it opened, is what is unread now, no more (nobody else's    *)
(* notification reaches it) and no less.                                   *)
SocketsKnowUnread ==
    \A s \in Sockets : sockets[s].open =>
        sockets[s].unread = {i \in DOMAIN notes : notes[i].to = Holder[s] /\ notes[i].status = "UNREAD"}

(* listInbox: the pages of one reading repeat no notification, and once    *)
(* the last page is read they hold every one that was listed for the first *)
(* page and still is, whatever was created or read in between.             *)
PagesComplete ==
    /\ \A k, l \in DOMAIN reading.pages : k # l => reading.pages[k] \cap reading.pages[l] = {}
    /\ reading.who # {} /\ ~reading.more =>
        \A r \in reading.who : reading.began \cap listRowsForRecipient(r, reading.status)
                                \subseteq UNION Range(reading.pages)
=============================================================================
