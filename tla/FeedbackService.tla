-------------------------- MODULE FeedbackService --------------------------
(***************************************************************************)
(* Feedback tickets of the customers and the notifications their routes    *)
(* send.  A ticket is known by its number in the merchant's sequence.      *)
(***************************************************************************)
EXTENDS NotificationService

CONSTANTS FeedbackTicket,  \* the category of the notifications
          Managers,        \* FEEDBACK_MANAGE_ROLES: the staff whose role is OWNER or MANAGER
          MaxTickets       \* bound

\* What the values of the constants satisfy.
ASSUME FeedbackAssumption ==
    /\ FeedbackTicket \in Categories /\ Managers \subseteq Staff
    /\ MaxTickets \in Nat /\ "STAFF" \notin Users

Statuses == {"OPEN", "IN_PROGRESS", "RESOLVED", "CLOSED"}
TRANSITION_RULES == [OPEN |-> {"IN_PROGRESS"}, IN_PROGRESS |-> {"RESOLVED"},
                     RESOLVED |-> {"IN_PROGRESS", "CLOSED"}, CLOSED |-> {"IN_PROGRESS"}]

VARIABLES
    tickets,  \* [user, status, updatedAt, timeline]
    paging    \* pages of the ticket list that one requester asks for
fvars == <<nvars, tickets, paging>>

NoCursor == [at |-> 0, ticket |-> 0]
NoPaging == [who |-> {}, cursor |-> NoCursor, pages |-> <<>>, began |-> 0, at |-> 0, more |-> FALSE]

FeedbackInit == NotificationInit /\ tickets = <<>> /\ paging = NoPaging

(* The n-th event of a ticket, as a notification is about it.              *)
About(t, n) == <<"ticket", t, n>>

createTicket(u) ==
    [user |-> u, status |-> "OPEN", updatedAt |-> clock,
     timeline |-> <<[from |-> "", to |-> "OPEN", at |-> clock]>>]

(* The customer's call: the ticket is saved, then the staff that may       *)
(* manage it is told.                                                      *)
PostTicket(u) ==
    /\ Len(tickets) < MaxTickets
    /\ tickets' = Append(tickets, createTicket(u))
    /\ Deliver(createAll(DeliveryState, listMerchantStaffRecipientIds(Managers), FeedbackTicket,
                         About(Len(tickets'), 1)))
    /\ UNCHANGED <<clock, preferences, reading, since, emits, calls, paging>>

transitionTicketMutant(ticket, to) ==
    [ticket EXCEPT !.status = to,
                   !.timeline = Append(@, [from |-> ticket.status, to |-> to, at |-> clock])]
transitionTicket(ticket, to) ==
    [ticket EXCEPT !.status = to, !.updatedAt = clock,
                   !.timeline = Append(@, [from |-> ticket.status, to |-> to, at |-> clock])]

(* The staff's call: an unknown status, the present one (409) and one the  *)
(* rules do not allow (409) change nothing and tell nobody.                *)
PostTransition(t, to) ==
    /\ calls < MaxCalls /\ calls' = calls + 1
    /\ to \in TRANSITION_RULES[tickets[t].status]
    /\ tickets' = [tickets EXCEPT ![t] = transitionTicket(@, to)]
    /\ Deliver(createNotification(DeliveryState, [type |-> CustomerUser, id |-> tickets[t].user],
                                  FeedbackTicket, About(t, Len(tickets'[t].timeline))))
    /\ UNCHANGED <<clock, preferences, reading, since, emits, paging>>

(* The rows of the list, last updated first; a customer gets its own.      *)
LaterUpdated(t, u) == \/ tickets[t].updatedAt > tickets[u].updatedAt
                      \/ tickets[t].updatedAt = tickets[u].updatedAt /\ t > u

(* The cursor is the time and the number of the last row of a page.        *)
PastTicketMutant(cursor, t) == cursor = NoCursor \/ tickets[t].updatedAt < cursor.at
PastTicket(cursor, t) ==
    \/ cursor = NoCursor
    \/ tickets[t].updatedAt < cursor.at
    \/ tickets[t].updatedAt = cursor.at /\ t < cursor.ticket

(* What getTicket answers: a customer sees its own tickets only.           *)
ensureTicketAccess(requester, t) == requester \in {"STAFF", tickets[t].user}
getTicket(requester, t) == IF ensureTicketAccess(requester, t) THEN tickets[t].timeline ELSE <<>>

listTickets(requester, cursor) ==
    LET filtered == {t \in DOMAIN tickets : ensureTicketAccess(requester, t) /\ PastTicket(cursor, t)}
    IN  [items |-> {t \in filtered : Cardinality({u \in filtered : LaterUpdated(u, t)}) < PageSize},
         hasMore |-> Cardinality(filtered) > PageSize]
lastTicket(items) == CHOOSE t \in items : \A u \in items : u = t \/ LaterUpdated(u, t)

GetTickets(requester) ==
    /\ calls < MaxCalls /\ calls' = calls + 1
    /\ \E next \in BOOLEAN :
        LET asked == IF next THEN paging ELSE [NoPaging EXCEPT !.began = Len(tickets), !.at = clock]
            page == listTickets(requester, asked.cursor)
            last == lastTicket(page.items)
        IN  /\ next => paging.more /\ paging.who = {requester}
            /\ paging' = [who |-> {requester}, began |-> asked.began, at |-> asked.at,
                          pages |-> Append(asked.pages, page.items), more |-> page.hasMore,
                          cursor |-> IF page.items = {} THEN asked.cursor
                                     ELSE [at |-> tickets[last].updatedAt, ticket |-> last]]
    /\ UNCHANGED <<clock, preferences, dispatchState, notes, audit, sockets, reading, since, emits,
                   tickets>>

FeedbackNext ==
    \/ \E u \in Users : PostTicket(u)
    \/ \E t \in DOMAIN tickets, to \in Statuses : PostTransition(t, to)
    \/ \E requester \in {"STAFF"} \cup Users : GetTickets(requester)
    \/ NotificationNext /\ UNCHANGED <<tickets, paging>>

FeedbackSpec == FeedbackInit /\ [][FeedbackNext]_fvars

-----------------------------------------------------------------------------
(* The tickets and the pages of their list have their types.               *)
FeedbackTypeOK ==
    /\ NotificationTypeOK
    /\ \A t \in DOMAIN tickets :
        /\ tickets[t].user \in Users /\ tickets[t].status \in Statuses
        /\ tickets[t].status = Last(tickets[t].timeline).to
        /\ tickets[t].updatedAt = Last(tickets[t].timeline).at
    /\ UNION Range(paging.pages) \subseteq DOMAIN tickets

(* The routes of feedbackRoutes.ts: every event its customer can read of a *)
(* ticket is either in the customer's inbox (its creation: in that of each *)
(* owner and manager) or in the audit log as a suppressed delivery, once,  *)
(* and nobody else is told.                                                *)
Told(r, about) == Cardinality({i \in DOMAIN notes : notes[i].to = r /\ notes[i].about = about})
                  + Cardinality({i \in DOMAIN audit : audit[i].to = r /\ audit[i].about = about})
ToldOf(t, n) == IF n = 1 THEN {[type |-> MerchantStaff, id |-> i] : i \in Managers}
                ELSE {[type |-> CustomerUser, id |-> tickets[t].user]}
TicketNewsDelivered ==
    \A t \in DOMAIN tickets : \A n \in DOMAIN getTicket(tickets[t].user, t) :
        \A r \in Recipients : Told(r, About(t, n)) = IF r \in ToldOf(t, n) THEN 1 ELSE 0

(* listTickets with a cursor: the pages of one reading repeat no ticket,   *)
(* and those the last page ends without are tickets that were updated      *)
(* after the first page was read (or in the same instant).                 *)
TicketPagesMissUpdatedOnly ==
    /\ \A k, l \in DOMAIN paging.pages : k # l => paging.pages[k] \cap paging.pages[l] = {}
    /\ ~paging.more =>
        \A who \in paging.who : \A t \in 1..paging.began :
            ensureTicketAccess(who, t) => \/ t \in UNION Range(paging.pages)
                                          \/ tickets[t].updatedAt >= paging.at

(* No window holds more deliveries than the cap, sockets tell exactly what  *)
(* is unread, pages of the inbox repeat and miss nothing; every event of a  *)
(* ticket is told or its suppression logged, and pages of tickets miss only *)
(* what was updated meanwhile.                                              *)
InboxInvariant ==
    /\ FeedbackTypeOK /\ CapHolds /\ SocketsKnowUnread /\ PagesComplete
    /\ TicketNewsDelivered /\ TicketPagesMissUpdatedOnly
=============================================================================
