-------------------------- MODULE NotificationDots --------------------------
(***************************************************************************)
(* The unread dots of the merchant app (useNotificationDots.ts): a poll    *)
(* every 45 seconds, and one at each change of session, asks the server    *)
(* for the unread summary and shows the answer whenever it comes.          *)
(***************************************************************************)
EXTENDS Integers, FiniteSets

CONSTANTS Stores,      \* stores the owner may be logged in to
          MaxUnread, MaxChanges, MaxSwitches, MaxFailures,
          MaxInFlight  \* polls that wait for an answer at once

VARIABLES
    unread,    \* unread[m]: the summary the server would give now
    session,   \* the stores logged in to: none or one
    dots,      \* what the dots show
    asked,     \* polls under way: [store, answer, answered]
    changes, switches, failures  \* bounds
dvars == <<unread, session, dots, asked, changes, switches, failures>>

DotsInit ==
    /\ unread = [m \in Stores |-> 0] /\ session = {} /\ dots = 0 /\ asked = {}
    /\ changes = 0 /\ switches = 0 /\ failures = 0

(* A notification is created, read or expires.                             *)
ServerChanges(m, n) ==
    /\ changes < MaxChanges /\ changes' = changes + 1
    /\ unread' = [unread EXCEPT ![m] = n]
    /\ UNCHANGED <<session, dots, asked, switches, failures>>

Poll(m) == [store |-> m, answer |-> 0, answered |-> FALSE]

(* Login, logout or another store: the effect runs refresh at once; a      *)
(* refresh without a session empties the dots.                             *)
SessionChanges(s) ==
    /\ switches < MaxSwitches /\ switches' = switches + 1 /\ s /= session
    /\ session' = s
    /\ IF s = {} THEN dots' = 0 /\ UNCHANGED asked
       ELSE asked' = asked \cup {Poll(m) : m \in s} /\ UNCHANGED dots
    /\ UNCHANGED <<unread, changes, failures>>

(* The timer of the present session.                                       *)
TimerMutant ==
    /\ failures = 0 /\ session /= {} /\ Cardinality(asked) < MaxInFlight
    /\ asked' = asked \cup {Poll(m) : m \in session}
    /\ UNCHANGED <<unread, session, dots, changes, switches, failures>>
Timer ==
    /\ session /= {} /\ Cardinality(asked) < MaxInFlight
    /\ asked' = asked \cup {Poll(m) : m \in session}
    /\ UNCHANGED <<unread, session, dots, changes, switches, failures>>

(* getUnreadSummary runs at the server.                                    *)
ServerAnswers(p) ==
    /\ ~p.answered
    /\ asked' = (asked \ {p}) \cup {[p EXCEPT !.answered = TRUE, !.answer = unread[p.store]]}
    /\ UNCHANGED <<unread, session, dots, changes, switches, failures>>

(* The answer arrives, in any order, and is shown whatever session asked.  *)
Show(p) ==
    /\ p.answered
    /\ dots' = p.answer /\ asked' = asked \ {p}
    /\ UNCHANGED <<unread, session, changes, switches, failures>>

(* The poll fails: the error is shown and the dots stay.                   *)
Fails(p) ==
    /\ failures < MaxFailures /\ failures' = failures + 1
    /\ asked' = asked \ {p}
    /\ UNCHANGED <<unread, session, dots, changes, switches>>

DotsNext ==
    \/ \E m \in Stores, n \in 0..MaxUnread : ServerChanges(m, n)
    \/ \E s \in {{}} \cup {{m} : m \in Stores} : SessionChanges(s)
    \/ Timer
    \/ \E p \in asked : ServerAnswers(p) \/ Show(p) \/ Fails(p)

Polls == [store : Stores, answer : 0..MaxUnread, answered : BOOLEAN]

(* The timer fires again and again, and every request ends.                *)
DotsFairness == /\ WF_dvars(Timer)
                /\ \A p \in Polls : WF_dvars(p \in asked /\ (ServerAnswers(p) \/ Show(p)))

DotsSpec == DotsInit /\ [][DotsNext]_dvars /\ DotsFairness

-----------------------------------------------------------------------------
(* Every part of the state has its type.                                   *)
DotsTypeOK == /\ unread \in [Stores -> 0..MaxUnread] /\ dots \in 0..MaxUnread
              /\ session \in {{}} \cup {{m} : m \in Stores} /\ asked \subseteq Polls

(* refresh and its timer: once the server and the session stay as they are *)
(* the dots come to show the summary of the store logged in to and keep    *)
(* showing it, whatever answers came late or failed.                       *)
DotsCatchUp == <>[](session /= {} => \A m \in session : dots = unread[m])
=============================================================================
