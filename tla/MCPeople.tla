------------------------------ MODULE MCPeople ------------------------------
(***************************************************************************)
(* The people of a store, as separate behaviours.  What reaches them:      *)
(* preferences and frequency caps; inboxes and sockets; feedback tickets;  *)
(* the broadcast of decisions; the unread dots of the merchant app.  Who   *)
(* they are: the owners' logins and stores; the customers' accounts,       *)
(* payments and cancellations, at one store and in an alliance of two; the *)
(* streak an entry is decided on.                                          *)
(***************************************************************************)
EXTENDS FeedbackService, RealtimeHub, MerchantAccounts, CustomerAccounts, ActivationContext, TLC

CONSTANTS chief, clerk, guest, s1, m1, m2, c1, c2, p2, i1, i2

Chief == [type |-> "MERCHANT_STAFF", id |-> chief]
Clerk == [Chief EXCEPT !.id = clerk]
MCStaff == {chief, clerk}
MCOwners == {chief}
MCManagers == {chief}
MCUsers == {guest}
Cats == {"APPROVAL_TODO", "EXECUTION_RESULT", "FEEDBACK_TICKET"}
CapOf(w, n) == [window |-> w, max |-> n]
Switch == {<<>>, "EXECUTION_RESULT" :> FALSE, "FEEDBACK_TICKET" :> FALSE}
CapsAsked == {<<>>, "EXECUTION_RESULT" :> CapOf(2, 1), "EXECUTION_RESULT" :> CapOf(0, 1)}
OneInOne == CapOf(1, 2)

\* Values of constants: the chief has a socket; each merchant has a client; only one
\* provider tells a phone.
ChiefHolds == s1 :> Chief
OneClientEach == c1 :> m1 @@ c2 :> m2
AlipayTells == i1 :> {} @@ i2 :> {p2}

VARIABLES part, unread, session, dots, asked, changes, switches, failures

D == INSTANCE NotificationDots WITH
        Stores <- {m1, m2}, MaxUnread <- 2, MaxChanges <- 2, MaxSwitches <- 2,
        MaxFailures <- 1, MaxInFlight <- 2

dvars == <<unread, session, dots, asked, changes, switches, failures>>
reached == <<fvars, hvars, dvars>>
known == <<mvars, cvars, avars>>
allVars == <<part, reached, known>>

Init == /\ part \in {"preferences", "inboxes", "feedback", "hub", "dots",
                     "owners", "customers", "alliance", "entries"}
        /\ FeedbackInit
        /\ HubInit /\ D!DotsInit /\ MerchantInit /\ CustomerInit /\ ActivationInit
\* who may change what: preferences of two recipients while decisions are announced;
\* the chief's inbox or socket while preferences stay; tickets and what their routes send
Settled(category) == /\ preferences'[Clerk] = preferences[Clerk]
                     /\ \A r \in Recipients : category \notin preferences'[r].off
Inboxes == /\ UNCHANGED preferences
           /\ clock' <= 2 /\ emits' <= 2
           /\ reading'.who \subseteq {Chief}
           /\ reading'.who = {} \/ \A s \in Sockets : ~sockets'[s].open
\* many logins at one store; one phone, payments and copies in an alliance of two
OneStore == /\ users'[m2] = {} /\ alliance' = alliance
            /\ Len(logins') + Len(rows') + ops' <= 6
Alliance == /\ Len(logins') <= 2 /\ Len(rows') <= 3 /\ alliance'[m1] = alliance[m1]
            /\ \A m \in Stores : /\ p2 \notin users'[m] /\ identityOf'[m][i2] = NoUser
                                 /\ \A u \in Phones : ~profile'[m][u].named
Next == /\ part' = part
        /\ \/ /\ part = "preferences" /\ PreferencesNext /\ UNCHANGED <<tickets, paging, hvars, dvars, known>>
              /\ Settled("FEEDBACK_TICKET") /\ calls' <= 2 /\ clock' + emits' + calls' <= 6
           \/ /\ part = "inboxes" /\ NotificationNext /\ UNCHANGED <<tickets, paging, hvars, dvars, known>>
              /\ Inboxes
           \/ /\ part = "feedback" /\ FeedbackNext /\ UNCHANGED <<hvars, dvars, known>>
              /\ Settled("EXECUTION_RESULT") /\ emits' = 0 /\ clock' <= 2 /\ UNCHANGED <<sockets, reading>>
              /\ \A i \in DOMAIN notes' : notes'[i].status = "UNREAD"
           \/ part = "hub" /\ HubNext /\ UNCHANGED <<fvars, dvars, known>>
           \/ part = "dots" /\ D!DotsNext /\ UNCHANGED <<fvars, hvars, known>>
           \/ part = "owners" /\ MerchantNext /\ UNCHANGED <<reached, cvars, avars>>
           \/ part = "customers" /\ CustomerNext /\ OneStore /\ UNCHANGED <<reached, mvars, avars>>
           \/ part = "alliance" /\ CustomerNext /\ Alliance /\ UNCHANGED <<reached, mvars, avars>>
           \/ part = "entries" /\ ActivationNext /\ UNCHANGED <<reached, mvars, cvars>>
Spec == Init /\ [][Next]_allVars /\ (part = "dots" => D!DotsFairness)

(* The dots settle on the unread summary (NotificationDots).                *)
DotsCatchUp == part = "dots" => D!DotsCatchUp
=============================================================================
