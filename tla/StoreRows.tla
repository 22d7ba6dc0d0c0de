----------------------------- MODULE StoreRows ------------------------------
(***************************************************************************)
(* The rows of one store that its reports are computed from: payments with *)
(* their refunds and invoices, policy decisions, audit rows of the privacy *)
(* routes, and phone bindings.  Each action is a route of the server; the  *)
(* services behind them are modelled in detail elsewhere (PaymentService,  *)
(* PolicyDecision, CustomerAccounts), and here only what the reports read  *)
(* is kept.  Time is counted in the units of the report windows.           *)
(***************************************************************************)
EXTENDS Integers, Sequences

CONSTANTS Users,          \* customers
          Amount,         \* cents of an order
          Refunds,        \* cents of a refund
          Kinds,          \* what decisions may look like
          MaxPayments, MaxDecisions, MaxAudit, MaxClock     \* bounds

\* A decision is a run or a preview for an event; its retention says whether a
\* policy that keeps customers was executed (hit) or turned away (blocked).
Kind == [mode : {"EXECUTE", "EVALUATE"}, event : STRING, outcome : {"HIT", "BLOCKED", "NO_POLICY"},
         cost : Int, retention : {"none", "hit", "blocked"}, automatic : BOOLEAN]
\* What the values of the constants satisfy.  A preview executes nothing.
ASSUME RowsAssumption ==
    /\ Amount \in Nat /\ Amount > 0 /\ Refunds \subseteq 1..Amount
    /\ Kinds \subseteq Kind
    /\ \A k \in Kinds : k.mode = "EVALUATE" => k.outcome # "HIT" /\ k.cost = 0 /\ k.retention # "hit"
    /\ MaxPayments \in Nat /\ MaxDecisions \in Nat /\ MaxAudit \in Nat /\ MaxClock \in Nat \ {0}

VARIABLES now,            \* the clock
          payments,       \* paymentsByMerchant with the refunds, invoices, ledger and audit rows of each
          decisions,      \* policyOs.decisions
          audit,          \* auditLogs of the privacy actions
          bindings        \* customerPhoneBindingsByMerchant: when linked and last used, 0 if never
rvars == <<now, payments, decisions, audit, bindings>>

None == 0
Statuses == {"PAID", "PENDING_EXTERNAL", "EXTERNAL_FAILED"}
Payments == [user : Users, status : Statuses, at : 1..MaxClock, refunded : 0..Amount,
             invoiced : 0..MaxClock, traced : BOOLEAN]
Decisions == [user : Users, kind : Kinds, at : 1..MaxClock]
Audit == [ok : BOOLEAN, at : 1..MaxClock]

RowsTypeOK == /\ now \in 1..MaxClock
              /\ payments \in Seq(Payments) /\ Len(payments) <= MaxPayments
              /\ decisions \in Seq(Decisions) /\ Len(decisions) <= MaxDecisions
              /\ audit \in Seq(Audit)
              /\ bindings \in [Users -> [linked : 0..MaxClock, used : 0..MaxClock]]

RowsInit == /\ now = 1 /\ payments = <<>> /\ decisions = <<>> /\ audit = <<>>
            /\ bindings = [u \in Users |-> [linked |-> None, used |-> None]]

(* verifyPayment: paid at once, or left to the provider.  A route writes   *)
(* its audit row after the payment's transaction: a crash in between       *)
(* leaves the step unlogged.  Any row that names it traces a payment.      *)
Pay(u, status, logged) ==
    /\ Len(payments) < MaxPayments /\ status # "EXTERNAL_FAILED"
    /\ payments' = Append(payments, [user |-> u, status |-> status, at |-> now, refunded |-> 0,
                                     invoiced |-> None, traced |-> logged])
    /\ UNCHANGED <<now, decisions, audit, bindings>>

(* confirmExternalPayment: the provider's answer; the row keeps its time.  *)
Confirm(i, status, logged) ==
    /\ payments[i].status = "PENDING_EXTERNAL" /\ status # "PENDING_EXTERNAL"
    /\ payments' = [payments EXCEPT ![i].status = status, ![i].traced = @ \/ logged]
    /\ UNCHANGED <<now, decisions, audit, bindings>>

(* refundPayment                                                           *)
Refund(i, cents, logged) ==
    /\ payments[i].status = "PAID" /\ payments[i].refunded + cents <= Amount
    /\ payments' = [payments EXCEPT ![i].refunded = @ + cents, ![i].traced = @ \/ logged]
    /\ UNCHANGED <<now, decisions, audit, bindings>>

(* issueInvoice: one invoice for a paid payment.                           *)
Invoice(i, logged) ==
    /\ payments[i].status = "PAID" /\ payments[i].invoiced = None
    /\ payments' = [payments EXCEPT ![i].invoiced = now, ![i].traced = @ \/ logged]
    /\ UNCHANGED <<now, decisions, audit, bindings>>

(* evaluateEvent saves the decision of a run and of a preview alike.       *)
Decide(u, kind) ==
    /\ Len(decisions) < MaxDecisions
    /\ decisions' = Append(decisions, [user |-> u, kind |-> kind, at |-> now])
    /\ UNCHANGED <<now, payments, audit, bindings>>

(* A privacy route that answers writes a SUCCESS row ...                   *)
PrivacyDone == /\ Len(audit) < MaxAudit
               /\ audit' = Append(audit, [ok |-> TRUE, at |-> now])
               /\ UNCHANGED <<now, payments, decisions, bindings>>
(* ... and one that fails the DENIED or FAILED row of the request handler, *)
(* whoever of the store called it, allowed to or not.                      *)
PrivacyFailed == /\ Len(audit) < MaxAudit
                 /\ audit' = Append(audit, [ok |-> FALSE, at |-> now])
                 /\ UNCHANGED <<now, payments, decisions, bindings>>

(* A customer's login by phone.                                            *)
Login(u) ==
    /\ bindings[u].used # now
    /\ bindings' = [bindings EXCEPT ![u] = [linked |-> IF @.linked = None THEN now ELSE @.linked,
                                            used |-> now]]
    /\ UNCHANGED <<now, payments, decisions, audit>>

Tick == now < MaxClock /\ now' = now + 1 /\ UNCHANGED <<payments, decisions, audit, bindings>>

RowsNext ==
    \/ \E u \in Users, s \in Statuses, logged \in BOOLEAN : Pay(u, s, logged)
    \/ \E i \in DOMAIN payments, logged \in BOOLEAN :
          \/ \E s \in Statuses : Confirm(i, s, logged)
          \/ \E c \in Refunds : Refund(i, c, logged)
          \/ Invoice(i, logged)
    \/ \E u \in Users, k \in Kinds : Decide(u, k)
    \/ PrivacyDone \/ PrivacyFailed
    \/ \E u \in Users : Login(u)
    \/ Tick
=============================================================================
