-------------------------- MODULE PaymentLifecycle --------------------------
(***************************************************************************)
(* What the payment service promises about a payment, whatever its         *)
(* concurrency: it is opened once, waiting for the gateway or settled at   *)
(* once; a waiting payment is settled or fails, once and for good; and     *)
(* only a settled one is refunded, step by step, up to its order amount.   *)
(***************************************************************************)
EXTENDS Integers

VARIABLE book      \* the payments opened so far, by transaction id

Opened(t) ==
  /\ t \notin DOMAIN book
  /\ DOMAIN book' = DOMAIN book \cup {t}
  /\ book'[t].status \in {"PENDING_EXTERNAL", "PAID"}
  /\ book'[t].refunded = 0
  /\ \A s \in DOMAIN book : book'[s] = book[s]

Settled(t) ==
  /\ book[t].status = "PENDING_EXTERNAL"
  /\ book' = [book EXCEPT ![t].status = "PAID"]

Failed(t) ==
  /\ book[t].status = "PENDING_EXTERNAL"
  /\ book' = [book EXCEPT ![t].status = "EXTERNAL_FAILED"]

Refunded(t) ==
  /\ book[t].status = "PAID"
  /\ book'[t].refunded > book[t].refunded
  /\ book'[t].refunded <= book[t].amount
  /\ book' = [book EXCEPT ![t].refunded = book'[t].refunded]

Init == book = [t \in {} |-> 0]

Next ==
  \/ \E t \in DOMAIN book' : Opened(t)
  \/ \E t \in DOMAIN book : Settled(t) \/ Failed(t) \/ Refunded(t)

Spec == Init /\ [][Next]_book
=============================================================================
