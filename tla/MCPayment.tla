----------------------------- MODULE MCPayment ------------------------------
(***************************************************************************)
(* Small instances of PaymentService for TLC.                              *)
(***************************************************************************)
EXTENDS PaymentService, TLC

CONSTANTS m1, m2, u1, k1, k2, k3, k4

Verify(m, u, amount, key) ==
  [op |-> "verify", merchantId |-> m, userId |-> u, txn |-> 0,
   amount |-> amount, success |-> TRUE, key |-> key]

Callback(m, txn, amount, success, key) ==
  [op |-> "callback", merchantId |-> m, userId |-> NoUser, txn |-> txn,
   amount |-> amount, success |-> success, key |-> key]

Refund(m, u, txn, amount, key) ==
  [op |-> "refund", merchantId |-> m, userId |-> u, txn |-> txn,
   amount |-> amount, success |-> TRUE, key |-> key]

\* The second voucher expires first, so it is tried first while it lives.
MCVoucherBook ==
  [v \in VoucherIds |-> [value |-> 2 * v, minSpend |-> 4, expiresAt |-> 3 - v]]

MCFirstStore == [m \in Merchants |-> m1]
MCMembers == Merchants \X Users
MCOpeningWallet ==
  [m \in Merchants |-> [u \in Users |->
     IF m = m1 THEN [principal |-> 0, bonus |-> 2, silver |-> 2]
               ELSE [principal |-> 2, bonus |-> 1, silver |-> 1]]]
MCOpeningVouchers ==
  [m \in Merchants |-> [u \in Users |-> [v \in VoucherIds |->
     IF m = m1 THEN "ACTIVE" ELSE "NONE"]]]
MCGrants == {[account |-> "bonus", amount |-> 1]}

\* One customer of two stores of an alliance, amounts in half cents: an order of a
\* cent and a half that the bonus pays, one the wallet does not cover, the same at
\* the second store; the gateway's callbacks (repeated, failed, for the second
\* store's payment), refunds of half a cent and of two cents, which is more than the
\* first order.
CoreCalls ==
  {Verify(m1, u1, 3, k1), Verify(m1, u1, 16, k2), Verify(m2, u1, 16, k1),
   Callback(m1, 1, 4, TRUE, k1), Callback(m1, 1, 4, TRUE, k2),
   Callback(m1, 1, 0, FALSE, k1), Callback(m2, 3, 4, TRUE, k1),
   Refund(m1, u1, 1, 1, k1), Refund(m1, NoUser, 1, 4, k2)}

\* One call of each kind, wanting the locks of one store and one payment, a call of
\* another store and one without a key.
ContendingCalls ==
  {Verify(m1, u1, 6, k1), Verify(m1, u1, 16, k2), Verify(m2, u1, 16, k1),
   Verify(m1, u1, 6, NoKey), Callback(m1, 1, 4, TRUE, k1), Refund(m1, u1, 1, 2, k1)}

Symmetry == Permutations(Requests)
=============================================================================
