---------------------------- MODULE PaymentProofs ----------------------------
(***************************************************************************)
(* Theorems about PaymentService, for any merchants, users, requests,      *)
(* calls, grants and opening balances, in three parts: what the checkout   *)
(* arithmetic guarantees for every order, wallet and refund; the queues,   *)
(* the idempotency records and the ledger; the money.                      *)
(***************************************************************************)
EXTENDS PaymentService, Sums

(***************************************************************************)
(* Part 1: the checkout arithmetic.                                        *)
(***************************************************************************)
\* An integer is its quotient and remainder.
LEMMA Quotient ==
  ASSUME NEW n \in Int, NEW d \in Nat, d > 0
  PROVE  /\ n \div d \in Int
         /\ d * (n \div d) <= n
         /\ n < d * (n \div d) + d
  OBVIOUS

\* Whole numbers apart are multiples apart.
LEMMA Multiples ==
  ASSUME NEW y \in Nat, y > 0, NEW a \in Int, NEW b \in Int
  PROVE  /\ y * a \in Int /\ y * b \in Int
         /\ y * (a + b) = y * a + y * b
         /\ y * (a - b) = y * a - y * b
         /\ y * (b + 1) = y * b + y
         /\ a <= b => y * a <= y * b
         /\ y * a < y * b + y => a <= b
<1>1. y * a \in Int /\ y * b \in Int /\ y * (a + b) = y * a + y * b
  OBVIOUS
<1>2. y * (b + 1) = y * b + y /\ y * (a - b) = y * a - y * b
  OBVIOUS
<1>3. a <= b => y * a <= y * b
  OBVIOUS
<1>4. a >= b + 1 => y * a >= y * (b + 1)
  OBVIOUS
<1> QED BY <1>1, <1>2, <1>3, <1>4

\* The nearest whole numbers to x/y are those at most a half away from it, and
\* Rounded is the greatest of them.
LEMMA NearestIs ==
  ASSUME NEW x \in Int, NEW y \in Nat, y > 0
  PROVE  /\ \A n : n \in Nearest(x, y)
                     <=> n \in Int /\ 2 * (x - y * n) <= y /\ 2 * (y * n - x) <= y
         /\ Rounded(x, y) \in Nearest(x, y)
         /\ \A n \in Int : 2 * (y * n - x) <= y => n <= Rounded(x, y)
<1> DEFINE q == Rounded(x, y)
<1>1. /\ q \in Int
      /\ (2 * y) * q <= 2 * x + y
      /\ 2 * x + y < (2 * y) * q + 2 * y
  BY Quotient, 2 * x + y \in Int, 2 * y \in Nat, 2 * y > 0 DEF Rounded
<1> HIDE DEF q
<1>2. /\ y * q \in Int /\ (2 * y) * q = 2 * (y * q)
      /\ y * (q - 1) = y * q - y
  BY <1>1
<1>3. q \in Nearest(x, y)
  BY <1>1, <1>2 DEF Nearest, q
<1>4. ASSUME NEW n \in Int, 2 * (y * n - x) <= y PROVE n <= q
  BY <1>1, <1>2, <1>4, Multiples
<1>5. ASSUME NEW n \in Nearest(x, y)
      PROVE  n \in Int /\ 2 * (x - y * n) <= y /\ 2 * (y * n - x) <= y
  <2>1. n \in {q - 1, q} /\ 2 * (x - y * n) <= y
    BY <1>5 DEF Nearest, q
  <2>2. CASE n = q
    BY <2>1, <2>2, <1>1, <1>2
  <2>3. CASE n = q - 1
    BY <2>1, <2>3, <1>1, <1>2
  <2> QED BY <2>1, <2>2, <2>3
<1>6. ASSUME NEW n \in Int, 2 * (x - y * n) <= y, 2 * (y * n - x) <= y
      PROVE  n \in Nearest(x, y)
  <2>1. n <= q
    BY <1>4, <1>6
  <2>2. y * (n + 1) = y * n + y /\ y * n \in Int
    OBVIOUS
  <2>3. y * q < y * (n + 1) + y
    BY <1>1, <1>2, <1>6, <2>2
  <2>4. q <= n + 1
    BY <1>1, <2>3, Multiples
  <2> QED BY <1>1, <1>6, <2>1, <2>4 DEF Nearest, q
<1> QED BY <1>3, <1>4, <1>5, <1>6 DEF q

\* What roundMoney returns is at most half a cent away from what it was given.
LEMMA CentsAre ==
  ASSUME NEW x \in Int
  PROVE  /\ \A n : n \in Cents(x)
                     <=> n \in Int /\ 2 * (x - Cent * n) <= Cent /\ 2 * (Cent * n - x) <= Cent
         /\ InCents(x) \in Cents(x)
         /\ \A n \in Int : 2 * (Cent * n - x) <= Cent => n <= InCents(x)
  BY NearestIs, CentAssumption DEF Cents, InCents

LEMMA CentsBounded ==
  ASSUME NEW x \in Int, NEW n \in Cents(x), NEW k \in Int
  PROVE  /\ n \in Int
         /\ x <= Cent * k => n <= k
         /\ x >= Cent * k => n >= k
<1>1. /\ n \in Int /\ 2 * (x - Cent * n) <= Cent /\ 2 * (Cent * n - x) <= Cent
  BY CentsAre
<1>2. /\ Cent \in Nat /\ Cent > 0 /\ Cent * n \in Int /\ Cent * k \in Int
  BY <1>1, CentAssumption
<1>3. x <= Cent * k => n <= k
  BY <1>1, <1>2, Multiples
<1>4. x >= Cent * k => k <= n
  BY <1>1, <1>2, Multiples
<1> QED BY <1>1, <1>3, <1>4

\* Whole cents are rounded to themselves; adding whole cents, or changing the sign,
\* does the same to what roundMoney returns.
LEMMA CentsShift ==
  ASSUME NEW x \in Int, NEW k \in Int
  PROVE  /\ Cents(Cent * k) = {k}
         /\ Cent * k + x \in Int
         /\ \A n : n \in Cents(Cent * k + x) => n \in Int /\ n - k \in Cents(x)
         /\ \A n : n \in Cents(x) => n + k \in Cents(Cent * k + x)
         /\ \A n : n \in Cents(Cent * k - x) => n \in Int /\ k - n \in Cents(x)
<1>1. Cent \in Nat /\ Cent > 0 /\ Cent * k \in Int /\ Cent * k + x \in Int /\ Cent * k - x \in Int
  BY CentAssumption
<1>2. Cents(Cent * k) = {k}
  <2>1. ASSUME NEW n \in Cents(Cent * k) PROVE n = k
    BY <1>1, <2>1, CentsBounded
  <2>2. k \in Cents(Cent * k)
    <3>1. 2 * (Cent * k - Cent * k) <= Cent
      BY <1>1
    <3> QED BY <1>1, <3>1, CentsAre
  <2> QED BY <2>1, <2>2
<1>3. ASSUME NEW n \in Int
      PROVE  /\ Cent * (n - k) = Cent * n - Cent * k /\ Cent * n \in Int
             /\ Cent * (k - n) = Cent * k - Cent * n
             /\ Cent * (n + k) = Cent * n + Cent * k
  BY <1>1, Multiples
<1>4. ASSUME NEW n \in Cents(Cent * k + x) PROVE n \in Int /\ n - k \in Cents(x)
  <2>1. /\ n \in Int /\ 2 * ((Cent * k + x) - Cent * n) <= Cent
        /\ 2 * (Cent * n - (Cent * k + x)) <= Cent
    BY <1>1, <1>4, CentsAre
  <2>2. /\ n - k \in Int /\ 2 * (x - Cent * (n - k)) <= Cent
        /\ 2 * (Cent * (n - k) - x) <= Cent
    BY <1>1, <1>3, <2>1
  <2> QED BY <2>1, <2>2, CentsAre
<1>5. ASSUME NEW n \in Cents(Cent * k - x) PROVE n \in Int /\ k - n \in Cents(x)
  <2>1. /\ n \in Int /\ 2 * ((Cent * k - x) - Cent * n) <= Cent
        /\ 2 * (Cent * n - (Cent * k - x)) <= Cent
    BY <1>1, <1>5, CentsAre
  <2>2. /\ k - n \in Int /\ 2 * (x - Cent * (k - n)) <= Cent
        /\ 2 * (Cent * (k - n) - x) <= Cent
    BY <1>1, <1>3, <2>1
  <2> QED BY <2>1, <2>2, CentsAre
<1>6. ASSUME NEW n \in Cents(x) PROVE n + k \in Cents(Cent * k + x)
  <2>1. n \in Int /\ 2 * (x - Cent * n) <= Cent /\ 2 * (Cent * n - x) <= Cent
    BY <1>6, CentsAre
  <2>2. /\ n + k \in Int /\ 2 * ((Cent * k + x) - Cent * (n + k)) <= Cent
        /\ 2 * (Cent * (n + k) - (Cent * k + x)) <= Cent
    BY <1>1, <1>3, <2>1
  <2> QED BY <1>1, <2>2, CentsAre
<1> QED BY <1>1, <1>2, <1>4, <1>5, <1>6

\* Two roundings of one amount are a cent apart when it ends in half a cent, and
\* equal when it does not; a smaller amount is not rounded to more.
LEMMA CentsDiffer ==
  ASSUME NEW x \in Int, NEW z \in Int, x <= z, NEW n \in Cents(x), NEW m \in Cents(z)
  PROVE  /\ n \in Int /\ m \in Int
         /\ n <= m + 1
         /\ ~Halfway(z) => n <= m
         /\ n <= InCents(z)
<1>1. /\ n \in Int /\ 2 * (x - Cent * n) <= Cent /\ 2 * (Cent * n - x) <= Cent
      /\ m \in Int /\ 2 * (z - Cent * m) <= Cent /\ 2 * (Cent * m - z) <= Cent
  BY CentsAre
<1>2. Cent \in Nat /\ Cent > 0 /\ Cent * n \in Int /\ Cent * m \in Int /\ m + 1 \in Int
  BY <1>1, CentAssumption
<1>3. Cent * (m + 1) = Cent * m + Cent
  BY <1>1, <1>2, Multiples
<1>4. n <= m + 1
  BY <1>1, <1>2, <1>3, Multiples
<1>5. n <= InCents(z)
  BY <1>1, <1>2, CentsAre
<1>6. ~Halfway(z) => m = InCents(z)
  BY DEF Halfway
<1> QED BY <1>1, <1>4, <1>5, <1>6

-----------------------------------------------------------------------------
\* What is taken from an account is at most what is left to pay and, but for a
\* debt, at most what the account has; a debt is settled or stays.
LEMMA TakeIs ==
  ASSUME NEW remain \in Nat, NEW balance \in Int
  PROVE  /\ Take(remain, balance) \in Int
         /\ Take(remain, balance) <= remain
         /\ remain - Take(remain, balance) \in Nat
         /\ balance >= 0 => Take(remain, balance) \in Nat /\ Take(remain, balance) <= balance
         /\ balance - Take(remain, balance) >= 0 \/ balance - Take(remain, balance) >= balance
  BY DEF Take, Lesser

\* buildCheckoutQuote splits what the voucher leaves exactly over the accounts and
\* the gateway, and no gifted or stored balance is overdrawn.
THEOREM DeductionCoversOrder ==
  ASSUME NEW voucher \in Nat, NEW remain \in Nat, NEW w \in Wallet
  PROVE  LET d == Deduct(voucher, remain, w)
         IN  /\ d \in Deduction
             /\ d.voucher = voucher
             /\ d.bonus + d.principal + d.silver + d.external = remain
             /\ d.bonus <= remain
             /\ d.bonus <= w.bonus
             /\ d.silver <= w.silver
             /\ w.principal - d.principal >= 0 \/ w.principal - d.principal >= w.principal
<1> DEFINE bonus == Take(remain, w.bonus)
<1> DEFINE afterBonus == remain - bonus
<1> DEFINE principal == Take(afterBonus, w.principal)
<1> DEFINE afterPrincipal == afterBonus - principal
<1> DEFINE silver == Take(afterPrincipal, w.silver)
<1>0. w.bonus \in Nat /\ w.principal \in Int /\ w.silver \in Nat
  BY DEF Wallet
<1>1. bonus \in Nat /\ bonus <= w.bonus /\ bonus <= remain /\ afterBonus \in Nat
  <2>1. w.bonus \in Int /\ w.bonus >= 0
    BY <1>0
  <2> QED BY <2>1, TakeIs
<1>2. /\ principal \in Int /\ afterPrincipal \in Nat
      /\ w.principal - principal >= 0 \/ w.principal - principal >= w.principal
  <2>1. afterBonus \in Nat /\ w.principal \in Int
    BY <1>0, <1>1
  <2> HIDE DEF afterBonus
  <2> QED BY <2>1, TakeIs
<1>3. silver \in Nat /\ silver <= w.silver /\ afterPrincipal - silver \in Nat
  <2>1. afterPrincipal \in Nat /\ w.silver \in Int /\ w.silver >= 0
    BY <1>0, <1>2
  <2> HIDE DEF afterPrincipal
  <2> QED BY <2>1, TakeIs
<1>4. Deduct(voucher, remain, w)
        = [voucher |-> voucher, bonus |-> bonus, principal |-> principal,
           silver |-> silver, external |-> afterPrincipal - silver]
  BY DEF Deduct
<1>5. bonus + principal + silver + (afterPrincipal - silver) = remain
  <2> HIDE DEF bonus, principal, silver
  <2> QED BY <1>1, <1>2, <1>3
<1> HIDE DEF bonus, afterBonus, principal, afterPrincipal, silver
<1> QED BY <1>1, <1>2, <1>3, <1>4, <1>5 DEF Deduction

\* A quote is well formed: its parts are together within a cent of the order, which
\* came unrounded, the gifted balance pays at most half a cent too much, and the
\* wallet left behind is a wallet without a new debt.
THEOREM QuoteWellFormed ==
  ASSUME NEW orderAmount \in Nat, NEW w \in Wallet,
         NEW status \in [VoucherIds -> VoucherStatus], NEW time \in Nat,
         NEW q \in BuildCheckoutQuotes(orderAmount, w, status, time)
  PROVE  LET d == q.deduction
             parts == d.voucher + d.bonus + d.principal + d.silver + d.external
         IN  /\ q \in QuoteRecord
             /\ q.voucher = SelectedVoucher(orderAmount, status, time)
             /\ q.remainingWallet = RemainingWallet(w, d)
             /\ Cent * parts - orderAmount <= Cent
             /\ orderAmount - Cent * parts <= Cent
             /\ 2 * (Cent * d.bonus) <= 2 * orderAmount + Cent
             /\ \/ q.remainingWallet.principal >= 0
                \/ q.remainingWallet.principal >= w.principal
<1> DEFINE v == SelectedVoucher(orderAmount, status, time)
<1> DEFINE taken == IF v = NoVoucher THEN 0 ELSE Lesser(orderAmount, VoucherBook[v].value)
<1>1. v \in VoucherIds \cup {NoVoucher}
  BY DEF SelectedVoucher, ActiveVouchers
<1>2. taken \in Nat /\ orderAmount - taken \in Nat
  <2> HIDE DEF v
  <2> QED BY <1>1, VoucherAssumption DEF Lesser
<1>3. PICK voucher \in Cents(taken), remain \in Cents(orderAmount - taken) :
        q = QuoteOf(v, Deduct(voucher, remain, w), w)
  BY DEF BuildCheckoutQuotes
<1> DEFINE d == Deduct(voucher, remain, w)
<1> HIDE DEF v, taken
<1>4. Cent \in Nat /\ Cent > 0 /\ Cent * 0 = 0
  BY CentAssumption
<1>5. voucher \in Nat /\ remain \in Nat
  BY <1>2, <1>4, CentsBounded, 0 \in Int
<1>6. /\ d \in Deduction
      /\ d.voucher = voucher
      /\ d.bonus + d.principal + d.silver + d.external = remain
      /\ d.bonus <= remain /\ d.bonus <= w.bonus /\ d.silver <= w.silver
      /\ w.principal - d.principal >= 0 \/ w.principal - d.principal >= w.principal
  BY <1>5, DeductionCoversOrder
<1> HIDE DEF d
<1>7. /\ q.voucher = v /\ q.deduction = d
      /\ q.remainingWallet = RemainingWallet(w, d)
      /\ q = [voucher |-> v, deduction |-> d, remainingWallet |-> RemainingWallet(w, d)]
  BY <1>3 DEF QuoteOf, d
<1>8. /\ d.voucher \in Nat /\ d.bonus \in Nat /\ d.principal \in Int /\ d.silver \in Nat
      /\ d.external \in Nat
      /\ w.principal \in Int /\ w.bonus \in Nat /\ w.silver \in Nat
  BY <1>6 DEF Deduction, Wallet
<1>9. RemainingWallet(w, d) \in Wallet
      /\ RemainingWallet(w, d).principal = w.principal - d.principal
  BY <1>6, <1>8 DEF RemainingWallet, Wallet
<1>10. q \in QuoteRecord
  BY <1>1, <1>6, <1>7, <1>9 DEF QuoteRecord
<1>11. /\ 2 * (taken - Cent * voucher) <= Cent /\ 2 * (Cent * voucher - taken) <= Cent
       /\ 2 * ((orderAmount - taken) - Cent * remain) <= Cent
       /\ 2 * (Cent * remain - (orderAmount - taken)) <= Cent
  BY <1>2, <1>3, CentsAre
<1>12. d.voucher + d.bonus + d.principal + d.silver + d.external = voucher + remain
  BY <1>5, <1>6, <1>8
<1>13. /\ Cent * (voucher + remain) = Cent * voucher + Cent * remain
       /\ Cent * voucher \in Int /\ Cent * remain \in Int
       /\ Cent * d.bonus <= Cent * remain /\ Cent * d.bonus \in Int
  BY <1>4, <1>5, <1>6, <1>8, Multiples
<1>14. /\ Cent * (voucher + remain) - orderAmount <= Cent
       /\ orderAmount - Cent * (voucher + remain) <= Cent
       /\ 2 * (Cent * d.bonus) <= 2 * orderAmount + Cent
  BY <1>2, <1>4, <1>11, <1>13
<1> QED BY <1>6, <1>7, <1>9, <1>10, <1>12, <1>14 DEF v

-----------------------------------------------------------------------------
LEMMA ConsumedType ==
  ASSUME NEW bonus \in Nat, NEW refund \in Nat, NEW order \in Nat, order > 0,
         NEW consumed \in BonusConsumed(bonus, refund, order)
  PROVE  consumed \in Nat
<1>1. bonus * refund \in Nat /\ order * 0 = 0
  OBVIOUS
<1>2. consumed \in Int /\ 2 * (bonus * refund - order * consumed) <= order
  BY <1>1, NearestIs DEF BonusConsumed
<1>3. order * consumed \in Int
  BY <1>2
<1>4. order * 0 < order * consumed + order
  BY <1>1, <1>2, <1>3
<1>5. 0 <= consumed
  BY <1>2, <1>4, Multiples, 0 \in Int
<1> QED BY <1>2, <1>5

\* The bonus a refund reclaims is its share of the bonus the order took: at most
\* half a cent too much, and too little by at most half a cent and what half a cent
\* of the refund is worth.
THEOREM ReclaimInProportion ==
  ASSUME NEW bonus \in Nat, NEW refund \in Nat, NEW order \in Nat, order > 0,
         2 * (Cent * bonus) <= 2 * order + Cent,
         NEW consumed \in BonusConsumed(bonus, refund, order),
         NEW reclaimed \in Cents(ReclaimTarget(refund, consumed))
  PROVE  /\ consumed \in Nat /\ reclaimed \in Nat
         /\ 2 * (order * reclaimed - bonus * refund) <= order
         /\ 2 * (bonus * refund - order * reclaimed) <= order + refund
<1> DEFINE exact == bonus * refund
<1>1. /\ Cent \in Nat /\ Cent > 0 /\ exact \in Nat /\ Cent * bonus \in Nat
      /\ Cent * 0 = 0 /\ order * 0 = 0
  BY CentAssumption
<1>2. /\ consumed \in Int
      /\ 2 * (exact - order * consumed) <= order /\ 2 * (order * consumed - exact) <= order
  BY <1>1, NearestIs DEF BonusConsumed
<1> HIDE DEF exact
<1>3. order * consumed \in Int /\ Cent * consumed \in Int
  BY <1>1, <1>2
<1>4. consumed \in Nat
  <2>1. order * 0 < order * consumed + order
    BY <1>1, <1>2, <1>3
  <2>2. 0 <= consumed
    BY <1>2, <2>1, Multiples, 0 \in Int
  <2> QED BY <1>2, <2>2
<1>5. Cent * consumed \in Nat
  BY <1>1, <1>4
<1>6. CASE refund >= Cent * consumed
  <2>1. ReclaimTarget(refund, consumed) = Cent * consumed
    BY <1>5, <1>6 DEF ReclaimTarget, Lesser
  <2>2. reclaimed = consumed
    BY <1>2, <2>1, CentsShift, 0 \in Int
  <2> QED BY <1>1, <1>2, <1>3, <1>4, <2>2 DEF exact
<1>7. CASE refund < Cent * consumed
  <2>1. ReclaimTarget(refund, consumed) = refund
    BY <1>5, <1>7 DEF ReclaimTarget, Lesser
  <2>2. reclaimed \in Int /\ reclaimed <= consumed /\ reclaimed >= 0
    BY <1>1, <1>2, <1>7, <2>1, CentsBounded, 0 \in Int
  <2>3. 2 * (refund - Cent * reclaimed) <= Cent
    BY <2>1, CentsAre
  <2>4. order * reclaimed <= order * consumed /\ order * reclaimed \in Nat
    BY <1>2, <2>2, Multiples
  <2>5. (2 * (Cent * bonus)) * refund <= (2 * order + Cent) * refund
    <3> DEFINE twice == 2 * (Cent * bonus)
    <3>1. twice \in Nat /\ twice <= 2 * order + Cent
      BY <1>1
    <3> HIDE DEF twice
    <3>2. twice * refund <= (2 * order + Cent) * refund
      BY <1>1, <3>1
    <3> QED BY <3>2 DEF twice
  <2>6. (2 * refund) * order <= (2 * (Cent * reclaimed) + Cent) * order
    <3> DEFINE most == 2 * (Cent * reclaimed) + Cent
    <3>1. most \in Int /\ 2 * refund <= most
      BY <1>1, <2>2, <2>3
    <3> HIDE DEF most
    <3>2. (2 * refund) * order <= most * order
      BY <3>1
    <3> QED BY <3>2 DEF most
  <2>7. /\ (2 * (Cent * bonus)) * refund = 2 * (Cent * exact)
        /\ (2 * order + Cent) * refund = (2 * refund) * order + Cent * refund
        /\ (2 * (Cent * reclaimed) + Cent) * order = 2 * (Cent * (order * reclaimed)) + Cent * order
    BY <1>1, <2>2 DEF exact
  <2>8. /\ Cent * exact \in Int /\ Cent * (order * reclaimed) \in Int
        /\ Cent * order \in Int /\ Cent * refund \in Int
        /\ (2 * refund) * order \in Int
    BY <1>1, <2>4
  <2>9. 2 * (Cent * exact) <= 2 * (Cent * (order * reclaimed)) + Cent * order + Cent * refund
    BY <2>5, <2>6, <2>7, <2>8
  <2>10. Cent * (2 * exact) <= Cent * (2 * (order * reclaimed) + order + refund)
    <3>1. /\ Cent * (2 * exact) = 2 * (Cent * exact)
          /\ Cent * (2 * (order * reclaimed) + order + refund)
               = 2 * (Cent * (order * reclaimed)) + Cent * order + Cent * refund
      BY <1>1, <2>4
    <3> QED BY <2>9, <3>1
  <2>11. 2 * exact <= 2 * (order * reclaimed) + order + refund
    <3> DEFINE least == 2 * exact
    <3> DEFINE most == 2 * (order * reclaimed) + order + refund
    <3>1. least \in Int /\ most \in Int /\ Cent * least <= Cent * most
      BY <1>1, <2>4, <2>10
    <3> HIDE DEF least, most
    <3>2. Cent * least \in Int /\ Cent * most \in Int
      BY <1>1, <3>1
    <3>3. least <= most
      BY <1>1, <3>1, <3>2, Multiples
    <3> QED BY <3>3 DEF least, most
  <2>12. 2 * (exact - order * reclaimed) <= order + refund
    BY <1>1, <2>4, <2>11
  <2>13. 2 * (order * reclaimed - exact) <= order
    BY <1>1, <1>2, <1>3, <2>4
  <2> QED BY <1>4, <2>2, <2>12, <2>13 DEF exact
<1> QED BY <1>2, <1>3, <1>6, <1>7

\* Roundings that a refund of so much may make: none, or one cent up or down.
Slip(refund) == IF Halfway(refund) THEN 1 ELSE 0

\* What a refund leaves in the wallet is what its row says, the clawback taken and
\* the refund put in, up to a cent in each account if the refund ends in half a
\* cent; the bonus is never overdrawn, and the principal falls by at most that cent.
THEOREM RefundKeepsRow ==
  ASSUME NEW w \in Wallet, NEW refund \in Nat, NEW consumed \in Nat,
         NEW clawback \in Clawbacks(w, refund, consumed), NEW amount \in Cents(refund),
         NEW next \in NextWallets(w, refund, consumed, clawback)
  PROVE  LET off == Slip(refund)
             principal == amount - clawback.fromPrincipal
         IN  /\ next \in Wallet
             /\ amount \in Nat
             /\ clawback \in [reclaimTarget : Nat, fromBonus : Nat, fromPrincipal : Nat]
             /\ clawback.reclaimTarget \in Cents(ReclaimTarget(refund, consumed))
             /\ next.silver = w.silver
             /\ next.bonus - (w.bonus - clawback.fromBonus) <= off
             /\ (w.bonus - clawback.fromBonus) - next.bonus <= off
             /\ next.principal - (w.principal + principal) <= off
             /\ (w.principal + principal) - next.principal <= off
             /\ next.principal + off >= w.principal
<1> DEFINE target == ReclaimTarget(refund, consumed)
<1> DEFINE taken == ClawbackFromBonus(w, refund, consumed)
<1>1. /\ w.bonus \in Nat /\ w.principal \in Int /\ w.silver \in Nat
      /\ Cent \in Nat /\ Cent > 0 /\ Cent * 0 = 0
      /\ Cent * consumed \in Nat /\ Cent * w.bonus \in Nat
  BY CentAssumption DEF Wallet
<1>2. /\ target \in Nat /\ target <= refund
      /\ target = refund \/ target = Cent * consumed
  BY <1>1 DEF ReclaimTarget, Lesser
<1>3. /\ taken \in Nat /\ taken <= Cent * w.bonus /\ taken <= target
      /\ taken = Cent * w.bonus \/ taken = target
  BY <1>1, <1>2 DEF ClawbackFromBonus, Lesser
<1>4. /\ clawback.reclaimTarget \in Cents(target)
      /\ clawback.fromBonus \in Cents(taken)
      /\ clawback.fromPrincipal \in Cents(target - taken)
      /\ clawback = [reclaimTarget |-> clawback.reclaimTarget,
                     fromBonus |-> clawback.fromBonus,
                     fromPrincipal |-> clawback.fromPrincipal]
  BY DEF Clawbacks
<1>5. /\ next.principal \in Cents(Cent * (w.principal - clawback.fromPrincipal) + refund)
      /\ next.bonus \in Cents(Cent * w.bonus - taken)
      /\ next.silver = w.silver
      /\ next = [principal |-> next.principal, bonus |-> next.bonus, silver |-> next.silver]
  BY DEF NextWallets
<1> HIDE DEF target, taken
<1>6. /\ clawback.reclaimTarget \in Nat /\ clawback.fromBonus \in Nat
      /\ clawback.fromPrincipal \in Nat /\ amount \in Nat
      /\ target - taken \in Nat /\ target - taken <= refund
  BY <1>1, <1>2, <1>3, <1>4, CentsBounded, 0 \in Int
<1> DEFINE before == w.principal - clawback.fromPrincipal
<1>7. next.principal \in Int /\ next.principal - before \in Cents(refund)
  <2>1. before \in Int /\ next.principal \in Cents(Cent * before + refund) /\ refund \in Int
    BY <1>1, <1>5, <1>6
  <2> HIDE DEF before
  <2>2. \A n : n \in Cents(Cent * before + refund) => n \in Int /\ n - before \in Cents(refund)
    BY <2>1, CentsShift
  <2> QED BY <2>1, <2>2
<1>8. next.bonus \in Nat /\ w.bonus - next.bonus \in Cents(taken)
  <2>1. Cent * w.bonus - taken \in Int /\ Cent * w.bonus - taken >= Cent * 0
    BY <1>1, <1>3
  <2>2. next.bonus \in Int /\ w.bonus - next.bonus \in Cents(taken)
    BY <1>1, <1>3, <1>5, CentsShift
  <2>3. next.bonus >= 0
    BY <1>5, <2>1, CentsBounded, 0 \in Int
  <2> QED BY <2>2, <2>3
<1>9. Slip(refund) \in {0, 1} /\ (Halfway(refund) => Slip(refund) = 1)
  BY DEF Slip
<1>10. Halfway(taken) => taken = refund
  <2>1. ASSUME NEW k \in Int PROVE ~Halfway(Cent * k)
    <3>1. Cents(Cent * k) = {k} /\ Cent * k \in Int
      BY <1>1, CentsShift, 0 \in Int
    <3>2. InCents(Cent * k) \in Cents(Cent * k)
      BY <3>1, CentsAre
    <3> QED BY <3>1, <3>2 DEF Halfway
  <2>2. w.bonus \in Int /\ consumed \in Int
    BY <1>1
  <2>3. ~Halfway(Cent * w.bonus) /\ ~Halfway(Cent * consumed)
    BY <2>1, <2>2
  <2> QED BY <1>2, <1>3, <2>3
<1>11. /\ (w.bonus - next.bonus) - clawback.fromBonus <= Slip(refund)
       /\ clawback.fromBonus - (w.bonus - next.bonus) <= Slip(refund)
  BY <1>3, <1>4, <1>6, <1>8, <1>9, <1>10, CentsDiffer
<1>12. /\ (next.principal - before) - amount <= Slip(refund)
       /\ amount - (next.principal - before) <= Slip(refund)
       /\ clawback.fromPrincipal - (next.principal - before) <= Slip(refund)
  BY <1>4, <1>6, <1>7, <1>9, CentsDiffer
<1>13. next \in Wallet
  BY <1>1, <1>5, <1>7, <1>8 DEF Wallet
<1>14. clawback \in [reclaimTarget : Nat, fromBonus : Nat, fromPrincipal : Nat]
  BY <1>4, <1>6
<1> QED BY <1>1, <1>4, <1>5, <1>6, <1>7, <1>8, <1>9, <1>11, <1>12, <1>13, <1>14 DEF target

\* The order's refundable amount, rounded, bounds a refund: what has been refunded
\* grows, and stays within the order in whole cents.
THEOREM RefundedStaysWithin ==
  ASSUME NEW order \in Nat, NEW refunded \in Nat, NEW refund \in Nat,
         NEW available \in Cents(order - Cent * refunded), refund <= Cent * available,
         NEW after \in Cents(Cent * refunded + refund), NEW amount \in Cents(refund)
  PROVE  /\ after \in Nat /\ amount \in Nat
         /\ after >= refunded /\ after <= InCents(order)
         /\ after - refunded - amount <= Slip(refund)
         /\ amount - (after - refunded) <= Slip(refund)
<1>1. /\ Cent \in Nat /\ Cent > 0 /\ Cent * 0 = 0 /\ Cent * refunded \in Nat
      /\ order - Cent * refunded \in Int
  BY CentAssumption
<1>2. available \in Int
  BY <1>1, CentsBounded, 0 \in Int
<1>3. /\ after - refunded \in Cents(refund) /\ after \in Int
      /\ available + refunded \in Cents(Cent * refunded + (order - Cent * refunded))
  <2>1. refunded \in Int /\ refund \in Int
    OBVIOUS
  <2>2. \A n : n \in Cents(Cent * refunded + refund) => n \in Int /\ n - refunded \in Cents(refund)
    BY <2>1, CentsShift
  <2>3. ASSUME NEW x \in Int, available \in Cents(x)
        PROVE  available + refunded \in Cents(Cent * refunded + x)
    BY <2>1, <2>3, CentsShift
  <2> QED BY <1>1, <2>2, <2>3
<1>4. available + refunded \in Cents(order)
  BY <1>1, <1>3
<1>5. /\ Cent * (refunded + available) = Cent * refunded + Cent * available
      /\ Cent * available \in Int
  BY <1>1, <1>2, Multiples
<1>6. after <= refunded + available /\ after >= refunded
  <2>1. /\ Cent * refunded + refund \in Int /\ refunded + available \in Int
        /\ Cent * refunded + refund <= Cent * (refunded + available)
        /\ Cent * refunded + refund >= Cent * refunded
    BY <1>1, <1>2, <1>5
  <2> QED BY <2>1, CentsBounded
<1>7. available + refunded <= InCents(order) /\ InCents(order) \in Int
  <2>1. InCents(order) \in Cents(order)
    BY CentsAre
  <2> QED BY <1>4, <2>1, CentsDiffer
<1>8. amount \in Nat
  BY <1>1, CentsBounded, 0 \in Int
<1>9. Slip(refund) \in {0, 1} /\ (Halfway(refund) => Slip(refund) = 1)
  BY DEF Slip
<1>10. /\ after - refunded - amount <= Slip(refund)
       /\ amount - (after - refunded) <= Slip(refund)
  BY <1>3, <1>8, <1>9, CentsDiffer
<1> QED BY <1>2, <1>3, <1>6, <1>7, <1>8, <1>10

-----------------------------------------------------------------------------
(***************************************************************************)
(* Part 2: the inductive invariant has a part for the types, one for the   *)
(* two queues, one for the idempotency records, one for the ledger; the    *)
(* safety invariants of PaymentService follow from it.                     *)
(***************************************************************************)
Active == {"keyLock", "deciding", "decided"}

InQueue(r, q) == \E i \in 1 .. Len(q) : q[i] = r

\* Whoever runs is at the head of its queues, whoever waits is in one.
LocksHeld ==
  \A r \in Requests :
    /\ phase[r] # "idle" => call[r] \in Calls
    /\ phase[r] = "tenantLock" =>
         /\ TakesTenantLock(call[r])
         /\ InQueue(r, tenantQueue[call[r].merchantId])
    /\ phase[r] \in Active /\ TakesTenantLock(call[r]) =>
         /\ tenantQueue[call[r].merchantId] # <<>>
         /\ Head(tenantQueue[call[r].merchantId]) = r
    /\ phase[r] \in Active => InQueue(r, keyQueue[LockKey(call[r])])
    /\ phase[r] \in {"deciding", "decided"} => Head(keyQueue[LockKey(call[r])]) = r

QueueTypes ==
  /\ tenantQueue \in [Merchants -> Seq(Requests)]
  /\ keyQueue \in [LockKeys -> Seq(Requests)]
  /\ phase \in [Requests -> Phases]
  /\ call \in [Requests -> Calls \cup {NoCall}]

-----------------------------------------------------------------------------
\* Appending to a queue keeps its head and its members.
LEMMA QueueAppend ==
  ASSUME NEW S, NEW q \in Seq(S), NEW x \in S, NEW y
  PROVE  /\ Append(q, x) \in Seq(S)
         /\ Append(q, x) # <<>>
         /\ InQueue(x, Append(q, x))
         /\ InQueue(y, q) => InQueue(y, Append(q, x))
         /\ q # <<>> => Head(Append(q, x)) = Head(q)
<1>1. /\ Append(q, x) \in Seq(S)
      /\ Len(Append(q, x)) = Len(q) + 1
      /\ Append(q, x)[Len(q) + 1] = x
      /\ \A i \in 1 .. Len(q) : Append(q, x)[i] = q[i]
      /\ Len(q) \in Nat
  OBVIOUS
<1>2. InQueue(x, Append(q, x))
  BY <1>1 DEF InQueue
<1>3. InQueue(y, q) => InQueue(y, Append(q, x))
  BY <1>1 DEF InQueue
<1>4. Append(q, x) # <<>>
  BY <1>1
<1>5. q # <<>> => Head(Append(q, x)) = Head(q)
  BY <1>1
<1> QED BY <1>1, <1>2, <1>3, <1>4, <1>5

\* Serving the head of a queue keeps everybody else in it.
LEMMA QueueTail ==
  ASSUME NEW S, NEW q \in Seq(S), q # <<>>, NEW y
  PROVE  /\ Tail(q) \in Seq(S)
         /\ InQueue(y, q) /\ y # Head(q) => InQueue(y, Tail(q))
<1>1. /\ Tail(q) \in Seq(S) /\ Len(Tail(q)) = Len(q) - 1 /\ Len(q) \in Nat
      /\ Head(q) = q[1]
      /\ \A i \in 1 .. Len(q) - 1 : Tail(q)[i] = q[i + 1]
  OBVIOUS
<1>2. ASSUME NEW i \in 1 .. Len(q), q[i] = y, y # Head(q) PROVE InQueue(y, Tail(q))
  <2>1. i - 1 \in 1 .. Len(Tail(q)) /\ Tail(q)[i - 1] = q[i]
    BY <1>1, <1>2
  <2> QED BY <2>1, <1>2 DEF InQueue
<1> QED BY <1>1, <1>2 DEF InQueue

LEMMA QueueMember ==
  ASSUME NEW S, NEW q \in Seq(S), NEW y, InQueue(y, q)
  PROVE  q # <<>>
  BY DEF InQueue

-----------------------------------------------------------------------------
(***************************************************************************)
(* The locks.                                                              *)
(***************************************************************************)
LEMMA CallTypes ==
  ASSUME NEW c \in Calls
  PROVE  /\ c.op \in Operations /\ c.merchantId \in Merchants /\ c.txn \in Nat
         /\ c.userId \in Users \cup {NoUser} /\ c.key \in Keys \cup {NoKey}
         /\ c.amount \in Int /\ c.success \in BOOLEAN
         /\ LockKey(c) \in LockKeys
         /\ IdempotencyKey(c) \in IdempotencyKeys
  BY PaymentAssumption DEF CallRecord, LockKeys, IdempotencyKey, IdempotencyKeys

\* A request that holds its locks gives both of them to whoever is next.
LEMMA ReleaseKeepsLocks ==
  ASSUME QueueTypes, LocksHeld, NEW r \in Requests, phase[r] \in Active,
         Head(keyQueue[LockKey(call[r])]) = r, Release(r), UNCHANGED call
  PROVE  QueueTypes' /\ LocksHeld'
<1> DEFINE k == LockKey(call[r])
<1> DEFINE m == call[r].merchantId
<1>1. call[r] \in Calls /\ k \in LockKeys /\ m \in Merchants
  BY CallTypes DEF LocksHeld, Active, QueueTypes
<1>2. /\ keyQueue[k] \in Seq(Requests) /\ keyQueue[k] # <<>>
      /\ Tail(keyQueue[k]) \in Seq(Requests)
  BY <1>1, QueueMember, QueueTail DEF QueueTypes, LocksHeld
<1>3. /\ keyQueue' \in [LockKeys -> Seq(Requests)]
      /\ keyQueue'[k] = Tail(keyQueue[k])
      /\ \A j \in LockKeys \ {k} : keyQueue'[j] = keyQueue[j]
  BY <1>1, <1>2 DEF Release, QueueTypes
<1>4. /\ phase' \in [Requests -> Phases]
      /\ phase'[r] = "done"
      /\ \A s \in Requests \ {r} : phase'[s] = phase[s]
  BY DEF Release, QueueTypes, Phases
<1>5. tenantQueue[m] \in Seq(Requests)
  BY <1>1 DEF QueueTypes
<1>6. CASE TakesTenantLock(call[r])
  <2>1. /\ tenantQueue[m] # <<>> /\ Head(tenantQueue[m]) = r
        /\ Tail(tenantQueue[m]) \in Seq(Requests)
    BY <1>5, <1>6, QueueTail DEF LocksHeld
  <2>2. /\ tenantQueue' \in [Merchants -> Seq(Requests)]
        /\ tenantQueue'[m] = Tail(tenantQueue[m])
        /\ \A n \in Merchants \ {m} : tenantQueue'[n] = tenantQueue[n]
    BY <1>1, <1>6, <2>1 DEF Release, QueueTypes
  <2>3. ASSUME NEW s \in Requests, s # r, phase'[s] = "tenantLock"
        PROVE  TakesTenantLock(call[s]) /\ InQueue(s, tenantQueue'[call[s].merchantId])
    <3>1. /\ TakesTenantLock(call[s]) /\ InQueue(s, tenantQueue[call[s].merchantId])
          /\ call[s].merchantId \in Merchants
      BY <1>4, <2>3, CallTypes DEF LocksHeld
    <3> QED BY <1>5, <2>1, <2>2, <2>3, <3>1, QueueTail
  <2>4. ASSUME NEW s \in Requests, s # r, phase'[s] \in Active, TakesTenantLock(call[s])
        PROVE  /\ tenantQueue'[call[s].merchantId] # <<>>
               /\ Head(tenantQueue'[call[s].merchantId]) = s
    <3>1. /\ tenantQueue[call[s].merchantId] # <<>>
          /\ Head(tenantQueue[call[s].merchantId]) = s
          /\ call[s].merchantId \in Merchants
      BY <1>4, <2>4, CallTypes DEF LocksHeld, Active
    <3> QED BY <2>1, <2>2, <2>4, <3>1
  <2>5. ASSUME NEW s \in Requests, s # r, phase'[s] \in Active
        PROVE  /\ InQueue(s, keyQueue'[LockKey(call[s])])
               /\ phase'[s] \in {"deciding", "decided"} => Head(keyQueue'[LockKey(call[s])]) = s
    <3>1. /\ InQueue(s, keyQueue[LockKey(call[s])]) /\ LockKey(call[s]) \in LockKeys
          /\ phase[s] \in {"deciding", "decided"} => Head(keyQueue[LockKey(call[s])]) = s
      BY <1>4, <2>5, CallTypes DEF LocksHeld, Active
    <3> QED BY <1>2, <1>3, <1>4, <2>5, <3>1, QueueTail
  <2>6. ASSUME NEW s \in Requests, phase'[s] # "idle" PROVE call[s] \in Calls
    BY <1>1, <1>4, <2>6 DEF LocksHeld
  <2> HIDE DEF k, m
  <2> QED BY <1>3, <1>4, <2>2, <2>3, <2>4, <2>5, <2>6 DEF QueueTypes, LocksHeld, Active
<1>7. CASE ~TakesTenantLock(call[r])
  <2>1. tenantQueue' = tenantQueue
    BY <1>7 DEF Release
  <2>5. ASSUME NEW s \in Requests, s # r, phase'[s] \in Active
        PROVE  /\ InQueue(s, keyQueue'[LockKey(call[s])])
               /\ phase'[s] \in {"deciding", "decided"} => Head(keyQueue'[LockKey(call[s])]) = s
    <3>1. /\ InQueue(s, keyQueue[LockKey(call[s])]) /\ LockKey(call[s]) \in LockKeys
          /\ phase[s] \in {"deciding", "decided"} => Head(keyQueue[LockKey(call[s])]) = s
      BY <1>4, <2>5, CallTypes DEF LocksHeld, Active
    <3> QED BY <1>2, <1>3, <1>4, <2>5, <3>1, QueueTail
  <2>6. ASSUME NEW s \in Requests, phase'[s] # "idle" PROVE call[s] \in Calls
    BY <1>1, <1>4, <2>6 DEF LocksHeld
  <2> HIDE DEF k, m
  <2> QED BY <1>3, <1>4, <2>1, <2>5, <2>6 DEF QueueTypes, LocksHeld, Active
<1> QED BY <1>6, <1>7

\* The two other ways a request moves: into its handler's await and out of it.
LEMMA ProceedKeepsLocks ==
  ASSUME QueueTypes, LocksHeld, NEW r \in Requests,
         phase[r] \in Active, Head(keyQueue[LockKey(call[r])]) = r,
         NEW next \in {"deciding", "decided"}, phase' = [phase EXCEPT ![r] = next],
         UNCHANGED <<lockVars, call>>
  PROVE  QueueTypes' /\ LocksHeld'
<1>1. /\ phase' \in [Requests -> Phases] /\ phase'[r] = next
      /\ \A s \in Requests \ {r} : phase'[s] = phase[s]
  BY DEF QueueTypes, Phases
<1>2. tenantQueue' = tenantQueue /\ keyQueue' = keyQueue /\ call' = call
  BY DEF lockVars
<1> QED BY <1>1, <1>2 DEF QueueTypes, LocksHeld, Active

\* Joining the queue of one key lock moves nobody in the others or before it.
LEMMA KeyQueueAppend ==
  ASSUME QueueTypes, NEW k \in LockKeys, NEW r \in Requests,
         keyQueue'[k] = Append(keyQueue[k], r),
         \A j \in LockKeys \ {k} : keyQueue'[j] = keyQueue[j]
  PROVE  /\ InQueue(r, keyQueue'[k])
         /\ \A j \in LockKeys, s \in Requests :
              /\ InQueue(s, keyQueue[j]) => InQueue(s, keyQueue'[j])
              /\ InQueue(s, keyQueue[j]) => Head(keyQueue'[j]) = Head(keyQueue[j])
<1> DEFINE q == keyQueue[k]
<1>1. q \in Seq(Requests)
  BY DEF QueueTypes
<1>2. /\ InQueue(r, Append(q, r))
      /\ \A s : InQueue(s, q) => InQueue(s, Append(q, r))
      /\ q # <<>> => Head(Append(q, r)) = Head(q)
      /\ \A s : InQueue(s, q) => q # <<>>
  BY <1>1, QueueAppend, QueueMember
<1> QED BY <1>2

LEMMA ArriveKeepsLocks ==
  ASSUME QueueTypes, LocksHeld, NEW r \in Requests, Arrive(r)
  PROVE  QueueTypes' /\ LocksHeld'
<1>1. PICK c \in Calls :
        /\ call' = [call EXCEPT ![r] = c]
        /\ IF TakesTenantLock(c)
           THEN /\ tenantQueue' = [tenantQueue EXCEPT ![c.merchantId] = Append(@, r)]
                /\ phase' = [phase EXCEPT ![r] = "tenantLock"]
                /\ UNCHANGED keyQueue
           ELSE /\ keyQueue' = [keyQueue EXCEPT ![LockKey(c)] = Append(@, r)]
                /\ phase' = [phase EXCEPT ![r] = "keyLock"]
                /\ UNCHANGED tenantQueue
  BY DEF Arrive
<1>2. phase[r] = "idle" /\ c.merchantId \in Merchants /\ LockKey(c) \in LockKeys
  BY CallTypes DEF Arrive
<1>3. /\ call' \in [Requests -> Calls \cup {NoCall}] /\ call'[r] = c
      /\ \A s \in Requests \ {r} : call'[s] = call[s]
  BY <1>1 DEF QueueTypes
<1>4. \A s \in Requests : phase[s] # "idle" => /\ call[s] \in Calls
                                              /\ call[s].merchantId \in Merchants
                                              /\ LockKey(call[s]) \in LockKeys
  BY CallTypes DEF LocksHeld
<1>5. CASE TakesTenantLock(c)
  <2>1. /\ phase' \in [Requests -> Phases] /\ phase'[r] = "tenantLock"
        /\ \A s \in Requests \ {r} : phase'[s] = phase[s]
    BY <1>1, <1>5 DEF QueueTypes, Phases
  <2>2. /\ tenantQueue' \in [Merchants -> Seq(Requests)] /\ keyQueue' = keyQueue
        /\ tenantQueue'[c.merchantId] = Append(tenantQueue[c.merchantId], r)
        /\ \A n \in Merchants \ {c.merchantId} : tenantQueue'[n] = tenantQueue[n]
    <3>1. tenantQueue[c.merchantId] \in Seq(Requests)
      BY <1>2 DEF QueueTypes
    <3>2. Append(tenantQueue[c.merchantId], r) \in Seq(Requests)
      BY <3>1, QueueAppend
    <3> QED BY <1>1, <1>2, <1>5, <3>2 DEF QueueTypes
  <2>3. /\ InQueue(r, tenantQueue'[c.merchantId])
        /\ \A n \in Merchants, s \in Requests :
             /\ InQueue(s, tenantQueue[n]) => InQueue(s, tenantQueue'[n])
             /\ tenantQueue[n] # <<>> =>
                  tenantQueue'[n] # <<>> /\ Head(tenantQueue'[n]) = Head(tenantQueue[n])
    <3>1. tenantQueue[c.merchantId] \in Seq(Requests)
      BY <1>2 DEF QueueTypes
    <3> DEFINE q == tenantQueue[c.merchantId]
    <3>2. /\ InQueue(r, Append(q, r))
          /\ \A s : InQueue(s, q) => InQueue(s, Append(q, r))
          /\ q # <<>> => Append(q, r) # <<>> /\ Head(Append(q, r)) = Head(q)
      BY <3>1, QueueAppend
    <3> QED BY <2>2, <3>2
  <2> QED BY <1>2, <1>3, <1>4, <1>5, <2>1, <2>2, <2>3 DEF QueueTypes, LocksHeld, Active
<1>6. CASE ~TakesTenantLock(c)
  <2>1. /\ phase' \in [Requests -> Phases] /\ phase'[r] = "keyLock"
        /\ \A s \in Requests \ {r} : phase'[s] = phase[s]
    BY <1>1, <1>6 DEF QueueTypes, Phases
  <2>2. /\ keyQueue' \in [LockKeys -> Seq(Requests)] /\ tenantQueue' = tenantQueue
        /\ keyQueue'[LockKey(c)] = Append(keyQueue[LockKey(c)], r)
        /\ \A k \in LockKeys \ {LockKey(c)} : keyQueue'[k] = keyQueue[k]
    <3>1. Append(keyQueue[LockKey(c)], r) \in Seq(Requests)
      BY <1>2, QueueAppend DEF QueueTypes
    <3> QED BY <1>1, <1>2, <1>6, <3>1 DEF QueueTypes
  <2>3. /\ InQueue(r, keyQueue'[LockKey(c)])
        /\ \A k \in LockKeys, s \in Requests :
             /\ InQueue(s, keyQueue[k]) => InQueue(s, keyQueue'[k])
             /\ InQueue(s, keyQueue[k]) => Head(keyQueue'[k]) = Head(keyQueue[k])
    BY <1>2, <2>2, KeyQueueAppend
  <2> QED BY <1>2, <1>3, <1>4, <1>6, <2>1, <2>2, <2>3 DEF QueueTypes, LocksHeld, Active
<1> QED BY <1>5, <1>6

LEMMA EnterKeepsLocks ==
  ASSUME QueueTypes, LocksHeld, NEW r \in Requests, EnterService(r)
  PROVE  QueueTypes' /\ LocksHeld'
<1> DEFINE k == LockKey(call[r])
<1>1. /\ phase[r] = "tenantLock" /\ Head(tenantQueue[call[r].merchantId]) = r
      /\ keyQueue' = [keyQueue EXCEPT ![k] = Append(@, r)]
      /\ tenantQueue' = tenantQueue /\ call' = call
      /\ phase' = [phase EXCEPT ![r] = "keyLock"]
  BY DEF EnterService
<1>2. /\ k \in LockKeys /\ call[r].merchantId \in Merchants
      /\ tenantQueue[call[r].merchantId] # <<>>
  BY <1>1, CallTypes, QueueMember DEF LocksHeld, QueueTypes
<1>3. /\ phase' \in [Requests -> Phases] /\ phase'[r] = "keyLock"
      /\ \A s \in Requests \ {r} : phase'[s] = phase[s]
  BY <1>1 DEF QueueTypes, Phases
<1>4. /\ keyQueue' \in [LockKeys -> Seq(Requests)]
      /\ keyQueue'[k] = Append(keyQueue[k], r)
      /\ \A j \in LockKeys \ {k} : keyQueue'[j] = keyQueue[j]
  <2>1. Append(keyQueue[k], r) \in Seq(Requests)
    BY <1>2, QueueAppend DEF QueueTypes
  <2> QED BY <1>1, <1>2, <2>1 DEF QueueTypes
<1>5. /\ InQueue(r, keyQueue'[k])
      /\ \A j \in LockKeys, s \in Requests :
           /\ InQueue(s, keyQueue[j]) => InQueue(s, keyQueue'[j])
           /\ InQueue(s, keyQueue[j]) => Head(keyQueue'[j]) = Head(keyQueue[j])
  <2> HIDE DEF k
  <2> QED BY <1>2, <1>4, KeyQueueAppend
<1>6. \A s \in Requests : phase[s] # "idle" => LockKey(call[s]) \in LockKeys
  BY CallTypes DEF LocksHeld
<1> HIDE DEF k
<1> QED BY <1>1, <1>2, <1>3, <1>4, <1>5, <1>6 DEF QueueTypes, LocksHeld, Active, k

\* The lock discipline is kept by every step, so at most one request runs in a
\* tenant outside the callback route, and at most one under each key lock.
LEMMA NextKeepsLocks ==
  ASSUME QueueTypes, LocksHeld, [Next]_vars
  PROVE  QueueTypes' /\ LocksHeld'
<1>1. ASSUME NEW r \in Requests,
             Replay(r) \/ Reject(r) \/ VerifyPending(r) \/ ConfirmSettledAgain(r)
               \/ ConfirmFailure(r) \/ RefundPayment(r) \/ Finish(r)
      PROVE  QueueTypes' /\ LocksHeld'
  <2>1. /\ phase[r] \in Active /\ Head(keyQueue[LockKey(call[r])]) = r
        /\ Release(r) /\ UNCHANGED call
    BY <1>1 DEF Replay, Reject, VerifyPending, ConfirmSettledAgain, ConfirmFailure,
                RefundPayment, Finish, Runs, Active, LocksHeld
  <2> QED BY <2>1, ReleaseKeepsLocks
<1>2. ASSUME NEW r \in Requests, VerifyInternal(r) \/ ConfirmSuccess(r)
      PROVE  QueueTypes' /\ LocksHeld'
  <2>1. /\ phase[r] \in Active /\ Head(keyQueue[LockKey(call[r])]) = r
        /\ phase' = [phase EXCEPT ![r] = "deciding"] /\ UNCHANGED <<lockVars, call>>
    BY <1>2 DEF VerifyInternal, ConfirmSuccess, Runs, Active
  <2> QED BY <2>1, ProceedKeepsLocks
<1>3. ASSUME NEW r \in Requests, RevenueDecision(r) PROVE QueueTypes' /\ LocksHeld'
  <2>1. /\ phase[r] \in Active /\ Head(keyQueue[LockKey(call[r])]) = r
        /\ phase' = [phase EXCEPT ![r] = "decided"] /\ UNCHANGED <<lockVars, call>>
    BY <1>3 DEF RevenueDecision, LocksHeld, Active
  <2> QED BY <2>1, ProceedKeepsLocks
<1>4. ASSUME \/ \E m \in Merchants : SetWalletShared(m)
             \/ Tick \/ Answered \/ UNCHANGED vars
      PROVE  QueueTypes' /\ LocksHeld'
  <2>1. UNCHANGED <<tenantQueue, keyQueue, phase, call>>
    BY <1>4 DEF SetWalletShared, Tick, Answered, vars, lockVars, requestVars
  <2> QED BY <2>1 DEF QueueTypes, LocksHeld, Active
<1> QED BY <1>1, <1>2, <1>3, <1>4, ArriveKeepsLocks, EnterKeepsLocks DEF Next, Serve

-----------------------------------------------------------------------------
(***************************************************************************)
(* The types, and the ids of the ledger.                                   *)
(***************************************************************************)
DataTypes ==
  /\ now \in Nat
  /\ wallet \in [Merchants -> [Users -> Wallet]]
  /\ voucherStatus \in [Merchants -> [Users -> [VoucherIds -> VoucherStatus]]]
  /\ walletShared \in [Merchants -> BOOLEAN]
  /\ budgetUsed \in [Merchants -> Nat]
  /\ nextTxn \in Nat \ {0}
  /\ DOMAIN payments \subseteq 1 .. nextTxn - 1
  /\ payments \in [DOMAIN payments -> Payment]
  /\ ledger \subseteq LedgerRow
  /\ idempotency \in [IdempotencyKeys -> Answer]
  /\ answer \in [Requests -> Answer]
  /\ outdated \subseteq DOMAIN payments

\* Ledger ids and the payments rows are about were drawn before nextTxn, so a
\* new payment has no rows yet.
LedgerPast ==
  \A e \in ledger : e.txnId < nextTxn /\ e.paymentTxn < nextTxn

LEMMA PaymentTypes ==
  ASSUME DataTypes, NEW t \in DOMAIN payments
  PROVE  /\ t \in Nat /\ t < nextTxn /\ payments[t] \in Payment
         /\ payments[t].merchantId \in Merchants /\ payments[t].userId \in Users
         /\ payments[t].status \in PaymentStatus
         /\ payments[t].orderAmount \in Nat \ {0}
         /\ payments[t].refundedAmount \in Nat
         /\ payments[t].quote \in QuoteRecord
         /\ payments[t].quote.remainingWallet \in Wallet
         /\ payments[t].quote.voucher \in VoucherIds \cup {NoVoucher}
         /\ payments[t].quote.deduction \in Deduction
         /\ payments[t].quote.deduction.voucher \in Nat
         /\ payments[t].quote.deduction.bonus \in Nat
<1>1. t \in Nat /\ t < nextTxn /\ payments[t] \in Payment
  BY DEF DataTypes
<1> QED BY <1>1 DEF Payment, QuoteRecord, Deduction

LEMMA WalletMerchantType ==
  ASSUME DataTypes, NEW m \in Merchants
  PROVE  WalletMerchant(m) \in Merchants
  BY PaymentAssumption DEF WalletMerchant

LEMMA QuoteType ==
  ASSUME DataTypes, NEW m \in Merchants, NEW u \in Users, NEW amount \in Nat,
         NEW quote \in GetQuote(m, u, amount)
  PROVE  quote \in QuoteRecord
<1>1. /\ wallet[WalletMerchant(m)][u] \in Wallet
      /\ voucherStatus[WalletMerchant(m)][u] \in [VoucherIds -> VoucherStatus]
      /\ now \in Nat
  BY WalletMerchantType DEF DataTypes
<1> QED BY <1>1, QuoteWellFormed DEF GetQuote, ScopedWallet

\* A sum from outside is rounded to no less than nothing.
LEMMA CentsType ==
  ASSUME NEW x \in Nat, NEW n \in Cents(x)
  PROVE  n \in Nat
<1>1. x \in Int /\ Cent * 0 = 0
  BY CentAssumption
<1> QED BY <1>1, CentsBounded, 0 \in Int

LEMMA InCentsType ==
  ASSUME NEW x \in Nat
  PROVE  InCents(x) \in Nat
  BY CentsAre, CentsType

LEMMA WithPaymentType ==
  ASSUME DataTypes, NEW p \in Payment
  PROVE  LET new == WithPayment(nextTxn, p)
         IN  /\ DOMAIN new = DOMAIN payments \cup {nextTxn}
             /\ new \in [DOMAIN new -> Payment]
             /\ new[nextTxn] = p
             /\ nextTxn \notin DOMAIN payments
             /\ \A s \in DOMAIN payments : new[s] = payments[s]
  BY DEF WithPayment, DataTypes

RowTypes == SettlementTypes \cup {"PAYMENT_PENDING", "REFUND", "POLICYOS_GRANT"}

LEMMA RowType ==
  ASSUME NEW t \in Nat, NEW type \in RowTypes,
         NEW m \in Merchants, NEW u \in Users, NEW paymentTxn \in Nat, NEW amount \in Nat,
         NEW e, e = Row(t, type, m, u, paymentTxn, amount)
  PROVE  /\ e \in LedgerRow
         /\ e.txnId = t /\ e.type = type /\ e.paymentTxn = paymentTxn
  BY DEF Row, RowTypes, LedgerRow, NoClawback, WalletAccounts

LEMMA LedgerGrows ==
  ASSUME DataTypes, LedgerPast, NEW e \in LedgerRow, ledger' = ledger \cup {e},
         nextTxn' \in Nat, nextTxn' > nextTxn, e.txnId < nextTxn', e.paymentTxn < nextTxn'
  PROVE  ledger' \subseteq LedgerRow /\ LedgerPast'
<1>1. \A f \in ledger : f \in LedgerRow /\ f.txnId \in Nat /\ f.paymentTxn \in Nat
  BY DEF DataTypes, LedgerRow
<1>2. nextTxn \in Nat
  BY DEF DataTypes
<1>3. ASSUME NEW f \in ledger' PROVE f \in LedgerRow /\ f.txnId < nextTxn' /\ f.paymentTxn < nextTxn'
  BY <1>1, <1>2 DEF LedgerPast
<1> QED BY <1>3 DEF LedgerPast

\* What a step that draws ids from nextTxn must show of the data.
LEMMA MoneyTypes ==
  ASSUME DataTypes, LedgerPast, NEW e \in LedgerRow, ledger' = ledger \cup {e},
         nextTxn' \in Nat, nextTxn' > nextTxn, e.txnId < nextTxn', e.paymentTxn < nextTxn',
         now' = now, walletShared' = walletShared,
         wallet' \in [Merchants -> [Users -> Wallet]],
         voucherStatus' \in [Merchants -> [Users -> [VoucherIds -> VoucherStatus]]],
         budgetUsed' \in [Merchants -> Nat],
         payments' \in [DOMAIN payments' -> Payment],
         DOMAIN payments' \in {DOMAIN payments, DOMAIN payments \cup {nextTxn}},
         idempotency' \in [IdempotencyKeys -> Answer],
         answer' \in [Requests -> Answer],
         outdated' \subseteq DOMAIN payments
  PROVE  DataTypes' /\ LedgerPast'
<1>1. ledger' \subseteq LedgerRow /\ LedgerPast'
  BY LedgerGrows
<1>2. /\ nextTxn' \in Nat \ {0}
      /\ DOMAIN payments' \subseteq 1 .. nextTxn' - 1
      /\ outdated' \subseteq DOMAIN payments'
  BY DEF DataTypes
<1> QED BY <1>1, <1>2 DEF DataTypes

LEMMA ReplyType ==
  ASSUME DataTypes, NEW r \in Requests, NEW status \in AnswerStatus, NEW t \in Nat,
         Reply(r, status, t)
  PROVE  /\ answer' \in [Requests -> Answer]
         /\ answer'[r] = [status |-> status, txn |-> t]
         /\ answer'[r] \in Answer
         /\ \A s \in Requests \ {r} : answer'[s] = answer[s]
<1>1. [status |-> status, txn |-> t] \in Answer
  BY DEF Answer
<1> QED BY <1>1 DEF Reply, DataTypes

LEMMA RecordType ==
  ASSUME DataTypes, NEW k \in IdempotencyKeys, NEW a \in Answer,
         idempotency' = [idempotency EXCEPT ![k] = a]
  PROVE  /\ idempotency' \in [IdempotencyKeys -> Answer]
         /\ idempotency'[k] = a
         /\ \A j \in IdempotencyKeys \ {k} : idempotency'[j] = idempotency[j]
  BY DEF DataTypes

LEMMA ApplyQuoteType ==
  ASSUME DataTypes, NEW m \in Merchants, NEW u \in Users, NEW quote \in QuoteRecord,
         ApplyQuoteToUser(m, u, quote)
  PROVE  /\ wallet' \in [Merchants -> [Users -> Wallet]]
         /\ voucherStatus' \in [Merchants -> [Users -> [VoucherIds -> VoucherStatus]]]
<1>1. /\ quote.remainingWallet \in Wallet
      /\ quote.voucher \in VoucherIds \cup {NoVoucher}
  BY DEF QuoteRecord
<1>2. wallet' \in [Merchants -> [Users -> Wallet]]
  BY <1>1 DEF ApplyQuoteToUser, DataTypes
<1>3. CASE voucherStatus' = voucherStatus
  BY <1>2, <1>3 DEF DataTypes
<1>4. CASE /\ quote.voucher \in VoucherIds
           /\ voucherStatus' = [voucherStatus EXCEPT ![m][u][quote.voucher] = "USED"]
  BY <1>2, <1>4 DEF DataTypes, VoucherStatus
<1> QED BY <1>1, <1>3, <1>4 DEF ApplyQuoteToUser

LEMMA VerifyPendingKeepsTypes ==
  ASSUME DataTypes, LedgerPast, LocksHeld, NEW r \in Requests, VerifyPending(r)
  PROVE  DataTypes' /\ LedgerPast'
<1> DEFINE c == call[r]
<1> DEFINE t == nextTxn
<1>1. /\ c \in Calls /\ c.merchantId \in Merchants /\ c.userId \in Users
      /\ c.amount \in Nat \ {0} /\ IdempotencyKey(c) \in IdempotencyKeys
      /\ t \in Nat \ {0}
  BY CallTypes DEF LocksHeld, VerifyPending, Runs, VerifyAccepted, DataTypes
<1>2. PICK quote \in GetQuote(c.merchantId, c.userId, c.amount), amount \in Cents(c.amount) :
        /\ payments' = WithPayment(t,
             [merchantId |-> c.merchantId, userId |-> c.userId,
              status |-> "PENDING_EXTERNAL", orderAmount |-> c.amount,
              quote |-> quote, refundedAmount |-> 0])
        /\ ledger' = ledger \cup
             {Row(t + 1, "PAYMENT_PENDING", c.merchantId, c.userId, t, amount)}
        /\ nextTxn' = t + 2
        /\ Reply(r, "PENDING_EXTERNAL", t)
        /\ idempotency' = [idempotency EXCEPT ![IdempotencyKey(c)] = answer'[r]]
  BY DEF VerifyPending
<1> DEFINE p == [merchantId |-> c.merchantId, userId |-> c.userId,
                 status |-> "PENDING_EXTERNAL", orderAmount |-> c.amount,
                 quote |-> quote, refundedAmount |-> 0]
<1> DEFINE e == Row(t + 1, "PAYMENT_PENDING", c.merchantId, c.userId, t, amount)
<1>3. quote \in QuoteRecord /\ amount \in Nat
  BY <1>1, QuoteType, CentsType
<1>4. p \in Payment
  <2> HIDE DEF c
  <2> QED BY <1>1, <1>3 DEF Payment, PaymentStatus
<1>5. e \in LedgerRow /\ e.txnId = t + 1 /\ e.paymentTxn = t
  <2>1. t + 1 \in Nat
    BY <1>1
  <2>2. e = Row(t + 1, "PAYMENT_PENDING", c.merchantId, c.userId, t, amount)
    OBVIOUS
  <2>3. "PAYMENT_PENDING" \in RowTypes
    BY DEF RowTypes
  <2> HIDE DEF c, t, p, e
  <2> QED BY <1>1, <1>3, <2>1, <2>2, <2>3, RowType
<1>6. /\ payments' = WithPayment(t, p)
      /\ ledger' = ledger \cup {e}
      /\ UNCHANGED <<now, wallet, voucherStatus, walletShared, budgetUsed, outdated>>
  BY <1>2 DEF VerifyPending, serviceVars
<1> HIDE DEF c, e, p
<1>7. /\ answer' \in [Requests -> Answer] /\ answer'[r] \in Answer
  BY <1>1, <1>2, ReplyType DEF AnswerStatus
<1>8. idempotency' \in [IdempotencyKeys -> Answer]
  BY <1>1, <1>2, <1>7, RecordType
<1>9. /\ DOMAIN payments' = DOMAIN payments \cup {t}
      /\ payments' \in [DOMAIN payments' -> Payment]
  BY <1>4, <1>6, WithPaymentType
<1>10. /\ wallet' \in [Merchants -> [Users -> Wallet]]
       /\ voucherStatus' \in [Merchants -> [Users -> [VoucherIds -> VoucherStatus]]]
       /\ budgetUsed' \in [Merchants -> Nat]
       /\ outdated' \subseteq DOMAIN payments
  BY <1>6 DEF DataTypes
<1>11. nextTxn' \in Nat /\ nextTxn' > t /\ t + 1 < nextTxn'
  BY <1>1, <1>2
<1> QED BY <1>5, <1>6, <1>7, <1>8, <1>9, <1>10, <1>11, MoneyTypes

LEMMA VerifyInternalKeepsTypes ==
  ASSUME DataTypes, LedgerPast, LocksHeld, NEW r \in Requests, VerifyInternal(r)
  PROVE  DataTypes' /\ LedgerPast'
<1> DEFINE c == call[r]
<1> DEFINE t == nextTxn
<1>1. /\ c \in Calls /\ c.merchantId \in Merchants /\ c.userId \in Users
      /\ c.amount \in Nat \ {0} /\ t \in Nat \ {0}
  BY CallTypes DEF LocksHeld, VerifyInternal, Runs, VerifyAccepted, DataTypes
<1>2. PICK quote \in GetQuote(c.merchantId, c.userId, c.amount), amount \in Cents(c.amount) :
        /\ ApplyQuoteToUser(WalletMerchant(c.merchantId), c.userId, quote)
        /\ ledger' = ledger \cup
             {Row(t, "PAYMENT", c.merchantId, c.userId, t, amount)}
        /\ payments' = WithPayment(t,
             [merchantId |-> c.merchantId, userId |-> c.userId,
              status |-> "PAID", orderAmount |-> c.amount,
              quote |-> quote, refundedAmount |-> 0])
        /\ nextTxn' = t + 1
        /\ SpendBudget(c.merchantId, quote)
        /\ Reply(r, "PAID", t)
  BY DEF VerifyInternal
<1> DEFINE p == [merchantId |-> c.merchantId, userId |-> c.userId,
                 status |-> "PAID", orderAmount |-> c.amount,
                 quote |-> quote, refundedAmount |-> 0]
<1> DEFINE e == Row(t, "PAYMENT", c.merchantId, c.userId, t, amount)
<1>3. quote \in QuoteRecord /\ quote.deduction.voucher \in Nat /\ amount \in Nat
  <2>1. quote \in QuoteRecord /\ amount \in Nat
    BY <1>1, QuoteType, CentsType
  <2> QED BY <2>1 DEF QuoteRecord, Deduction
<1>4. p \in Payment
  <2> HIDE DEF c
  <2> QED BY <1>1, <1>3 DEF Payment, PaymentStatus
<1>5. e \in LedgerRow /\ e.txnId = t /\ e.paymentTxn = t
  <2>1. e = Row(t, "PAYMENT", c.merchantId, c.userId, t, amount)
    OBVIOUS
  <2>2. "PAYMENT" \in RowTypes /\ t \in Nat
    BY <1>1 DEF RowTypes, SettlementTypes
  <2> HIDE DEF c, t, e, p
  <2> QED BY <1>1, <1>3, <2>1, <2>2, RowType
<1>6. /\ payments' = WithPayment(t, p)
      /\ ledger' = ledger \cup {e}
      /\ budgetUsed' = [budgetUsed EXCEPT ![c.merchantId] = @ + quote.deduction.voucher]
      /\ UNCHANGED <<now, walletShared, outdated, idempotency>>
  BY <1>2 DEF VerifyInternal, SpendBudget, serviceVars
<1> HIDE DEF c, e, p
<1>7. answer' \in [Requests -> Answer]
  BY <1>1, <1>2, ReplyType DEF AnswerStatus
<1>8. /\ wallet' \in [Merchants -> [Users -> Wallet]]
      /\ voucherStatus' \in [Merchants -> [Users -> [VoucherIds -> VoucherStatus]]]
  BY <1>1, <1>2, <1>3, WalletMerchantType, ApplyQuoteType
<1>9. /\ DOMAIN payments' = DOMAIN payments \cup {t}
      /\ payments' \in [DOMAIN payments' -> Payment]
  BY <1>4, <1>6, WithPaymentType
<1>10. budgetUsed' \in [Merchants -> Nat]
  BY <1>1, <1>3, <1>6 DEF DataTypes
<1>11. nextTxn' \in Nat /\ nextTxn' > t
  BY <1>1, <1>2
<1>12. idempotency' \in [IdempotencyKeys -> Answer] /\ outdated' \subseteq DOMAIN payments
  BY <1>6 DEF DataTypes
<1> QED BY <1>5, <1>6, <1>7, <1>8, <1>9, <1>10, <1>11, <1>12, MoneyTypes

LEMMA ConfirmSuccessKeepsTypes ==
  ASSUME DataTypes, LedgerPast, LocksHeld, NEW r \in Requests, ConfirmSuccess(r)
  PROVE  DataTypes' /\ LedgerPast'
<1> DEFINE c == call[r]
<1> DEFINE t == nextTxn
<1> DEFINE p == payments[c.txn]
<1>0. PICK paid \in Cents(c.amount) :
        /\ GatewayPaid(c, paid)
        /\ ledger' = ledger \cup
             {Row(t, "PAYMENT_EXTERNAL_CONFIRM", c.merchantId, p.userId, c.txn, paid)}
  BY DEF ConfirmSuccess
<1> DEFINE e == Row(t, "PAYMENT_EXTERNAL_CONFIRM", c.merchantId, p.userId, c.txn, paid)
<1>1. /\ c \in Calls /\ c.merchantId \in Merchants /\ c.txn \in DOMAIN payments
      /\ paid = p.quote.deduction.external /\ t \in Nat \ {0}
  BY <1>0, CallTypes DEF LocksHeld, ConfirmSuccess, Runs, GatewayPaid, CallbackFinds,
                         PaymentFound, DataTypes
<1>2. /\ c.txn \in Nat /\ c.txn < t /\ p \in Payment /\ p.userId \in Users
      /\ p.quote \in QuoteRecord /\ p.quote.deduction \in Deduction
      /\ p.quote.deduction.voucher \in Nat /\ paid \in Nat
  <2>1. p.quote.deduction \in Deduction
    BY <1>1, PaymentTypes
  <2> QED BY <1>1, <2>1, PaymentTypes DEF Deduction
<1>3. /\ ApplyQuoteToUser(WalletMerchant(c.merchantId), p.userId, p.quote)
      /\ outdated' \in {outdated, outdated \cup {c.txn}}
      /\ payments' = [payments EXCEPT ![c.txn].status = "PAID"]
      /\ ledger' = ledger \cup {e}
      /\ nextTxn' = t + 1
      /\ Reply(r, "PAID", c.txn)
      /\ budgetUsed' = [budgetUsed EXCEPT ![c.merchantId] = @ + p.quote.deduction.voucher]
      /\ UNCHANGED <<now, walletShared, idempotency>>
  BY <1>0 DEF ConfirmSuccess, SpendBudget, serviceVars
<1>5. e \in LedgerRow /\ e.txnId = t /\ e.paymentTxn = c.txn
  <2>1. e = Row(t, "PAYMENT_EXTERNAL_CONFIRM", c.merchantId, p.userId, c.txn, paid)
    OBVIOUS
  <2>2. "PAYMENT_EXTERNAL_CONFIRM" \in RowTypes
    BY DEF RowTypes, SettlementTypes
  <2> HIDE DEF c, t, p, e
  <2> QED BY <1>1, <1>2, <2>1, <2>2, RowType
<1>8. /\ DOMAIN payments' = DOMAIN payments
      /\ payments' \in [DOMAIN payments -> Payment]
  BY <1>1, <1>2, <1>3 DEF DataTypes, Payment, PaymentStatus
<1> HIDE DEF c, e, p
<1>6. answer' \in [Requests -> Answer]
  BY <1>2, <1>3, ReplyType DEF AnswerStatus
<1>7. /\ wallet' \in [Merchants -> [Users -> Wallet]]
      /\ voucherStatus' \in [Merchants -> [Users -> [VoucherIds -> VoucherStatus]]]
  BY <1>1, <1>2, <1>3, WalletMerchantType, ApplyQuoteType
<1>9. budgetUsed' \in [Merchants -> Nat]
  BY <1>1, <1>2, <1>3 DEF DataTypes
<1>10. nextTxn' \in Nat /\ nextTxn' > t /\ c.txn < nextTxn'
  BY <1>1, <1>2, <1>3
<1>11. idempotency' \in [IdempotencyKeys -> Answer] /\ outdated' \subseteq DOMAIN payments
  BY <1>1, <1>3 DEF DataTypes
<1> QED BY <1>3, <1>5, <1>6, <1>7, <1>8, <1>9, <1>10, <1>11, MoneyTypes

\* The row a refund writes, and what the step does with it.
RefundRow(t, c, p, clawback, amount) ==
  [Row(t, "REFUND", c.merchantId, p.userId, c.txn, amount)
     EXCEPT !.clawback = clawback, !.asked = c.amount]

RefundStep(c, p, m, available, consumed, clawback, amount, next, refunded) ==
  /\ available \in Cents(p.orderAmount - Cent * p.refundedAmount)
  /\ c.amount <= Cent * available
  /\ consumed \in BonusConsumed(p.quote.deduction.bonus, c.amount, p.orderAmount)
  /\ clawback \in Clawbacks(wallet[m][p.userId], c.amount, consumed)
  /\ amount \in Cents(c.amount)
  /\ next \in NextWallets(wallet[m][p.userId], c.amount, consumed, clawback)
  /\ refunded \in Cents(Cent * p.refundedAmount + c.amount)
  /\ wallet' = [wallet EXCEPT ![m][p.userId] = next]
  /\ ledger' = ledger \cup {RefundRow(nextTxn, c, p, clawback, amount)}
  /\ payments' = [payments EXCEPT ![c.txn].refundedAmount = refunded]

LEMMA RefundStepIs ==
  ASSUME NEW r \in Requests, RefundPayment(r)
  PROVE  \E available, consumed, clawback, amount, next, refunded :
           RefundStep(call[r], payments[call[r].txn], WalletMerchant(call[r].merchantId),
                      available, consumed, clawback, amount, next, refunded)
<1> DEFINE c == call[r]
<1> DEFINE p == payments[c.txn]
<1> DEFINE m == WalletMerchant(c.merchantId)
<1> DEFINE w == wallet[m][p.userId]
<1>1. PICK available \in AvailableRefund(p) : c.amount <= Cent * available
  BY DEF RefundPayment
<1>2. PICK refunded \in Cents(Cent * p.refundedAmount + c.amount) :
        payments' = [payments EXCEPT ![c.txn].refundedAmount = refunded]
  BY DEF RefundPayment
<1>3. \E consumed \in BonusConsumed(p.quote.deduction.bonus, c.amount, p.orderAmount) :
        \E clawback \in Clawbacks(w, c.amount, consumed), amount \in Cents(c.amount) :
          /\ \E next \in NextWallets(w, c.amount, consumed, clawback) :
               wallet' = [wallet EXCEPT ![m][p.userId] = next]
          /\ ledger' = ledger \cup
               {[Row(nextTxn, "REFUND", c.merchantId, p.userId, c.txn, amount)
                  EXCEPT !.clawback = clawback, !.asked = c.amount]}
  BY DEF RefundPayment
<1>4. PICK consumed \in BonusConsumed(p.quote.deduction.bonus, c.amount, p.orderAmount) :
        \E clawback \in Clawbacks(w, c.amount, consumed), amount \in Cents(c.amount) :
          /\ \E next \in NextWallets(w, c.amount, consumed, clawback) :
               wallet' = [wallet EXCEPT ![m][p.userId] = next]
          /\ ledger' = ledger \cup {RefundRow(nextTxn, c, p, clawback, amount)}
  BY <1>3 DEF RefundRow
<1>5. PICK clawback \in Clawbacks(w, c.amount, consumed), amount \in Cents(c.amount) :
          /\ \E next \in NextWallets(w, c.amount, consumed, clawback) :
               wallet' = [wallet EXCEPT ![m][p.userId] = next]
          /\ ledger' = ledger \cup {RefundRow(nextTxn, c, p, clawback, amount)}
  BY <1>4
<1>6. PICK next \in NextWallets(w, c.amount, consumed, clawback) :
        wallet' = [wallet EXCEPT ![m][p.userId] = next]
  BY <1>5
<1>7. available \in Cents(p.orderAmount - Cent * p.refundedAmount)
  BY <1>1 DEF AvailableRefund
<1>8. RefundStep(c, p, m, available, consumed, clawback, amount, next, refunded)
  <2> HIDE DEF c, p, m
  <2> QED BY <1>1, <1>2, <1>4, <1>5, <1>6, <1>7 DEF RefundStep
<1> QED BY <1>8

\* The row of a refund, field by field.
LEMMA RefundRowIs ==
  ASSUME NEW t \in Nat, NEW c \in Calls, c.amount \in Nat, NEW p \in Payment,
         NEW clawback \in [reclaimTarget : Nat, fromBonus : Nat, fromPrincipal : Nat],
         NEW amount \in Nat
  PROVE  LET e == RefundRow(t, c, p, clawback, amount)
         IN  /\ e \in LedgerRow
             /\ e.txnId = t /\ e.type = "REFUND" /\ e.paymentTxn = c.txn
             /\ e.userId = p.userId /\ e.amount = amount /\ e.asked = c.amount
             /\ e.clawback = clawback
<1>1. c.merchantId \in Merchants /\ c.txn \in Nat
  BY CallTypes
<1>2. p.userId \in Users
  BY DEF Payment
<1>3. RefundRow(t, c, p, clawback, amount)
        = [txnId |-> t, type |-> "REFUND", merchantId |-> c.merchantId, userId |-> p.userId,
           paymentTxn |-> c.txn, amount |-> amount, asked |-> c.amount,
           account |-> "principal", clawback |-> clawback]
  <2> DEFINE row == Row(t, "REFUND", c.merchantId, p.userId, c.txn, amount)
  <2> DEFINE clawed == [row EXCEPT !.clawback = clawback]
  <2>1. row = [txnId |-> t, type |-> "REFUND", merchantId |-> c.merchantId,
               userId |-> p.userId, paymentTxn |-> c.txn, amount |-> amount, asked |-> 0,
               account |-> "principal", clawback |-> NoClawback]
    BY DEF Row
  <2>2. RefundRow(t, c, p, clawback, amount) = [clawed EXCEPT !.asked = c.amount]
    BY DEF RefundRow
  <2> HIDE DEF row
  <2>3. clawed = [txnId |-> t, type |-> "REFUND", merchantId |-> c.merchantId,
                  userId |-> p.userId, paymentTxn |-> c.txn, amount |-> amount, asked |-> 0,
                  account |-> "principal", clawback |-> clawback]
    BY <2>1
  <2> HIDE DEF clawed
  <2> QED BY <2>2, <2>3
<1> QED BY <1>1, <1>2, <1>3 DEF LedgerRow, WalletAccounts

LEMMA RefundKeepsTypes ==
  ASSUME DataTypes, LedgerPast, LocksHeld, NEW r \in Requests, RefundPayment(r)
  PROVE  DataTypes' /\ LedgerPast'
<1> DEFINE c == call[r]
<1> DEFINE t == nextTxn
<1> DEFINE p == payments[c.txn]
<1> DEFINE m == WalletMerchant(c.merchantId)
<1> DEFINE w == wallet[m][p.userId]
<1>1. /\ c \in Calls /\ c.merchantId \in Merchants /\ c.txn \in DOMAIN payments
      /\ c.amount \in Nat /\ t \in Nat \ {0} /\ IdempotencyKey(c) \in IdempotencyKeys
  BY CallTypes DEF LocksHeld, RefundPayment, Runs, RefundAccepted, PaymentFound, DataTypes
<1>2. /\ c.txn \in Nat /\ c.txn < t /\ p \in Payment /\ p.userId \in Users
      /\ p.orderAmount \in Nat \ {0} /\ p.refundedAmount \in Nat
      /\ p.quote.deduction.bonus \in Nat
  BY <1>1, PaymentTypes
<1>3. m \in Merchants /\ w \in Wallet
  BY <1>1, <1>2, WalletMerchantType DEF DataTypes
<1>4. PICK available, consumed, clawback, amount, next, refunded :
        RefundStep(c, p, m, available, consumed, clawback, amount, next, refunded)
  BY RefundStepIs
<1> DEFINE e == RefundRow(t, c, p, clawback, amount)
<1>5. /\ nextTxn' = t + 1
      /\ Reply(r, "REFUNDED", t)
      /\ idempotency' = [idempotency EXCEPT ![IdempotencyKey(c)] = answer'[r]]
      /\ UNCHANGED <<now, walletShared, voucherStatus, budgetUsed, outdated>>
  BY DEF RefundPayment, serviceVars
<1>6. /\ consumed \in BonusConsumed(p.quote.deduction.bonus, c.amount, p.orderAmount)
      /\ clawback \in Clawbacks(w, c.amount, consumed)
      /\ amount \in Cents(c.amount)
      /\ next \in NextWallets(w, c.amount, consumed, clawback)
      /\ refunded \in Cents(Cent * p.refundedAmount + c.amount)
      /\ wallet' = [wallet EXCEPT ![m][p.userId] = next]
      /\ ledger' = ledger \cup {e}
      /\ payments' = [payments EXCEPT ![c.txn].refundedAmount = refunded]
  BY <1>4 DEF RefundStep
<1> HIDE DEF c, e, p, m, w
<1>7. consumed \in Nat
  BY <1>1, <1>2, <1>6, ConsumedType
<1>8. /\ clawback \in [reclaimTarget : Nat, fromBonus : Nat, fromPrincipal : Nat]
      /\ next \in Wallet /\ amount \in Nat
  BY <1>1, <1>3, <1>6, <1>7, RefundKeepsRow
<1>9. refunded \in Nat
  <2>1. Cent * p.refundedAmount + c.amount \in Nat
    BY <1>1, <1>2, CentAssumption
  <2> QED BY <1>6, <2>1, CentsType
<1>10. e \in LedgerRow /\ e.txnId = t /\ e.paymentTxn = c.txn
  BY <1>1, <1>2, <1>8, RefundRowIs DEF e
<1>11. /\ DOMAIN payments' = DOMAIN payments
       /\ payments' \in [DOMAIN payments -> Payment]
  BY <1>1, <1>2, <1>6, <1>9 DEF DataTypes, Payment, p
<1>12. wallet' \in [Merchants -> [Users -> Wallet]]
  BY <1>2, <1>3, <1>6, <1>8 DEF DataTypes
<1>13. answer' \in [Requests -> Answer] /\ answer'[r] \in Answer
  BY <1>1, <1>5, ReplyType DEF AnswerStatus
<1>14. idempotency' \in [IdempotencyKeys -> Answer]
  BY <1>1, <1>5, <1>13, RecordType
<1>15. nextTxn' \in Nat /\ nextTxn' > t /\ c.txn < nextTxn'
  BY <1>1, <1>2, <1>5
<1>16. /\ voucherStatus' \in [Merchants -> [Users -> [VoucherIds -> VoucherStatus]]]
       /\ budgetUsed' \in [Merchants -> Nat]
       /\ outdated' \subseteq DOMAIN payments
  BY <1>5 DEF DataTypes
<1> QED BY <1>5, <1>6, <1>10, <1>11, <1>12, <1>13, <1>14, <1>15, <1>16, MoneyTypes

LEMMA DecisionKeepsTypes ==
  ASSUME DataTypes, LedgerPast, LocksHeld, NEW r \in Requests, RevenueDecision(r)
  PROVE  DataTypes' /\ LedgerPast'
<1> DEFINE m == call[r].merchantId
<1> DEFINE u == Payer(r)
<1>1. UNCHANGED <<now, walletShared, idempotency, answer>>
  BY DEF RevenueDecision, serviceVars
<1>2. CASE UNCHANGED moneyVars
  BY <1>1, <1>2 DEF moneyVars, DataTypes, LedgerPast
<1>3. CASE <<m, u>> \in Members /\ \E g \in Grants : Grant(m, u, g)
  <2>1. m \in Merchants /\ u \in Users
    BY <1>3, PaymentAssumption
  <2>2. PICK g \in Grants : Grant(m, u, g)
    BY <1>3
  <2>3. g.account \in WalletAccounts /\ g.amount \in Nat
    BY PaymentAssumption
  <2> DEFINE row == Row(nextTxn, "POLICYOS_GRANT", m, u, 0, g.amount)
  <2> DEFINE e == [row EXCEPT !.account = g.account]
  <2>4. /\ wallet' = [wallet EXCEPT ![m][u][g.account] = @ + g.amount]
        /\ ledger' = ledger \cup {e}
        /\ nextTxn' = nextTxn + 1
        /\ UNCHANGED <<voucherStatus, budgetUsed, payments, outdated>>
    BY <2>2 DEF Grant
  <2> HIDE DEF m, u
  <2>5. nextTxn \in Nat \ {0}
    BY DEF DataTypes
  <2>6. e \in LedgerRow /\ e.txnId = nextTxn /\ e.paymentTxn = 0
    <3>1. row = Row(nextTxn, "POLICYOS_GRANT", m, u, 0, g.amount)
      OBVIOUS
    <3>2. "POLICYOS_GRANT" \in RowTypes
      BY DEF RowTypes
    <3>3. row \in LedgerRow /\ row.txnId = nextTxn /\ row.paymentTxn = 0
      <4> HIDE DEF row
      <4> QED BY <2>1, <2>3, <2>5, <3>1, <3>2, RowType
    <3> HIDE DEF row
    <3> QED BY <2>3, <3>3 DEF LedgerRow
  <2>7. wallet' \in [Merchants -> [Users -> Wallet]]
    <3>1. wallet[m][u] \in Wallet
      BY <2>1 DEF DataTypes
    <3>2. [wallet[m][u] EXCEPT ![g.account] = @ + g.amount] \in Wallet
      BY <2>3, <3>1 DEF Wallet, WalletAccounts
    <3>3. wallet' = [wallet EXCEPT ![m] = [wallet[m] EXCEPT ![u] =
                       [wallet[m][u] EXCEPT ![g.account] = @ + g.amount]]]
      BY <2>4
    <3> QED BY <2>1, <3>2, <3>3 DEF DataTypes
  <2>8. /\ voucherStatus' \in [Merchants -> [Users -> [VoucherIds -> VoucherStatus]]]
        /\ budgetUsed' \in [Merchants -> Nat]
        /\ outdated' \subseteq DOMAIN payments
        /\ DOMAIN payments' = DOMAIN payments
        /\ payments' \in [DOMAIN payments' -> Payment]
        /\ idempotency' \in [IdempotencyKeys -> Answer]
        /\ answer' \in [Requests -> Answer]
    BY <1>1, <2>4 DEF DataTypes
  <2>9. nextTxn' \in Nat /\ nextTxn' > nextTxn /\ 0 < nextTxn'
    BY <2>4, <2>5
  <2> HIDE DEF e
  <2> QED BY <1>1, <2>4, <2>6, <2>7, <2>8, <2>9, MoneyTypes
<1> QED BY <1>2, <1>3 DEF RevenueDecision

\* The steps that change no money.
LEMMA OtherStepsKeepTypes ==
  ASSUME DataTypes, LedgerPast, LocksHeld, NEW r \in Requests,
         \/ Arrive(r) \/ EnterService(r) \/ Replay(r) \/ Reject(r)
         \/ ConfirmSettledAgain(r) \/ ConfirmFailure(r) \/ Finish(r)
  PROVE  DataTypes' /\ LedgerPast'
<1> DEFINE c == call[r]
<1>1. phase[r] # "idle" => /\ c \in Calls /\ c.txn \in Nat
                           /\ IdempotencyKey(c) \in IdempotencyKeys
  BY CallTypes DEF LocksHeld
<1>2. CASE Arrive(r) \/ EnterService(r)
  BY <1>2 DEF Arrive, EnterService, serviceVars, moneyVars, DataTypes, LedgerPast
<1>3. CASE Replay(r) \/ Reject(r)
  <2>1. /\ UNCHANGED <<serviceVars, moneyVars, idempotency>>
        /\ \E a \in Answer : answer' = [answer EXCEPT ![r] = a]
    <3>1. c \in Calls /\ IdempotencyKey(c) \in IdempotencyKeys
      BY <1>1, <1>3 DEF Replay, Reject, Runs
    <3>2. Cached(c) \in Answer /\ ErrorAnswer \in Answer
      BY <3>1 DEF Cached, DataTypes, ErrorAnswer, Answer, AnswerStatus
    <3> QED BY <1>3, <3>2 DEF Replay, Reject
  <2>2. answer' \in [Requests -> Answer]
    BY <2>1 DEF DataTypes
  <2> QED BY <2>1, <2>2 DEF serviceVars, moneyVars, DataTypes, LedgerPast
<1>4. CASE ConfirmSettledAgain(r)
  <2>1. /\ UNCHANGED <<serviceVars, moneyVars>> /\ phase[r] # "idle"
        /\ Reply(r, "PAID", c.txn)
        /\ idempotency' = [idempotency EXCEPT ![IdempotencyKey(c)] = answer'[r]]
    BY <1>4 DEF ConfirmSettledAgain, Runs
  <2> HIDE DEF c
  <2>2. answer' \in [Requests -> Answer] /\ answer'[r] \in Answer
    BY <1>1, <2>1, ReplyType DEF AnswerStatus
  <2>3. idempotency' \in [IdempotencyKeys -> Answer]
    BY <1>1, <2>1, <2>2, RecordType
  <2> QED BY <2>1, <2>2, <2>3 DEF serviceVars, moneyVars, DataTypes, LedgerPast
<1>5. CASE ConfirmFailure(r)
  <2>1. /\ UNCHANGED <<serviceVars, wallet, voucherStatus, budgetUsed, ledger, nextTxn, outdated>>
        /\ phase[r] # "idle" /\ c.txn \in DOMAIN payments
        /\ payments' = [payments EXCEPT ![c.txn].status = "EXTERNAL_FAILED"]
        /\ Reply(r, "EXTERNAL_FAILED", c.txn)
        /\ idempotency' = [idempotency EXCEPT ![IdempotencyKey(c)] = answer'[r]]
    BY <1>5 DEF ConfirmFailure, Runs, GatewayFailed, CallbackFinds, PaymentFound
  <2> HIDE DEF c
  <2>2. answer' \in [Requests -> Answer] /\ answer'[r] \in Answer
    BY <1>1, <2>1, ReplyType DEF AnswerStatus
  <2>3. idempotency' \in [IdempotencyKeys -> Answer]
    BY <1>1, <2>1, <2>2, RecordType
  <2>4. DOMAIN payments' = DOMAIN payments /\ payments' \in [DOMAIN payments -> Payment]
    BY <2>1, PaymentTypes DEF DataTypes, Payment, PaymentStatus
  <2> QED BY <2>1, <2>2, <2>3, <2>4 DEF serviceVars, DataTypes, LedgerPast
<1>6. CASE Finish(r)
  <2>1. /\ UNCHANGED <<serviceVars, moneyVars, answer>> /\ phase[r] # "idle"
        /\ idempotency' = [idempotency EXCEPT ![IdempotencyKey(c)] = answer[r]]
        /\ answer[r] \in Answer
    BY <1>6 DEF Finish, DataTypes
  <2> HIDE DEF c
  <2>2. idempotency' \in [IdempotencyKeys -> Answer]
    BY <1>1, <2>1, RecordType
  <2> QED BY <2>1, <2>2 DEF serviceVars, moneyVars, DataTypes, LedgerPast
<1> QED BY <1>2, <1>3, <1>4, <1>5, <1>6

LEMMA NextKeepsTypes ==
  ASSUME DataTypes, LedgerPast, LocksHeld, [Next]_vars
  PROVE  DataTypes' /\ LedgerPast'
<1>1. CASE \E m \in Merchants : SetWalletShared(m)
  BY <1>1 DEF SetWalletShared, moneyVars, requestVars, DataTypes, LedgerPast
<1>2. CASE Tick
  BY <1>2 DEF Tick, moneyVars, requestVars, DataTypes, LedgerPast
<1>3. CASE Answered \/ UNCHANGED vars
  BY <1>3 DEF Answered, vars, serviceVars, moneyVars, requestVars, DataTypes, LedgerPast
<1> QED BY <1>1, <1>2, <1>3, VerifyPendingKeepsTypes, VerifyInternalKeepsTypes,
           ConfirmSuccessKeepsTypes, RefundKeepsTypes, DecisionKeepsTypes, OtherStepsKeepTypes
        DEF Next, Serve

-----------------------------------------------------------------------------
(***************************************************************************)
(* What a step can do to the payments and to the rows that settle them.    *)
(***************************************************************************)
NoSettlement ==
  /\ ledger \subseteq ledger'
  /\ \A e \in ledger' \ ledger : e.type \notin SettlementTypes

NewSettlement(t) ==
  \E e : /\ ledger' = ledger \cup {e}
         /\ e.type \in SettlementTypes
         /\ e.paymentTxn = t

KeepsPayments == payments' = payments /\ NoSettlement

OpensPayment ==
  \E p \in Payment :
    /\ payments' = WithPayment(nextTxn, p)
    /\ p.refundedAmount = 0
    /\ \/ p.status = "PENDING_EXTERNAL" /\ NoSettlement
       \/ p.status = "PAID" /\ NewSettlement(nextTxn)

SettlesPayment(t) ==
  /\ payments[t].status = "PENDING_EXTERNAL"
  /\ payments' = [payments EXCEPT ![t].status = "PAID"]
  /\ NewSettlement(t)

FailsPayment(t) ==
  /\ payments[t].status = "PENDING_EXTERNAL"
  /\ payments' = [payments EXCEPT ![t].status = "EXTERNAL_FAILED"]
  /\ NoSettlement

RefundsPayment(t) ==
  \E refunded \in Nat :
    /\ payments[t].status = "PAID"
    /\ payments[t].refundedAmount <= refunded
    /\ refunded <= InCents(payments[t].orderAmount)
    /\ payments' = [payments EXCEPT ![t].refundedAmount = refunded]
    /\ NoSettlement

LEMMA StepShapes ==
  ASSUME DataTypes, LedgerPast, LocksHeld, [Next]_vars
  PROVE  \/ KeepsPayments \/ OpensPayment
         \/ \E t \in DOMAIN payments : SettlesPayment(t) \/ FailsPayment(t) \/ RefundsPayment(t)
<1>0. ASSUME UNCHANGED <<payments, ledger>> PROVE KeepsPayments
  BY <1>0 DEF KeepsPayments, NoSettlement
<1>1. ASSUME NEW r \in Requests, VerifyPending(r) PROVE OpensPayment
  <2> DEFINE c == call[r]
  <2>0. PICK quote \in GetQuote(c.merchantId, c.userId, c.amount), amount \in Cents(c.amount) :
          /\ payments' = WithPayment(nextTxn,
               [merchantId |-> c.merchantId, userId |-> c.userId,
                status |-> "PENDING_EXTERNAL", orderAmount |-> c.amount,
                quote |-> quote, refundedAmount |-> 0])
          /\ ledger' = ledger \cup
               {Row(nextTxn + 1, "PAYMENT_PENDING", c.merchantId, c.userId, nextTxn, amount)}
    BY <1>1 DEF VerifyPending
  <2> DEFINE e == Row(nextTxn + 1, "PAYMENT_PENDING", c.merchantId, c.userId, nextTxn, amount)
  <2> DEFINE p == [merchantId |-> c.merchantId, userId |-> c.userId,
                   status |-> "PENDING_EXTERNAL", orderAmount |-> c.amount,
                   quote |-> quote, refundedAmount |-> 0]
  <2>1. payments' = WithPayment(nextTxn, p) /\ ledger' = ledger \cup {e}
    BY <2>0
  <2>2. p \in Payment
    <3>1. /\ c.merchantId \in Merchants /\ c.userId \in Users /\ c.amount \in Nat \ {0}
      BY <1>1, CallTypes DEF LocksHeld, VerifyPending, Runs, VerifyAccepted
    <3>2. quote \in QuoteRecord
      BY <2>0, <3>1, QuoteType
    <3> QED BY <3>1, <3>2 DEF Payment, PaymentStatus
  <2>3. e.type \notin SettlementTypes
    BY DEF Row, SettlementTypes
  <2>4. p.status = "PENDING_EXTERNAL" /\ p.refundedAmount = 0
    OBVIOUS
  <2> HIDE DEF p, e
  <2> QED BY <2>1, <2>2, <2>3, <2>4 DEF OpensPayment, NoSettlement
<1>2. ASSUME NEW r \in Requests, VerifyInternal(r) PROVE OpensPayment
  <2> DEFINE c == call[r]
  <2>0. PICK quote \in GetQuote(c.merchantId, c.userId, c.amount), amount \in Cents(c.amount) :
          /\ ledger' = ledger \cup
               {Row(nextTxn, "PAYMENT", c.merchantId, c.userId, nextTxn, amount)}
          /\ payments' = WithPayment(nextTxn,
               [merchantId |-> c.merchantId, userId |-> c.userId,
                status |-> "PAID", orderAmount |-> c.amount,
                quote |-> quote, refundedAmount |-> 0])
    BY <1>2 DEF VerifyInternal
  <2> DEFINE e == Row(nextTxn, "PAYMENT", c.merchantId, c.userId, nextTxn, amount)
  <2> DEFINE p == [merchantId |-> c.merchantId, userId |-> c.userId,
                   status |-> "PAID", orderAmount |-> c.amount,
                   quote |-> quote, refundedAmount |-> 0]
  <2>1. payments' = WithPayment(nextTxn, p) /\ ledger' = ledger \cup {e}
    BY <2>0
  <2>2. p \in Payment
    <3>1. /\ c.merchantId \in Merchants /\ c.userId \in Users /\ c.amount \in Nat \ {0}
      BY <1>2, CallTypes DEF LocksHeld, VerifyInternal, Runs, VerifyAccepted
    <3>2. quote \in QuoteRecord
      BY <2>0, <3>1, QuoteType
    <3> QED BY <3>1, <3>2 DEF Payment, PaymentStatus
  <2>3. e.type \in SettlementTypes /\ e.paymentTxn = nextTxn
    BY DEF Row, SettlementTypes
  <2>4. p.status = "PAID" /\ p.refundedAmount = 0
    OBVIOUS
  <2> HIDE DEF p, e
  <2> QED BY <2>1, <2>2, <2>3, <2>4 DEF OpensPayment, NewSettlement
<1>3. ASSUME NEW r \in Requests, ConfirmSuccess(r)
      PROVE  \E t \in DOMAIN payments : SettlesPayment(t)
  <2> DEFINE t == call[r].txn
  <2>0. PICK paid : /\ GatewayPaid(call[r], paid)
                    /\ ledger' = ledger \cup
                         {Row(nextTxn, "PAYMENT_EXTERNAL_CONFIRM", call[r].merchantId,
                              payments[t].userId, t, paid)}
    BY <1>3 DEF ConfirmSuccess
  <2> DEFINE e == Row(nextTxn, "PAYMENT_EXTERNAL_CONFIRM", call[r].merchantId,
                      payments[t].userId, t, paid)
  <2>1. /\ t \in DOMAIN payments /\ payments[t].status = "PENDING_EXTERNAL"
        /\ payments' = [payments EXCEPT ![t].status = "PAID"]
        /\ ledger' = ledger \cup {e}
    BY <1>3, <2>0 DEF ConfirmSuccess, GatewayPaid, CallbackFinds, PaymentFound
  <2>2. e.type \in SettlementTypes /\ e.paymentTxn = t
    BY DEF Row, SettlementTypes
  <2> HIDE DEF t, e
  <2> QED BY <2>1, <2>2 DEF SettlesPayment, NewSettlement
<1>4. ASSUME NEW r \in Requests, ConfirmFailure(r)
      PROVE  \E t \in DOMAIN payments : FailsPayment(t)
  BY <1>4 DEF ConfirmFailure, GatewayFailed, CallbackFinds, PaymentFound, FailsPayment, NoSettlement
<1>5. ASSUME NEW r \in Requests, RefundPayment(r)
      PROVE  \E t \in DOMAIN payments : RefundsPayment(t)
  <2> DEFINE c == call[r]
  <2> DEFINE p == payments[c.txn]
  <2> DEFINE m == WalletMerchant(c.merchantId)
  <2>1. /\ c \in Calls /\ c.txn \in DOMAIN payments /\ p.status = "PAID"
        /\ c.amount \in Nat
    BY <1>5, CallTypes DEF LocksHeld, Runs, RefundPayment, RefundAccepted, PaymentFound
  <2>2. p.orderAmount \in Nat /\ p.refundedAmount \in Nat
    BY <2>1, PaymentTypes
  <2>3. PICK available, consumed, clawback, amount, next, refunded :
          RefundStep(c, p, m, available, consumed, clawback, amount, next, refunded)
    BY <1>5, RefundStepIs
  <2> HIDE DEF c, p, m
  <2>4. /\ available \in Cents(p.orderAmount - Cent * p.refundedAmount)
        /\ c.amount <= Cent * available
        /\ refunded \in Cents(Cent * p.refundedAmount + c.amount)
        /\ amount \in Cents(c.amount)
        /\ ledger' = ledger \cup {RefundRow(nextTxn, c, p, clawback, amount)}
        /\ payments' = [payments EXCEPT ![c.txn].refundedAmount = refunded]
    BY <2>3 DEF RefundStep
  <2>5. refunded \in Nat /\ p.refundedAmount <= refunded /\ refunded <= InCents(p.orderAmount)
    BY <2>1, <2>2, <2>4, RefundedStaysWithin
  <2>6. NoSettlement
    <3>1. RefundRow(nextTxn, c, p, clawback, amount).type \notin SettlementTypes
      BY DEF RefundRow, Row, SettlementTypes
    <3> QED BY <2>4, <3>1 DEF NoSettlement
  <2> QED BY <2>1, <2>4, <2>5, <2>6 DEF RefundsPayment, p
<1>6. ASSUME NEW r \in Requests, RevenueDecision(r) PROVE KeepsPayments
  <2>1. payments' = payments
    BY <1>6 DEF RevenueDecision, moneyVars, Grant
  <2>2. NoSettlement
    BY <1>6 DEF RevenueDecision, moneyVars, Grant, NoSettlement, Row, SettlementTypes
  <2> QED BY <2>1, <2>2 DEF KeepsPayments
<1>7. ASSUME NEW r \in Requests,
             \/ Arrive(r) \/ EnterService(r) \/ Replay(r) \/ Reject(r)
             \/ ConfirmSettledAgain(r) \/ Finish(r)
      PROVE  KeepsPayments
  BY <1>0, <1>7 DEF Arrive, EnterService, Replay, Reject, ConfirmSettledAgain, Finish, moneyVars
<1>8. ASSUME (\E m \in Merchants : SetWalletShared(m)) \/ Tick \/ Answered \/ UNCHANGED vars
      PROVE  KeepsPayments
  BY <1>0, <1>8 DEF SetWalletShared, Tick, Answered, vars, moneyVars
<1> QED BY <1>1, <1>2, <1>3, <1>4, <1>5, <1>6, <1>7, <1>8 DEF Next, Serve

-----------------------------------------------------------------------------
LEMMA StepKeepsSettledOnce ==
  ASSUME DataTypes, LedgerPast, LocksHeld, SettledOnce, [Next]_vars
  PROVE  SettledOnce'
<1>0. ASSUME NoSettlement, NEW t PROVE Settlements(t)' = Settlements(t)
  BY <1>0 DEF NoSettlement, Settlements
<1>1. ASSUME NEW t, NewSettlement(t), NEW s, s # t PROVE Settlements(s)' = Settlements(s)
  BY <1>1 DEF NewSettlement, Settlements
<1>2. ASSUME NEW t, NewSettlement(t), Settlements(t) = {}
      PROVE  /\ Settlements(t)' # {}
             /\ \A e, f \in Settlements(t)' : e = f
  BY <1>2 DEF NewSettlement, Settlements
<1>3. CASE KeepsPayments
  BY <1>0, <1>3 DEF KeepsPayments, SettledOnce
<1>4. CASE OpensPayment
  <2>1. Settlements(nextTxn) = {}
    BY DEF Settlements, LedgerPast, DataTypes
  <2>2. PICK p \in Payment :
          /\ payments' = WithPayment(nextTxn, p)
          /\ \/ p.status = "PENDING_EXTERNAL" /\ NoSettlement
             \/ p.status = "PAID" /\ NewSettlement(nextTxn)
    BY <1>4 DEF OpensPayment
  <2>3. /\ DOMAIN payments' = DOMAIN payments \cup {nextTxn} /\ nextTxn \notin DOMAIN payments
        /\ payments'[nextTxn] = p
        /\ \A s \in DOMAIN payments : payments'[s] = payments[s]
    BY <2>2, WithPaymentType
  <2>4. CASE p.status = "PENDING_EXTERNAL" /\ NoSettlement
    BY <1>0, <2>1, <2>3, <2>4 DEF SettledOnce
  <2>5. CASE p.status = "PAID" /\ NewSettlement(nextTxn)
    BY <1>1, <1>2, <2>1, <2>3, <2>5 DEF SettledOnce
  <2> QED BY <2>2, <2>4, <2>5
<1>5. ASSUME NEW t \in DOMAIN payments, SettlesPayment(t) PROVE SettledOnce'
  <2>1. /\ DOMAIN payments' = DOMAIN payments /\ payments'[t].status = "PAID"
        /\ \A s \in DOMAIN payments \ {t} : payments'[s] = payments[s]
    BY <1>5, PaymentTypes DEF SettlesPayment, Payment
  <2>2. Settlements(t) = {} /\ NewSettlement(t)
    BY <1>5 DEF SettlesPayment, SettledOnce
  <2> QED BY <1>1, <1>2, <2>1, <2>2 DEF SettledOnce
<1>6. ASSUME NEW t \in DOMAIN payments, FailsPayment(t) PROVE SettledOnce'
  <2>1. /\ DOMAIN payments' = DOMAIN payments
        /\ payments[t].status # "PAID" /\ payments'[t].status # "PAID"
        /\ \A s \in DOMAIN payments \ {t} : payments'[s] = payments[s]
    BY <1>6, PaymentTypes DEF FailsPayment, Payment
  <2> QED BY <1>0, <1>6, <2>1 DEF FailsPayment, SettledOnce
<1>7. ASSUME NEW t \in DOMAIN payments, RefundsPayment(t) PROVE SettledOnce'
  <2>1. /\ DOMAIN payments' = DOMAIN payments
        /\ \A s \in DOMAIN payments : payments'[s].status = payments[s].status
    BY <1>7, PaymentTypes DEF RefundsPayment, Payment
  <2> QED BY <1>0, <1>7, <2>1 DEF RefundsPayment, SettledOnce
<1> QED BY <1>3, <1>4, <1>5, <1>6, <1>7, StepShapes

LEMMA StepKeepsRefundsWithinOrder ==
  ASSUME DataTypes, LedgerPast, LocksHeld, RefundsWithinOrder, [Next]_vars
  PROVE  RefundsWithinOrder'
<1>1. CASE KeepsPayments
  BY <1>1 DEF KeepsPayments, RefundsWithinOrder
<1>2. CASE OpensPayment
  <2>1. PICK p \in Payment : payments' = WithPayment(nextTxn, p) /\ p.refundedAmount = 0
    BY <1>2 DEF OpensPayment
  <2>2. /\ DOMAIN payments' = DOMAIN payments \cup {nextTxn} /\ payments'[nextTxn] = p
        /\ \A s \in DOMAIN payments : payments'[s] = payments[s]
    BY <2>1, WithPaymentType
  <2>3. InCents(p.orderAmount) \in Nat
    BY InCentsType DEF Payment
  <2> QED BY <2>1, <2>2, <2>3 DEF RefundsWithinOrder
<1>3. ASSUME NEW t \in DOMAIN payments, SettlesPayment(t) \/ FailsPayment(t)
      PROVE  RefundsWithinOrder'
  <2>1. /\ DOMAIN payments' = DOMAIN payments
        /\ payments[t].status # "PAID"
        /\ payments'[t].refundedAmount = payments[t].refundedAmount
        /\ payments'[t].orderAmount = payments[t].orderAmount
        /\ \A s \in DOMAIN payments \ {t} : payments'[s] = payments[s]
    BY <1>3, PaymentTypes DEF SettlesPayment, FailsPayment, Payment
  <2> QED BY <2>1 DEF RefundsWithinOrder
<1>4. ASSUME NEW t \in DOMAIN payments, RefundsPayment(t) PROVE RefundsWithinOrder'
  <2>1. PICK refunded \in Nat :
          /\ payments[t].status = "PAID"
          /\ refunded <= InCents(payments[t].orderAmount)
          /\ payments' = [payments EXCEPT ![t].refundedAmount = refunded]
    BY <1>4 DEF RefundsPayment
  <2>2. /\ DOMAIN payments' = DOMAIN payments
        /\ payments'[t].refundedAmount = refunded
        /\ payments'[t].orderAmount = payments[t].orderAmount
        /\ payments'[t].status = "PAID"
        /\ \A s \in DOMAIN payments \ {t} : payments'[s] = payments[s]
    BY <2>1, PaymentTypes DEF Payment
  <2> QED BY <2>1, <2>2 DEF RefundsWithinOrder
<1> QED BY <1>1, <1>2, <1>3, <1>4, StepShapes

-----------------------------------------------------------------------------
(***************************************************************************)
(* The refinement: every step of the service is a step of the abstract     *)
(* payment book, or leaves it alone.                                       *)
(***************************************************************************)
LEMMA StepRefines ==
  ASSUME DataTypes, LedgerPast, LocksHeld, RefundsWithinOrder, [Next]_vars
  PROVE  [Lifecycle!Next]_Book
<1> USE DEF Lifecycle!Next, Lifecycle!Opened, Lifecycle!Settled, Lifecycle!Failed,
            Lifecycle!Refunded
<1>0. /\ DOMAIN Book = DOMAIN payments /\ DOMAIN Book' = DOMAIN payments'
      /\ \A t \in DOMAIN payments :
           /\ Book[t].status = payments[t].status
           /\ Book[t].amount = InCents(payments[t].orderAmount)
           /\ Book[t].refunded = payments[t].refundedAmount
      /\ \A t \in DOMAIN payments' :
           Book'[t] = [status |-> payments'[t].status,
                       amount |-> InCents(payments'[t].orderAmount),
                       refunded |-> payments'[t].refundedAmount]
  BY DEF Book
<1>1. CASE KeepsPayments
  BY <1>1 DEF KeepsPayments, Book
<1>2. CASE OpensPayment
  <2>1. PICK p \in Payment : /\ payments' = WithPayment(nextTxn, p) /\ p.refundedAmount = 0
                            /\ p.status \in {"PENDING_EXTERNAL", "PAID"}
    BY <1>2 DEF OpensPayment
  <2>2. /\ DOMAIN payments' = DOMAIN payments \cup {nextTxn} /\ payments'[nextTxn] = p
        /\ nextTxn \notin DOMAIN payments
        /\ \A s \in DOMAIN payments : payments'[s] = payments[s]
    BY <2>1, WithPaymentType
  <2>3. \A s \in DOMAIN Book : Book'[s] = Book[s]
    BY <2>2 DEF Book
  <2>4. nextTxn \notin DOMAIN Book /\ DOMAIN Book' = DOMAIN Book \cup {nextTxn}
    BY <1>0, <2>2
  <2>5. Book'[nextTxn] = [status |-> p.status, amount |-> InCents(p.orderAmount), refunded |-> 0]
    BY <1>0, <2>1, <2>2
  <2>6. Lifecycle!Opened(nextTxn)
    BY <2>1, <2>3, <2>4, <2>5
  <2> QED BY <1>0, <2>2, <2>6
<1>3. ASSUME NEW t \in DOMAIN payments, SettlesPayment(t) PROVE Lifecycle!Settled(t)
  BY <1>3, PaymentTypes DEF SettlesPayment, Book, Payment
<1>4. ASSUME NEW t \in DOMAIN payments, FailsPayment(t) PROVE Lifecycle!Failed(t)
  BY <1>4, PaymentTypes DEF FailsPayment, Book, Payment
<1>5. ASSUME NEW t \in DOMAIN payments, RefundsPayment(t)
      PROVE  Lifecycle!Refunded(t) \/ Book' = Book
  <2>1. PICK refunded \in Nat :
          /\ payments[t].status = "PAID"
          /\ payments[t].refundedAmount <= refunded
          /\ refunded <= InCents(payments[t].orderAmount)
          /\ payments' = [payments EXCEPT ![t].refundedAmount = refunded]
    BY <1>5 DEF RefundsPayment
  <2>2. payments'[t].refundedAmount = refunded
    BY <2>1, PaymentTypes DEF Payment
  <2>3. Book' = [Book EXCEPT ![t].refunded = refunded]
    BY <2>1, PaymentTypes DEF Book, Payment
  <2>4. Book'[t].refunded = refunded
    BY <1>0, <2>1, <2>2
  <2>5. CASE refunded = payments[t].refundedAmount
    <3>1. payments' = payments
      BY <2>1, <2>5, PaymentTypes DEF DataTypes, Payment
    <3> QED BY <3>1 DEF Book
  <2>6. CASE refunded # payments[t].refundedAmount
    <3>1. payments[t].refundedAmount \in Nat
      BY PaymentTypes
    <3>2. payments[t].refundedAmount < refunded
      BY <2>1, <2>6, <3>1
    <3>3. Book'[t].refunded > Book[t].refunded /\ Book'[t].refunded <= Book[t].amount
      BY <1>0, <2>1, <2>4, <3>2
    <3> QED BY <1>0, <2>1, <2>3, <2>4, <3>3
  <2> QED BY <2>5, <2>6
<1> QED BY <1>0, <1>1, <1>2, <1>3, <1>4, <1>5, StepShapes

-----------------------------------------------------------------------------
(***************************************************************************)
(* Answers.  What was told once stays so.                                  *)
(***************************************************************************)
RecordsHold == \A k \in IdempotencyKeys : AnswerHolds(idempotency[k])

LEMMA AnswersStay ==
  ASSUME DataTypes, LedgerPast, LocksHeld, [Next]_vars
  PROVE  \A a \in Answer : AnswerHolds(a) => AnswerHolds(a)'
<1>1. ledger \subseteq ledger'
  BY StepShapes DEF KeepsPayments, OpensPayment, SettlesPayment, FailsPayment, RefundsPayment,
                    NoSettlement, NewSettlement
<1>2. /\ DOMAIN payments \subseteq DOMAIN payments'
      /\ \A t \in DOMAIN payments :
           payments[t].status # "PENDING_EXTERNAL" => payments'[t].status = payments[t].status
  <2>1. CASE KeepsPayments
    BY <2>1 DEF KeepsPayments
  <2>2. CASE OpensPayment
    BY <2>2, WithPaymentType DEF OpensPayment
  <2>3. ASSUME NEW t \in DOMAIN payments,
               SettlesPayment(t) \/ FailsPayment(t) \/ RefundsPayment(t)
        PROVE  /\ DOMAIN payments \subseteq DOMAIN payments'
               /\ \A s \in DOMAIN payments :
                    payments[s].status # "PENDING_EXTERNAL" => payments'[s].status = payments[s].status
    BY <2>3, PaymentTypes DEF SettlesPayment, FailsPayment, RefundsPayment, Payment
  <2> QED BY <2>1, <2>2, <2>3, StepShapes
<1> QED BY <1>1, <1>2 DEF AnswerHolds

\* Each handler's answer is true when it is given.
LEMMA RepliesHold ==
  ASSUME DataTypes, LedgerPast, LocksHeld, NEW r \in Requests,
         \/ VerifyPending(r) \/ VerifyInternal(r) \/ ConfirmSettledAgain(r)
         \/ ConfirmFailure(r) \/ ConfirmSuccess(r) \/ RefundPayment(r)
  PROVE  /\ AnswerHolds(answer[r])'
         /\ \E a \in Answer : answer' = [answer EXCEPT ![r] = a]
         /\ \/ idempotency' = idempotency
            \/ idempotency' = [idempotency EXCEPT ![IdempotencyKey(call[r])] = answer'[r]]
<1> DEFINE c == call[r]
<1>1. /\ c \in Calls /\ c.txn \in Nat /\ c.merchantId \in Merchants
      /\ nextTxn \in Nat
  BY CallTypes DEF LocksHeld, DataTypes, Runs, VerifyPending, VerifyInternal, ConfirmSettledAgain,
                   ConfirmFailure, ConfirmSuccess, RefundPayment
<1>2. ASSUME NEW status \in AnswerStatus, NEW t \in Nat, Reply(r, status, t),
             status \in {"PAID", "EXTERNAL_FAILED"} =>
               t \in DOMAIN payments' /\ payments'[t].status = status,
             status = "PENDING_EXTERNAL" => t \in DOMAIN payments',
             status = "REFUNDED" => \E e \in ledger' : e.txnId = t /\ e.type = "REFUND"
      PROVE  /\ AnswerHolds(answer[r])'
             /\ \E a \in Answer : answer' = [answer EXCEPT ![r] = a]
  <2>1. [status |-> status, txn |-> t] \in Answer
    BY DEF Answer
  <2>2. answer'[r].status = status /\ answer'[r].txn = t
    BY <1>2 DEF Reply, DataTypes
  <2>3. AnswerHolds(answer[r])'
    BY <1>2, <2>2 DEF AnswerHolds
  <2> QED BY <1>2, <2>1, <2>3 DEF Reply
<1>3. CASE VerifyPending(r)
  <2>1. PICK p : payments' = WithPayment(nextTxn, p)
    BY <1>3 DEF VerifyPending
  <2>2. nextTxn \in DOMAIN payments' /\ Reply(r, "PENDING_EXTERNAL", nextTxn)
        /\ idempotency' = [idempotency EXCEPT ![IdempotencyKey(c)] = answer'[r]]
    BY <1>3, <2>1 DEF VerifyPending, WithPayment
  <2>3. "PENDING_EXTERNAL" \in AnswerStatus
    BY DEF AnswerStatus
  <2> QED BY <1>1, <1>2, <2>2, <2>3
<1>4. CASE VerifyInternal(r)
  <2>1. PICK p : payments' = WithPayment(nextTxn, p) /\ p.status = "PAID"
    BY <1>4 DEF VerifyInternal
  <2>2. nextTxn \in DOMAIN payments' /\ payments'[nextTxn].status = "PAID"
        /\ Reply(r, "PAID", nextTxn) /\ idempotency' = idempotency
    BY <1>4, <2>1 DEF VerifyInternal, WithPayment
  <2>3. "PAID" \in AnswerStatus
    BY DEF AnswerStatus
  <2> QED BY <1>1, <1>2, <2>2, <2>3
<1>5. CASE ConfirmSettledAgain(r)
  <2>1. c.txn \in DOMAIN payments' /\ payments'[c.txn].status = "PAID"
        /\ Reply(r, "PAID", c.txn)
        /\ idempotency' = [idempotency EXCEPT ![IdempotencyKey(c)] = answer'[r]]
    BY <1>5 DEF ConfirmSettledAgain, SettledAgain, CallbackFinds, PaymentFound, moneyVars
  <2>2. "PAID" \in AnswerStatus
    BY DEF AnswerStatus
  <2> QED BY <1>1, <1>2, <2>1, <2>2
<1>6. CASE ConfirmFailure(r)
  <2>1. c.txn \in DOMAIN payments' /\ payments'[c.txn].status = "EXTERNAL_FAILED"
        /\ Reply(r, "EXTERNAL_FAILED", c.txn)
        /\ idempotency' = [idempotency EXCEPT ![IdempotencyKey(c)] = answer'[r]]
    <3>1. c.txn \in DOMAIN payments
      BY <1>6 DEF ConfirmFailure, GatewayFailed, CallbackFinds, PaymentFound
    <3> QED BY <1>6, <3>1, PaymentTypes DEF ConfirmFailure, Payment
  <2>2. "EXTERNAL_FAILED" \in AnswerStatus
    BY DEF AnswerStatus
  <2> QED BY <1>1, <1>2, <2>1, <2>2
<1>7. CASE ConfirmSuccess(r)
  <2>1. c.txn \in DOMAIN payments' /\ payments'[c.txn].status = "PAID"
        /\ Reply(r, "PAID", c.txn) /\ idempotency' = idempotency
    <3>1. c.txn \in DOMAIN payments
      BY <1>7 DEF ConfirmSuccess, GatewayPaid, CallbackFinds, PaymentFound
    <3> QED BY <1>7, <3>1, PaymentTypes DEF ConfirmSuccess, Payment
  <2>2. "PAID" \in AnswerStatus
    BY DEF AnswerStatus
  <2> QED BY <1>1, <1>2, <2>1, <2>2
<1>8. CASE RefundPayment(r)
  <2>1. Reply(r, "REFUNDED", nextTxn)
        /\ idempotency' = [idempotency EXCEPT ![IdempotencyKey(c)] = answer'[r]]
    BY <1>8 DEF RefundPayment
  <2>2. \E e \in ledger' : e.txnId = nextTxn /\ e.type = "REFUND"
    <3>1. \E x, y : ledger' = ledger \cup {RefundRow(nextTxn, c, payments[c.txn], x, y)}
      BY <1>8, RefundStepIs DEF RefundStep
    <3> QED BY <3>1 DEF RefundRow, Row
  <2>3. "REFUNDED" \in AnswerStatus
    BY DEF AnswerStatus
  <2> QED BY <1>1, <1>2, <2>1, <2>2, <2>3
<1> QED BY <1>3, <1>4, <1>5, <1>6, <1>7, <1>8

LEMMA StepKeepsAnswersHold ==
  ASSUME DataTypes, LedgerPast, LocksHeld, AnswersHold, RecordsHold, [Next]_vars
  PROVE  AnswersHold' /\ RecordsHold'
<1>1. /\ \A s \in Requests : answer[s] \in Answer
      /\ \A k \in IdempotencyKeys : idempotency[k] \in Answer
  BY DEF DataTypes
<1>2. \A a \in Answer : AnswerHolds(a) => AnswerHolds(a)'
  BY AnswersStay
<1>3. ASSUME UNCHANGED <<answer, idempotency>> PROVE AnswersHold' /\ RecordsHold'
  BY <1>1, <1>2, <1>3 DEF AnswersHold, RecordsHold, AnswerHolds
<1>4. ASSUME NEW r \in Requests, NEW a \in Answer, answer' = [answer EXCEPT ![r] = a],
             AnswerHolds(a)',
             \/ idempotency' = idempotency
             \/ idempotency' = [idempotency EXCEPT ![IdempotencyKey(call[r])] = answer'[r]]
      PROVE  AnswersHold' /\ RecordsHold'
  <2>1. \A s \in Requests : answer'[s] = a \/ answer'[s] = answer[s]
    BY <1>4 DEF DataTypes
  <2>2. \A k \in IdempotencyKeys : idempotency'[k] = a \/ idempotency'[k] = idempotency[k]
    BY <1>4 DEF DataTypes
  <2> QED BY <1>1, <1>2, <1>4, <2>1, <2>2 DEF AnswersHold, RecordsHold, AnswerHolds
<1>5. ASSUME NEW r \in Requests,
             \/ VerifyPending(r) \/ VerifyInternal(r) \/ ConfirmSettledAgain(r)
             \/ ConfirmFailure(r) \/ ConfirmSuccess(r) \/ RefundPayment(r)
      PROVE  AnswersHold' /\ RecordsHold'
  <2>1. PICK a \in Answer : answer' = [answer EXCEPT ![r] = a]
    BY <1>5, RepliesHold
  <2>2. answer'[r] = a
    BY <2>1 DEF DataTypes
  <2>3. AnswerHolds(a)'
    BY <1>5, <2>2, RepliesHold DEF AnswerHolds
  <2> QED BY <1>4, <1>5, <2>1, <2>3, RepliesHold
<1>6. ASSUME NEW r \in Requests, Replay(r) \/ Reject(r) PROVE AnswersHold' /\ RecordsHold'
  <2>1. IdempotencyKey(call[r]) \in IdempotencyKeys /\ idempotency' = idempotency
    BY <1>6, CallTypes DEF LocksHeld, Replay, Reject, Runs
  <2>2. CASE Replay(r)
    BY <1>1, <1>2, <1>4, <2>1, <2>2 DEF Replay, Cached, RecordsHold
  <2>3. CASE Reject(r)
    <3>1. ErrorAnswer \in Answer /\ AnswerHolds(ErrorAnswer)'
      BY DEF ErrorAnswer, Answer, AnswerStatus, AnswerHolds
    <3> QED BY <1>4, <2>1, <2>3, <3>1 DEF Reject
  <2> QED BY <1>6, <2>2, <2>3
<1>7. ASSUME NEW r \in Requests, Finish(r) PROVE AnswersHold' /\ RecordsHold'
  <2>1. answer' = [answer EXCEPT ![r] = answer[r]] /\ answer'[r] = answer[r]
    BY <1>7 DEF Finish, DataTypes
  <2>2. idempotency' = [idempotency EXCEPT ![IdempotencyKey(call[r])] = answer'[r]]
    BY <1>7, <2>1 DEF Finish
  <2>3. AnswerHolds(answer[r]) /\ answer[r] \in Answer
    BY <1>1 DEF AnswersHold
  <2>4. \E a \in Answer : answer' = [answer EXCEPT ![r] = a] /\ AnswerHolds(a)'
    BY <1>2, <2>1, <2>3
  <2> QED BY <1>4, <2>2, <2>4
<1>8. ASSUME NEW r \in Requests, Arrive(r) \/ EnterService(r) \/ RevenueDecision(r)
      PROVE  AnswersHold' /\ RecordsHold'
  BY <1>3, <1>8 DEF Arrive, EnterService, RevenueDecision
<1>9. ASSUME (\E m \in Merchants : SetWalletShared(m)) \/ Tick \/ Answered \/ UNCHANGED vars
      PROVE  AnswersHold' /\ RecordsHold'
  BY <1>3, <1>9 DEF SetWalletShared, Tick, Answered, vars, requestVars
<1> QED BY <1>5, <1>6, <1>7, <1>8, <1>9 DEF Next, Serve

-----------------------------------------------------------------------------
(***************************************************************************)
(* Idempotency.  A verify or refund request that is being decided has not  *)
(* recorded its answer yet, and no other one with its key can have: they   *)
(* would have to hold the tenant lock.                                     *)
(***************************************************************************)
Waits == {"idle", "tenantLock", "keyLock"}
Decides == {"deciding", "decided"}

KeysAnswered ==
  \A r \in Requests :
    /\ phase[r] \in Waits => answer[r] = NoAnswer
    /\ phase[r] \in Decides => answer[r].status = "PAID"
    /\ phase[r] \in Decides /\ TakesTenantLock(call[r]) =>
         idempotency[IdempotencyKey(call[r])] = NoAnswer
    /\ phase[r] = "done" /\ TakesTenantLock(call[r]) /\ answer[r] # ErrorAnswer =>
         /\ answer[r] # NoAnswer
         /\ idempotency[IdempotencyKey(call[r])] = answer[r]

LEMMA SameKey ==
  ASSUME NEW c \in Calls, NEW d \in Calls, IdempotencyKey(c) = IdempotencyKey(d)
  PROVE  (TakesTenantLock(c) <=> TakesTenantLock(d)) /\ c.merchantId = d.merchantId
  BY DEF IdempotencyKey, TakesTenantLock

LEMMA TenantAlone ==
  ASSUME LocksHeld, NEW r \in Requests, NEW s \in Requests,
         phase[r] \in Active, phase[s] \in Active,
         TakesTenantLock(call[r]), TakesTenantLock(call[s]),
         call[r].merchantId = call[s].merchantId
  PROVE  r = s
  BY DEF LocksHeld

\* A handler that records its answer, at once or after its decision.
LEMMA RecordKeepsKeys ==
  ASSUME QueueTypes, DataTypes, LocksHeld, KeysAnswered, NEW r \in Requests,
         phase[r] \in Active, UNCHANGED call, Release(r),
         TakesTenantLock(call[r]) => Cached(call[r]) = NoAnswer,
         NEW a \in Answer, a.status \notin {"NONE", "ERROR"},
         answer' = [answer EXCEPT ![r] = a],
         idempotency' = [idempotency EXCEPT ![IdempotencyKey(call[r])] = a]
  PROVE  KeysAnswered'
<1> DEFINE k == IdempotencyKey(call[r])
<1>1. call[r] \in Calls /\ k \in IdempotencyKeys
  BY CallTypes DEF LocksHeld, Active
<1>2. /\ answer'[r] = a /\ a # NoAnswer /\ idempotency'[k] = a
      /\ \A s \in Requests \ {r} : answer'[s] = answer[s]
      /\ \A j \in IdempotencyKeys \ {k} : idempotency'[j] = idempotency[j]
  BY <1>1 DEF DataTypes, NoAnswer
<1>3. /\ phase'[r] = "done" /\ \A s \in Requests \ {r} : phase'[s] = phase[s]
      /\ call' = call
  BY DEF Release, QueueTypes
<1>4. ASSUME NEW s \in Requests, s # r, phase[s] \notin Waits, TakesTenantLock(call[s]),
             IdempotencyKey(call[s]) = k,
             phase[s] = "done" => answer[s] # ErrorAnswer,
             phase[s] \in Decides \cup {"done"}
      PROVE  FALSE
  <2>1. call[s] \in Calls
    BY <1>4 DEF LocksHeld, Waits
  <2>2. TakesTenantLock(call[r]) /\ call[r].merchantId = call[s].merchantId
    BY <1>1, <1>4, <2>1, SameKey
  <2>3. CASE phase[s] = "done"
    BY <1>4, <2>2, <2>3 DEF KeysAnswered, Cached
  <2>4. CASE phase[s] \in Decides
    BY <1>4, <2>2, <2>4, TenantAlone DEF Decides, Active
  <2> QED BY <1>4, <2>3, <2>4
<1>5. ASSUME NEW s \in Requests, s # r, phase[s] \in Decides \cup {"done"},
             TakesTenantLock(call[s]), phase[s] = "done" => answer[s] # ErrorAnswer
      PROVE  idempotency'[IdempotencyKey(call[s])] = idempotency[IdempotencyKey(call[s])]
  <2>1. IdempotencyKey(call[s]) \in IdempotencyKeys
    BY <1>5, CallTypes DEF LocksHeld, Decides
  <2> QED BY <1>2, <1>4, <1>5, <2>1 DEF Decides, Waits
<1> HIDE DEF k
<1>6. ASSUME NEW s \in Requests, s # r
      PROVE  /\ phase'[s] \in Waits => answer'[s] = NoAnswer
             /\ phase'[s] \in Decides => answer'[s].status = "PAID"
             /\ phase'[s] \in Decides /\ TakesTenantLock(call'[s]) =>
                  idempotency'[IdempotencyKey(call'[s])] = NoAnswer
             /\ phase'[s] = "done" /\ TakesTenantLock(call'[s]) /\ answer'[s] # ErrorAnswer =>
                  /\ answer'[s] # NoAnswer
                  /\ idempotency'[IdempotencyKey(call'[s])] = answer'[s]
  BY <1>2, <1>3, <1>5, <1>6 DEF KeysAnswered, Decides
<1> QED BY <1>2, <1>3, <1>6 DEF KeysAnswered, Waits, Decides, k

\* A step that records nothing: request r alone moves or gets an answer.
LEMMA MoveKeepsKeys ==
  ASSUME QueueTypes, DataTypes, KeysAnswered, NEW r \in Requests,
         UNCHANGED idempotency,
         \A s \in Requests \ {r} : /\ phase'[s] = phase[s] /\ call'[s] = call[s]
                                  /\ answer'[s] = answer[s],
         phase'[r] \in Waits => answer'[r] = NoAnswer,
         phase'[r] \in Decides =>
           /\ answer'[r].status = "PAID"
           /\ TakesTenantLock(call'[r]) => idempotency[IdempotencyKey(call'[r])] = NoAnswer,
         phase'[r] = "done" /\ answer'[r] # ErrorAnswer =>
           answer'[r] # NoAnswer /\ idempotency[IdempotencyKey(call'[r])] = answer'[r]
  PROVE  KeysAnswered'
  BY DEF KeysAnswered

LEMMA StepKeepsKeysAnswered ==
  ASSUME QueueTypes, DataTypes, LocksHeld, KeysAnswered, [Next]_vars
  PROVE  KeysAnswered'
<1>1. ASSUME NEW r \in Requests,
             \/ VerifyPending(r) \/ ConfirmSettledAgain(r) \/ ConfirmFailure(r)
             \/ RefundPayment(r)
      PROVE  KeysAnswered'
  <2>1. PICK status \in {"PENDING_EXTERNAL", "PAID", "EXTERNAL_FAILED", "REFUNDED"}, t \in Nat :
             Reply(r, status, t)
    BY <1>1, CallTypes DEF VerifyPending, ConfirmSettledAgain, ConfirmFailure, RefundPayment,
                           LocksHeld, Runs, DataTypes
  <2> DEFINE a == [status |-> status, txn |-> t]
  <2>2. a \in Answer /\ a.status \notin {"NONE", "ERROR"}
        /\ answer' = [answer EXCEPT ![r] = a] /\ answer'[r] = a
    BY <2>1 DEF Answer, AnswerStatus, Reply, DataTypes
  <2>3. /\ phase[r] \in Active /\ UNCHANGED call /\ Release(r)
        /\ Cached(call[r]) = NoAnswer
        /\ idempotency' = [idempotency EXCEPT ![IdempotencyKey(call[r])] = answer'[r]]
    BY <1>1 DEF VerifyPending, ConfirmSettledAgain, ConfirmFailure, RefundPayment, Runs, Active,
                VerifyAccepted, SettledAgain, GatewayFailed, CallbackFinds, RefundAccepted, Fresh
  <2> HIDE DEF a
  <2> QED BY <2>2, <2>3, RecordKeepsKeys
<1>2. ASSUME NEW r \in Requests, Finish(r) PROVE KeysAnswered'
  <2>1. /\ phase[r] \in Active /\ phase[r] \in Decides /\ UNCHANGED call /\ Release(r)
        /\ answer[r] \in Answer /\ answer' = [answer EXCEPT ![r] = answer[r]]
        /\ idempotency' = [idempotency EXCEPT ![IdempotencyKey(call[r])] = answer[r]]
    BY <1>2 DEF Finish, Active, Decides, DataTypes
  <2>2. answer[r].status \notin {"NONE", "ERROR"}
        /\ (TakesTenantLock(call[r]) => Cached(call[r]) = NoAnswer)
    BY <2>1 DEF KeysAnswered, Cached
  <2> QED BY <2>1, <2>2, RecordKeepsKeys
<1>3. ASSUME NEW r \in Requests, VerifyInternal(r) \/ ConfirmSuccess(r) PROVE KeysAnswered'
  <2>1. PICK t \in Nat : Reply(r, "PAID", t)
    BY <1>3, CallTypes DEF VerifyInternal, ConfirmSuccess, LocksHeld, Runs, DataTypes
  <2>2. /\ answer'[r].status = "PAID" /\ \A s \in Requests \ {r} : answer'[s] = answer[s]
    BY <2>1 DEF Reply, DataTypes
  <2>3. /\ phase' = [phase EXCEPT ![r] = "deciding"] /\ UNCHANGED <<call, idempotency>>
        /\ Cached(call[r]) = NoAnswer
    BY <1>3 DEF VerifyInternal, ConfirmSuccess, VerifyAccepted, GatewayPaid, CallbackFinds, Fresh
  <2>4. phase'[r] = "deciding" /\ \A s \in Requests \ {r} : phase'[s] = phase[s]
    BY <2>3 DEF QueueTypes
  <2> QED BY <2>2, <2>3, <2>4, MoveKeepsKeys DEF Waits, Cached
<1>4. ASSUME NEW r \in Requests, Replay(r) \/ Reject(r) PROVE KeysAnswered'
  <2>1. /\ phase'[r] = "done" /\ \A s \in Requests \ {r} : phase'[s] = phase[s]
        /\ UNCHANGED <<call, idempotency>>
    BY <1>4 DEF Replay, Reject, Release, QueueTypes
  <2>2. /\ \A s \in Requests \ {r} : answer'[s] = answer[s]
        /\ answer'[r] # ErrorAnswer =>
             answer'[r] # NoAnswer /\ idempotency[IdempotencyKey(call[r])] = answer'[r]
    BY <1>4 DEF Replay, Reject, Cached, DataTypes
  <2> QED BY <2>1, <2>2, MoveKeepsKeys DEF Waits, Decides
<1>5. ASSUME NEW r \in Requests, RevenueDecision(r) PROVE KeysAnswered'
  <2>1. /\ phase[r] \in Decides /\ UNCHANGED <<call, answer, idempotency>>
        /\ phase'[r] = "decided" /\ \A s \in Requests \ {r} : phase'[s] = phase[s]
    BY <1>5 DEF RevenueDecision, QueueTypes, Decides
  <2> QED BY <2>1, MoveKeepsKeys DEF KeysAnswered, Waits
<1>6. ASSUME NEW r \in Requests, Arrive(r) \/ EnterService(r) PROVE KeysAnswered'
  <2>1. /\ phase[r] \in Waits /\ UNCHANGED <<answer, idempotency>>
        /\ phase'[r] \in {"tenantLock", "keyLock"}
        /\ \A s \in Requests \ {r} : phase'[s] = phase[s] /\ call'[s] = call[s]
    BY <1>6 DEF Arrive, EnterService, QueueTypes, Waits
  <2> QED BY <2>1, MoveKeepsKeys DEF KeysAnswered, Waits, Decides
<1>7. ASSUME (\E m \in Merchants : SetWalletShared(m)) \/ Tick \/ Answered \/ UNCHANGED vars
      PROVE  KeysAnswered'
  BY <1>7 DEF SetWalletShared, Tick, Answered, vars, requestVars, KeysAnswered
<1> QED BY <1>1, <1>2, <1>3, <1>4, <1>5, <1>6, <1>7 DEF Next, Serve

-----------------------------------------------------------------------------
(***************************************************************************)
(* The inductive invariant and what follows from it.                       *)
(***************************************************************************)
IInv ==
  /\ QueueTypes /\ LocksHeld
  /\ DataTypes /\ LedgerPast
  /\ SettledOnce /\ RefundsWithinOrder
  /\ AnswersHold /\ RecordsHold
  /\ KeysAnswered

LEMMA InitIInv == Init => IInv
<1> SUFFICES ASSUME Init PROVE IInv
  OBVIOUS
<1> USE DEF Init
<1>1. NoAnswer \in Answer /\ NoAnswer.status = "NONE"
  BY DEF NoAnswer, Answer, AnswerStatus
<1>2. QueueTypes
  BY DEF QueueTypes, Phases
<1>3. LocksHeld
  BY DEF LocksHeld, Active
<1>4. DataTypes
  BY <1>1, PaymentAssumption DEF DataTypes
<1>5. LedgerPast /\ SettledOnce /\ RefundsWithinOrder
  BY DEF LedgerPast, SettledOnce, RefundsWithinOrder
<1>6. AnswersHold /\ RecordsHold
  BY <1>1 DEF AnswersHold, RecordsHold, AnswerHolds
<1>7. KeysAnswered
  BY DEF KeysAnswered, Decides
<1> QED BY <1>2, <1>3, <1>4, <1>5, <1>6, <1>7 DEF IInv

LEMMA NextIInv == IInv /\ [Next]_vars => IInv'
  BY NextKeepsLocks, NextKeepsTypes, StepKeepsSettledOnce, StepKeepsRefundsWithinOrder,
     StepKeepsAnswersHold, StepKeepsKeysAnswered
  DEF IInv

THEOREM Invariance == Spec => []IInv
  BY InitIInv, NextIInv, PTL DEF Spec

\* Wallets, budgets, payments and ledger rows keep their types in every run: no
\* bonus, silver, budget, refunded amount or id ever goes below zero.  (The principal
\* may, by the half cents of refunds: DebtIsRounding.)
THEOREM TypeCorrect == Spec => []TypeOK
<1>1. IInv => TypeOK
  BY DEF IInv, QueueTypes, DataTypes, TypeOK
<1> QED BY <1>1, Invariance, PTL

\* A payment is PAID exactly when one ledger row settles it (confirmExternalPayment
\* and verifyPayment), for any requests and callbacks.
THEOREM SettledOnceHolds == Spec => []SettledOnce
<1>1. IInv => SettledOnce
  BY DEF IInv
<1> QED BY <1>1, Invariance, PTL

\* refundPayment never returns more than the order rounded to whole cents, however the
\* order and the refunds are not rounded themselves, nor for an unpaid payment.
THEOREM RefundsWithinOrderHolds == Spec => []RefundsWithinOrder
<1>1. IInv => RefundsWithinOrder
  BY DEF IInv
<1> QED BY <1>1, Invariance, PTL

\* What a client was told of its payment or refund stays true.
THEOREM AnswersHoldHolds == Spec => []AnswersHold
<1>1. IInv => AnswersHold
  BY DEF IInv
<1> QED BY <1>1, Invariance, PTL

\* Verify and refund are idempotent per key: the tenant lock covers the await
\* between the settlement and the idempotency record.
THEOREM OneAnswerPerKeyHolds == Spec => []OneAnswerPerKey
<1>1. IInv => OneAnswerPerKey
  BY DEF IInv, KeysAnswered, OneAnswerPerKey
<1> QED BY <1>1, Invariance, PTL

\* The service implements the abstract payment book.
THEOREM ImplementsLifecycle == Spec => LifecycleSpec
<1>1. Init => Lifecycle!Init
  BY DEF Init, Lifecycle!Init, Book
<1>2. IInv /\ [Next]_vars => [Lifecycle!Next]_Book
  BY StepRefines DEF IInv
<1> QED BY <1>1, <1>2, Invariance, PTL DEF Spec, LifecycleSpec, Lifecycle!Spec

-----------------------------------------------------------------------------
(***************************************************************************)
(* Part 3: the ledger explains the wallets, refunds reclaim the bonus, a   *)
(* voucher pays once and the budget is the vouchers settled.               *)
(*                                                                         *)
(* Each of them compares a sum or a count over the ledger or the payments  *)
(* with a variable.  A step adds one row, one payment or one status, so it *)
(* adds one term to the sum and the same amount to the variable: that, and *)
(* that all other terms stay what they were, is what the proofs show.      *)
(***************************************************************************)
\* What the terms rest on: rows are about payments there are, a quote takes no
\* more bonus than the order and half a cent, a used voucher stays used.
RowsKnown ==
  /\ IsFiniteSet(ledger)
  /\ \A e \in ledger :
       e.type \in SettlementTypes \cup {"REFUND"} => e.paymentTxn \in DOMAIN payments

BonusCovered(p) == 2 * (Cent * p.quote.deduction.bonus) <= 2 * p.orderAmount + Cent

BonusWithinOrder == \A t \in DOMAIN payments : BonusCovered(payments[t])

UsedStaysUsed ==
  \A m \in Merchants, u \in Users, v \in VoucherIds :
    OpeningVouchers[m][u][v] = "USED" => voucherStatus[m][u][v] = "USED"

Terms == RowsKnown /\ BonusWithinOrder /\ UsedStaysUsed

\* What the half cents of its refunds may cost a user, and that no quote which was
\* computed for the user leaves the principal further below zero.
Debt(u) == Cardinality(HalfCentRefunds(u))

QuotesWithinDebt ==
  \A t \in DOMAIN payments :
    payments[t].quote.remainingWallet.principal + Debt(payments[t].userId) >= 0

MoneyInv == IInv /\ Terms /\ QuotesWithinDebt /\ MoneyAccounted /\ VouchersAccounted

-----------------------------------------------------------------------------
(***************************************************************************)
(* What no step changes of a payment and of a row.                         *)
(***************************************************************************)
SamePurchase(t) ==
  /\ payments'[t].userId = payments[t].userId
  /\ payments'[t].merchantId = payments[t].merchantId
  /\ payments'[t].quote = payments[t].quote
  /\ payments'[t].orderAmount = payments[t].orderAmount

LEMMA PurchasesStay ==
  ASSUME DataTypes, LedgerPast, LocksHeld, [Next]_vars
  PROVE  DOMAIN payments \subseteq DOMAIN payments' /\ \A t \in DOMAIN payments : SamePurchase(t)
<1>1. CASE KeepsPayments
  BY <1>1 DEF KeepsPayments, SamePurchase
<1>2. CASE OpensPayment
  <2>1. PICK p \in Payment : payments' = WithPayment(nextTxn, p)
    BY <1>2 DEF OpensPayment
  <2> QED BY <2>1, WithPaymentType DEF SamePurchase
<1>3. ASSUME NEW t \in DOMAIN payments, SettlesPayment(t) \/ FailsPayment(t) \/ RefundsPayment(t)
      PROVE  DOMAIN payments' = DOMAIN payments /\ \A s \in DOMAIN payments : SamePurchase(s)
  <2>1. \/ \E x : payments' = [payments EXCEPT ![t].status = x]
        \/ \E x : payments' = [payments EXCEPT ![t].refundedAmount = x]
    BY <1>3 DEF SettlesPayment, FailsPayment, RefundsPayment
  <2>2. payments[t] \in Payment
    BY PaymentTypes
  <2> QED BY <2>1, <2>2 DEF Payment, SamePurchase
<1> QED BY <1>1, <1>2, <1>3, StepShapes

LEMMA RowTypes2 ==
  ASSUME NEW e \in LedgerRow
  PROVE  /\ e.txnId \in Nat /\ e.type \in RowTypes /\ e.paymentTxn \in Nat
         /\ e.userId \in Users /\ e.merchantId \in Merchants
         /\ e.amount \in Nat /\ e.asked \in Nat /\ e.account \in WalletAccounts
         /\ e.clawback.reclaimTarget \in Nat /\ e.clawback.fromBonus \in Nat
         /\ e.clawback.fromPrincipal \in Nat
  BY DEF LedgerRow, RowTypes

\* An account of a deduction or of a wallet is a number.
LEMMA AccountTypes ==
  ASSUME NEW account \in WalletAccounts
  PROVE  /\ \A d \in Deduction : d[account] \in Int
         /\ \A w \in Wallet : w[account] \in Int
  BY DEF WalletAccounts, Deduction, Wallet

LEMMA EffectIs ==
  ASSUME NEW e, NEW account \in WalletAccounts
  PROVE  /\ e.type \in SettlementTypes =>
              Effect(e, account) = -payments[e.paymentTxn].quote.deduction[account]
         /\ e.type = "REFUND" =>
              Effect(e, account) = CASE account = "principal" -> e.amount - e.clawback.fromPrincipal
                                     [] account = "bonus" -> -e.clawback.fromBonus
                                     [] account = "silver" -> 0
         /\ e.type = "POLICYOS_GRANT" =>
              Effect(e, account) = IF account = e.account THEN e.amount ELSE 0
         /\ e.type = "PAYMENT_PENDING" => Effect(e, account) = 0
<1>1. account \in {"principal", "bonus", "silver"}
  BY DEF WalletAccounts
<1>2. e.type \in SettlementTypes <=> e.type = "PAYMENT" \/ e.type = "PAYMENT_EXTERNAL_CONFIRM"
  BY DEF SettlementTypes
<1>3. ASSUME e.type \in SettlementTypes
      PROVE  Effect(e, account) = -payments[e.paymentTxn].quote.deduction[account]
  BY <1>2, <1>3 DEF Effect
<1>4. ASSUME e.type = "REFUND"
      PROVE  Effect(e, account) = CASE account = "principal" -> e.amount - e.clawback.fromPrincipal
                                    [] account = "bonus" -> -e.clawback.fromBonus
                                    [] account = "silver" -> 0
  BY <1>1, <1>2, <1>4 DEF Effect
<1>5. ASSUME e.type = "POLICYOS_GRANT"
      PROVE  Effect(e, account) = IF account = e.account THEN e.amount ELSE 0
  BY <1>2, <1>5 DEF Effect
<1>6. ASSUME e.type = "PAYMENT_PENDING" PROVE Effect(e, account) = 0
  BY <1>2, <1>6 DEF Effect
<1> QED BY <1>3, <1>4, <1>5, <1>6

EffectsAreIntegers ==
  \A e \in ledger, account \in WalletAccounts : Effect(e, account) \in Int

LEMMA EffectType == DataTypes /\ RowsKnown => EffectsAreIntegers
<1> SUFFICES ASSUME DataTypes, RowsKnown, NEW e \in ledger, NEW account \in WalletAccounts
             PROVE  Effect(e, account) \in Int
  BY DEF EffectsAreIntegers
<1>1. e \in LedgerRow
  BY DEF DataTypes
<1>2. ASSUME e.type \in SettlementTypes PROVE Effect(e, account) \in Int
  <2>1. payments[e.paymentTxn].quote.deduction \in Deduction
    BY <1>2, PaymentTypes DEF RowsKnown
  <2>2. payments[e.paymentTxn].quote.deduction[account] \in Int
    BY <2>1, AccountTypes
  <2>3. Effect(e, account) = -payments[e.paymentTxn].quote.deduction[account]
    BY <1>2, EffectIs
  <2> QED BY <2>2, <2>3
<1>3. ASSUME e.type \notin SettlementTypes PROVE Effect(e, account) \in Int
  <2>1. e.amount \in Int /\ e.clawback.fromBonus \in Int /\ e.clawback.fromPrincipal \in Int
    BY <1>1, RowTypes2
  <2> QED BY <1>3, <2>1 DEF Effect
<1> QED BY <1>2, <1>3

\* What a row says it took or put does not change afterwards.
LEMMA EffectStays ==
  ASSUME DataTypes, LedgerPast, LocksHeld, RowsKnown, [Next]_vars,
         NEW e \in ledger, NEW account
  PROVE  Effect(e, account)' = Effect(e, account)
<1>1. CASE e.type \in SettlementTypes
  <2>1. SamePurchase(e.paymentTxn)
    BY <1>1, PurchasesStay DEF RowsKnown
  <2> QED BY <1>1, <2>1 DEF Effect, SamePurchase
<1>2. CASE e.type \notin SettlementTypes
  BY <1>2 DEF Effect
<1> QED BY <1>1, <1>2

-----------------------------------------------------------------------------
(***************************************************************************)
(* The books: one more row explains one more change of a wallet.           *)
(***************************************************************************)
GainsAreIntegers ==
  \A u \in Users, account \in WalletAccounts : IntegersOn(Gain(u, account), Merchants)

LEMMA GainTypes == DataTypes => GainsAreIntegers
<1> SUFFICES ASSUME DataTypes, NEW u \in Users, NEW account \in WalletAccounts
             PROVE  IntegersOn(Gain(u, account), Merchants)
  BY DEF GainsAreIntegers
<1>1. ASSUME NEW m \in Merchants PROVE Gain(u, account)[m] \in Int
  <2>1. wallet[m][u] \in Wallet /\ OpeningWallet[m][u] \in Wallet
    BY PaymentAssumption DEF DataTypes
  <2> QED BY <2>1, AccountTypes DEF Gain
<1> QED BY <1>1 DEF IntegersOn

LEMMA SameRowsExplain ==
  ASSUME DataTypes, RowsKnown, NEW u \in Users, Explained(u),
         RowsOf(u)' = RowsOf(u),
         \A e \in ledger, account \in WalletAccounts : Effect(e, account)' = Effect(e, account),
         \A m \in Merchants : wallet'[m][u] = wallet[m][u]
  PROVE  Explained(u)'
<1>1. ASSUME NEW account \in WalletAccounts
      PROVE  Gained(u, account)' = Gained(u, account) /\ Stated(u, account)' = Stated(u, account)
  <2>1. Gain(u, account)' = Gain(u, account)
    BY DEF Gain
  <2>2. Effects(u, account)' = Effects(u, account)
    BY DEF Effects, RowsOf
  <2> QED BY <2>1, <2>2 DEF Gained, Stated
<1>2. HalfCentRefunds(u)' = HalfCentRefunds(u)
  BY DEF HalfCentRefunds
<1> QED BY <1>1, <1>2 DEF Explained

\* By how much a row may differ from what happened: a cent if it is a refund that
\* ended in half a cent.
Off(e) == IF e.type = "REFUND" THEN Slip(e.asked) ELSE 0

\* The step changes u's wallet at m by what row e says, up to that.
Tracks(e, m, u) ==
  \A account \in WalletAccounts :
    /\ wallet'[m][u][account] - (wallet[m][u][account] + Effect(e, account)') <= Off(e)
    /\ (wallet[m][u][account] + Effect(e, account)') - wallet'[m][u][account] <= Off(e)

LEMMA ExactTracks ==
  ASSUME DataTypes', NEW e, NEW m \in Merchants, NEW u \in Users,
         \A account \in WalletAccounts :
           wallet'[m][u][account] = wallet[m][u][account] + Effect(e, account)'
  PROVE  Tracks(e, m, u)
<1>1. wallet'[m][u] \in Wallet
  BY DEF DataTypes
<1>2. Off(e) \in Nat
  BY DEF Off, Slip
<1>3. ASSUME NEW account \in WalletAccounts
      PROVE  /\ wallet'[m][u][account] - (wallet[m][u][account] + Effect(e, account)') <= Off(e)
             /\ (wallet[m][u][account] + Effect(e, account)') - wallet'[m][u][account] <= Off(e)
  <2>1. wallet'[m][u][account] \in Int
    BY <1>1, AccountTypes
  <2> DEFINE x == wallet'[m][u][account]
  <2> DEFINE y == wallet[m][u][account] + Effect(e, account)'
  <2>2. x = y
    OBVIOUS
  <2> HIDE DEF x, y
  <2>3. x - y <= Off(e) /\ y - x <= Off(e)
    BY <1>2, <2>1, <2>2 DEF x
  <2> QED BY <2>3 DEF x, y
<1> QED BY <1>3 DEF Tracks

\* One more row: one more half cent, or none.
LEMMA NewDebt ==
  ASSUME DataTypes, RowsKnown, NEW u \in Users,
         NEW e \in LedgerRow, e \notin ledger, ledger' = ledger \cup {e}
  PROVE  /\ Debt(u) \in Nat /\ Debt(u)' \in Nat
         /\ e.userId = u => Debt(u)' = Debt(u) + Off(e)
         /\ e.userId # u => Debt(u)' = Debt(u)
         /\ Debt(u)' >= Debt(u)
<1> DEFINE H == HalfCentRefunds(u)
<1>1. IsFiniteSet(H) /\ e \notin H
  BY FS_Subset DEF HalfCentRefunds, RowsOf, RowsKnown
<1>2. Debt(u) = Cardinality(H) /\ Debt(u)' = Cardinality(HalfCentRefunds(u)')
  BY DEF Debt
<1>3. CASE e.userId = u /\ e.type = "REFUND" /\ Halfway(e.asked)
  <2>1. HalfCentRefunds(u)' = H \cup {e}
    BY <1>3 DEF HalfCentRefunds, RowsOf
  <2>2. Off(e) = 1
    BY <1>3 DEF Off, Slip
  <2> HIDE DEF H
  <2>3. Cardinality(H) \in Nat /\ Cardinality(H \cup {e}) = Cardinality(H) + 1
    BY <1>1, FS_AddElement, FS_CardinalityType
  <2> QED BY <1>2, <1>3, <2>1, <2>2, <2>3
<1>4. CASE ~(e.userId = u /\ e.type = "REFUND" /\ Halfway(e.asked))
  <2>1. HalfCentRefunds(u)' = H
    BY <1>4 DEF HalfCentRefunds, RowsOf
  <2>2. e.userId = u => Off(e) = 0
    BY <1>4 DEF Off, Slip
  <2> HIDE DEF H
  <2>3. Cardinality(H) \in Nat
    BY <1>1, FS_CardinalityType
  <2> QED BY <1>2, <2>1, <2>2, <2>3
<1> QED BY <1>3, <1>4

LEMMA NewRowExplains ==
  ASSUME DataTypes, DataTypes', RowsKnown, RowsKnown', NEW u \in Users, Explained(u),
         NEW e \in LedgerRow, e \notin ledger, ledger' = ledger \cup {e}, e.userId = u,
         \A f \in ledger, account \in WalletAccounts : Effect(f, account)' = Effect(f, account),
         NEW m \in Merchants,
         \A n \in Merchants \ {m} : wallet'[n][u] = wallet[n][u],
         Tracks(e, m, u)
  PROVE  Explained(u)'
<1> DEFINE R == RowsOf(u)
<1>0. EffectsAreIntegers'
  BY EffectType, PTL
<1>1. RowsOf(u)' = R \cup {e} /\ e \notin R /\ IsFiniteSet(R)
  BY FS_Subset DEF RowsOf, RowsKnown
<1>2. Debt(u) \in Nat /\ Debt(u)' = Debt(u) + Off(e) /\ Off(e) \in Nat
  BY NewDebt DEF Off, Slip
<1>3. ASSUME NEW account \in WalletAccounts
      PROVE  /\ Gained(u, account)' - Stated(u, account)' <= Debt(u)'
             /\ Stated(u, account)' - Gained(u, account)' <= Debt(u)'
  <2> DEFINE gain == Gain(u, account)
             new == Gain(u, account)'
             effects == Effects(u, account)
             after == Effects(u, account)'
             d == Effect(e, account)'
  <2>1. IntegersOn(gain, Merchants) /\ IntegersOn(new, Merchants)
    <3>1. GainsAreIntegers /\ GainsAreIntegers'
      BY GainTypes, PTL
    <3> QED BY <3>1 DEF GainsAreIntegers
  <2>2. /\ d \in Int /\ new[m] \in Int /\ gain[m] \in Int
        /\ (new[m] - gain[m]) - d <= Off(e) /\ d - (new[m] - gain[m]) <= Off(e)
    <3>1. wallet[m][u] \in Wallet /\ wallet'[m][u] \in Wallet /\ OpeningWallet[m][u] \in Wallet
      BY PaymentAssumption DEF DataTypes
    <3>2. /\ wallet[m][u][account] \in Int /\ wallet'[m][u][account] \in Int
          /\ OpeningWallet[m][u][account] \in Int /\ d \in Int
      <4>1. d \in Int
        BY <1>0 DEF EffectsAreIntegers
      <4> QED BY <3>1, <4>1, AccountTypes
    <3>3. /\ gain[m] = wallet[m][u][account] - OpeningWallet[m][u][account]
          /\ new[m] = wallet'[m][u][account] - OpeningWallet[m][u][account]
      BY DEF Gain
    <3> HIDE DEF gain, new, d
    <3>4. /\ wallet'[m][u][account] - (wallet[m][u][account] + d) <= Off(e)
          /\ (wallet[m][u][account] + d) - wallet'[m][u][account] <= Off(e)
      BY DEF d, Tracks
    <3> QED BY <1>2, <3>2, <3>3, <3>4
  <2>3. \A n \in Merchants \ {m} : new[n] = gain[n]
    BY DEF Gain
  <2>4. SumFunctionOnSet(new, Merchants)
          = SumFunctionOnSet(gain, Merchants) + (new[m] - gain[m])
    <3> HIDE DEF gain, new, d
    <3> QED BY <2>1, <2>3, SumChangesAt, PaymentAssumption
  <2>5. IntegersOn(after, R \cup {e}) /\ after[e] = d /\ \A f \in R : after[f] = effects[f]
    <3>1. after[e] = d
      BY <1>1 DEF Effects
    <3>2. ASSUME NEW f \in R \cup {e} PROVE after[f] = Effect(f, account)'
      BY <1>1, <3>2 DEF Effects
    <3>3. ASSUME NEW f \in R PROVE after[f] = effects[f]
      BY <3>2, <3>3 DEF Effects, RowsOf
    <3>4. ASSUME NEW f \in R \cup {e} PROVE after[f] \in Int
      <4>1. f \in ledger'
        BY DEF RowsOf
      <4>2. Effect(f, account)' \in Int
        BY <1>0, <4>1 DEF EffectsAreIntegers
      <4> QED BY <3>2, <4>2
    <3> QED BY <3>1, <3>3, <3>4 DEF IntegersOn
  <2>6. SumFunctionOnSet(after, R \cup {e}) = SumFunctionOnSet(effects, R) + d
    <3>1. SumFunctionOnSet(after, R \cup {e}) = SumFunctionOnSet(after, R) + after[e]
      <4> HIDE DEF after, R
      <4> QED BY <1>1, <2>5, SumAdds
    <3>2. SumFunctionOnSet(after, R) = SumFunctionOnSet(effects, R)
      <4> HIDE DEF after, R, effects
      <4> QED BY <1>1, <2>5, SumCongruent
    <3> QED BY <2>5, <3>1, <3>2
  <2>7. SumFunctionOnSet(gain, Merchants) \in Int /\ SumFunctionOnSet(effects, R) \in Int
    <3>1. IntegersOn(effects, R)
      BY <2>5 DEF IntegersOn
    <3> HIDE DEF gain, effects, R
    <3> QED BY <1>1, <2>1, <3>1, SumType, PaymentAssumption
  <2>8. /\ SumFunctionOnSet(gain, Merchants) - SumFunctionOnSet(effects, R) <= Debt(u)
        /\ SumFunctionOnSet(effects, R) - SumFunctionOnSet(gain, Merchants) <= Debt(u)
    BY DEF Explained, Debt, Gained, Stated
  <2>9. /\ Gained(u, account)' = SumFunctionOnSet(new, Merchants)
        /\ Stated(u, account)' = SumFunctionOnSet(after, R \cup {e})
    BY <1>1 DEF Gained, Stated
  <2> HIDE DEF gain, new, effects, after, R, d
  <2> QED BY <1>2, <2>2, <2>4, <2>6, <2>7, <2>8, <2>9
<1> QED BY <1>3 DEF Explained, Debt

-----------------------------------------------------------------------------
(***************************************************************************)
(* The five ways a step moves money or records a promise of it.            *)
(***************************************************************************)
RowAdded(e, type, t, u) ==
  /\ ledger' = ledger \cup {e} /\ e \in LedgerRow /\ e.txnId >= nextTxn
  /\ e.type = type /\ e.paymentTxn = t /\ e.userId = u

PaymentSet(t, p) ==
  /\ p \in Payment
  /\ DOMAIN payments' = DOMAIN payments \cup {t}
  /\ payments'[t] = p
  /\ \A s \in DOMAIN payments \ {t} : payments'[s] = payments[s]

Opened(t, p) ==
  /\ t = nextTxn /\ t \notin DOMAIN payments
  /\ PaymentSet(t, p)
  /\ p.refundedAmount = 0
  /\ BonusCovered(p)
  /\ \/ p.quote.remainingWallet.principal >= 0
     \/ \E m \in Merchants :
          p.quote.remainingWallet.principal >= wallet[m][p.userId].principal

Closed(t, p) ==
  /\ t \in DOMAIN payments
  /\ PaymentSet(t, p)
  /\ payments[t].status = "PENDING_EXTERNAL"
  /\ p.refundedAmount = payments[t].refundedAmount

\* verifyPayment with something left to pay.
Pends ==
  \E p \in Payment, e \in LedgerRow :
    /\ Opened(nextTxn, p) /\ p.status = "PENDING_EXTERNAL"
    /\ RowAdded(e, "PAYMENT_PENDING", nextTxn, p.userId)
    /\ UNCHANGED <<wallet, voucherStatus, budgetUsed, outdated>>

\* verifyPayment with nothing left to pay, and a gateway's success.
Settles ==
  \E t \in Nat, p \in Payment, m \in Merchants, e \in LedgerRow, type \in SettlementTypes :
    /\ Opened(t, p) \/ Closed(t, p)
    /\ p.status = "PAID"
    /\ RowAdded(e, type, t, p.userId)
    /\ ApplyQuoteToUser(m, p.userId, p.quote)
    /\ SpendBudget(p.merchantId, p.quote)
    /\ \/ outdated' = outdated \cup {t}
       \/ outdated' = outdated /\ QuoteHolds(m, p.userId, p.quote)

Fails ==
  \E t \in Nat, p \in Payment :
    /\ Closed(t, p) /\ p.status = "EXTERNAL_FAILED"
    /\ UNCHANGED <<wallet, voucherStatus, budgetUsed, ledger, outdated>>

\* What the refund of row e leaves of wallet w.
Leaves(w, e, next) ==
  LET bonus == w.bonus - e.clawback.fromBonus
      principal == w.principal + (e.amount - e.clawback.fromPrincipal)
  IN  /\ next \in Wallet
      /\ next.silver = w.silver
      /\ next.bonus - bonus <= Off(e) /\ bonus - next.bonus <= Off(e)
      /\ next.principal - principal <= Off(e) /\ principal - next.principal <= Off(e)
      /\ next.principal + Off(e) >= w.principal

RefundsBy(t, p, m, e, consumed, next) ==
  LET refunded == p.refundedAmount - payments[t].refundedAmount
  IN  /\ t \in DOMAIN payments /\ PaymentSet(t, p)
      /\ payments[t].status = "PAID" /\ p.status = "PAID"
      /\ refunded - e.amount <= Off(e) /\ e.amount - refunded <= Off(e)
      /\ RowAdded(e, "REFUND", t, p.userId)
      /\ consumed \in BonusConsumed(p.quote.deduction.bonus, e.asked, p.orderAmount)
      /\ e.clawback.reclaimTarget \in Cents(ReclaimTarget(e.asked, consumed))
      /\ Leaves(wallet[m][p.userId], e, next)
      /\ wallet' = [wallet EXCEPT ![m][p.userId] = next]
      /\ UNCHANGED <<voucherStatus, budgetUsed, outdated>>

RefundsMoney ==
  \E t \in Nat, p \in Payment, m \in Merchants, e \in LedgerRow : \E consumed, next :
    RefundsBy(t, p, m, e, consumed, next)

GrantsMoney ==
  \E m \in Merchants, u \in Users, e \in LedgerRow :
    /\ RowAdded(e, "POLICYOS_GRANT", 0, u)
    /\ wallet' = [wallet EXCEPT ![m][u][e.account] = @ + e.amount]
    /\ UNCHANGED <<voucherStatus, budgetUsed, payments, outdated>>

KeepsMoney == UNCHANGED <<wallet, voucherStatus, budgetUsed, payments, ledger, outdated>>

-----------------------------------------------------------------------------
\* A quote is one its wallet can pay, with a voucher that is active.
LEMMA FreshQuoteHolds ==
  ASSUME DataTypes, NEW m \in Merchants, NEW u \in Users, NEW amount \in Nat,
         NEW quote \in GetQuote(m, u, amount)
  PROVE  /\ quote \in QuoteRecord
         /\ QuoteHolds(WalletMerchant(m), u, quote)
         /\ 2 * (Cent * quote.deduction.bonus) <= 2 * amount + Cent
         /\ \/ quote.remainingWallet.principal >= 0
            \/ quote.remainingWallet.principal >= wallet[WalletMerchant(m)][u].principal
<1> DEFINE n == WalletMerchant(m)
           w == wallet[n][u]
           status == voucherStatus[n][u]
<1>1. w \in Wallet /\ status \in [VoucherIds -> VoucherStatus] /\ now \in Nat
  BY WalletMerchantType DEF DataTypes
<1>2. quote \in BuildCheckoutQuotes(amount, w, status, now)
  BY DEF GetQuote, ScopedWallet
<1> HIDE DEF w, status, n
<1>3. /\ quote \in QuoteRecord
      /\ quote.voucher = SelectedVoucher(amount, status, now)
      /\ quote.remainingWallet = RemainingWallet(w, quote.deduction)
      /\ 2 * (Cent * quote.deduction.bonus) <= 2 * amount + Cent
      /\ \/ quote.remainingWallet.principal >= 0
         \/ quote.remainingWallet.principal >= w.principal
  BY <1>1, <1>2, QuoteWellFormed
<1>4. quote.voucher # NoVoucher => status[quote.voucher] = "ACTIVE"
  BY <1>3 DEF SelectedVoucher, ActiveVouchers
<1> QED BY <1>3, <1>4 DEF QuoteHolds, w, status, n

LEMMA VerifyPendingMoney ==
  ASSUME DataTypes, LocksHeld, NEW r \in Requests, VerifyPending(r)
  PROVE  Pends
<1> DEFINE c == call[r]
           t == nextTxn
<1>0. PICK quote \in GetQuote(c.merchantId, c.userId, c.amount), amount \in Cents(c.amount) :
        /\ payments' = WithPayment(t,
             [merchantId |-> c.merchantId, userId |-> c.userId,
              status |-> "PENDING_EXTERNAL", orderAmount |-> c.amount,
              quote |-> quote, refundedAmount |-> 0])
        /\ ledger' = ledger \cup
             {Row(t + 1, "PAYMENT_PENDING", c.merchantId, c.userId, t, amount)}
  BY DEF VerifyPending
<1> DEFINE e == Row(t + 1, "PAYMENT_PENDING", c.merchantId, c.userId, t, amount)
           p == [merchantId |-> c.merchantId, userId |-> c.userId,
                 status |-> "PENDING_EXTERNAL", orderAmount |-> c.amount,
                 quote |-> quote, refundedAmount |-> 0]
<1>1. /\ c.merchantId \in Merchants /\ c.userId \in Users /\ c.amount \in Nat \ {0}
      /\ t \in Nat \ {0}
  BY CallTypes DEF LocksHeld, VerifyPending, Runs, VerifyAccepted, DataTypes
<1>2. /\ payments' = WithPayment(t, p)
      /\ ledger' = ledger \cup {e}
      /\ UNCHANGED <<wallet, voucherStatus, budgetUsed, outdated>>
  BY <1>0 DEF VerifyPending
<1>3. /\ quote \in QuoteRecord /\ amount \in Nat
      /\ 2 * (Cent * quote.deduction.bonus) <= 2 * c.amount + Cent
      /\ \/ quote.remainingWallet.principal >= 0
         \/ \E m \in Merchants :
              quote.remainingWallet.principal >= wallet[m][c.userId].principal
  <2> HIDE DEF c
  <2>1. WalletMerchant(c.merchantId) \in Merchants
    BY <1>1, WalletMerchantType
  <2> QED BY <1>1, <2>1, FreshQuoteHolds, CentsType
<1>4. /\ p \in Payment /\ p.status = "PENDING_EXTERNAL" /\ p.userId = c.userId
      /\ p.refundedAmount = 0 /\ BonusCovered(p) /\ p.quote = quote
  <2> HIDE DEF c
  <2> QED BY <1>1, <1>3 DEF Payment, PaymentStatus, BonusCovered
<1>5. /\ e \in LedgerRow /\ e.txnId = t + 1 /\ e.type = "PAYMENT_PENDING"
      /\ e.paymentTxn = t /\ e.userId = c.userId
  <2>1. t + 1 \in Nat /\ amount \in Nat /\ "PAYMENT_PENDING" \in RowTypes
    BY <1>1, <1>3 DEF RowTypes
  <2>2. e.userId = c.userId
    BY DEF Row
  <2>3. e = Row(t + 1, "PAYMENT_PENDING", c.merchantId, c.userId, t, amount)
    OBVIOUS
  <2> HIDE DEF c, t, e, p
  <2>4. e \in LedgerRow /\ e.txnId = t + 1 /\ e.type = "PAYMENT_PENDING" /\ e.paymentTxn = t
    BY <1>1, <2>1, <2>3, RowType
  <2> QED BY <2>2, <2>4
<1> HIDE DEF c, e, p
<1>6. Opened(t, p)
  BY <1>2, <1>3, <1>4, WithPaymentType DEF Opened, PaymentSet
<1>7. RowAdded(e, "PAYMENT_PENDING", t, p.userId)
  BY <1>1, <1>2, <1>4, <1>5 DEF RowAdded
<1> QED BY <1>2, <1>4, <1>5, <1>6, <1>7 DEF Pends

LEMMA VerifyInternalMoney ==
  ASSUME DataTypes, LocksHeld, NEW r \in Requests, VerifyInternal(r)
  PROVE  Settles
<1> DEFINE c == call[r]
           t == nextTxn
           m == WalletMerchant(c.merchantId)
<1>0. PICK quote \in GetQuote(c.merchantId, c.userId, c.amount), amount \in Cents(c.amount) :
        /\ ApplyQuoteToUser(m, c.userId, quote)
        /\ ledger' = ledger \cup
             {Row(t, "PAYMENT", c.merchantId, c.userId, t, amount)}
        /\ payments' = WithPayment(t,
             [merchantId |-> c.merchantId, userId |-> c.userId,
              status |-> "PAID", orderAmount |-> c.amount,
              quote |-> quote, refundedAmount |-> 0])
        /\ SpendBudget(c.merchantId, quote)
  BY DEF VerifyInternal
<1> DEFINE e == Row(t, "PAYMENT", c.merchantId, c.userId, t, amount)
           p == [merchantId |-> c.merchantId, userId |-> c.userId,
                 status |-> "PAID", orderAmount |-> c.amount,
                 quote |-> quote, refundedAmount |-> 0]
<1>1. /\ c.merchantId \in Merchants /\ c.userId \in Users /\ c.amount \in Nat \ {0}
      /\ t \in Nat \ {0}
  BY CallTypes DEF LocksHeld, VerifyInternal, Runs, VerifyAccepted, DataTypes
<1>2. /\ payments' = WithPayment(t, p)
      /\ ledger' = ledger \cup {e}
      /\ ApplyQuoteToUser(m, c.userId, quote)
      /\ SpendBudget(c.merchantId, quote)
      /\ outdated' = outdated
  BY <1>0 DEF VerifyInternal
<1>3. /\ quote \in QuoteRecord /\ amount \in Nat
      /\ 2 * (Cent * quote.deduction.bonus) <= 2 * c.amount + Cent
      /\ QuoteHolds(m, c.userId, quote) /\ m \in Merchants
      /\ \/ quote.remainingWallet.principal >= 0
         \/ \E n \in Merchants :
              quote.remainingWallet.principal >= wallet[n][c.userId].principal
  <2>1. quote \in GetQuote(c.merchantId, c.userId, c.amount) /\ m = WalletMerchant(c.merchantId)
    OBVIOUS
  <2> HIDE DEF c, m
  <2>2. m \in Merchants
    BY <1>1, <2>1, WalletMerchantType
  <2> QED BY <1>1, <2>1, <2>2, FreshQuoteHolds, CentsType
<1>4. /\ p \in Payment /\ p.status = "PAID" /\ p.userId = c.userId /\ p.quote = quote
      /\ p.merchantId = c.merchantId
      /\ p.refundedAmount = 0 /\ BonusCovered(p)
  <2> HIDE DEF c, m
  <2> QED BY <1>1, <1>3 DEF Payment, PaymentStatus, BonusCovered
<1>5. /\ e \in LedgerRow /\ e.txnId = t /\ e.type = "PAYMENT"
      /\ e.paymentTxn = t /\ e.userId = c.userId
  <2>1. t \in Nat /\ amount \in Nat /\ "PAYMENT" \in RowTypes
    BY <1>1, <1>3 DEF RowTypes, SettlementTypes
  <2>2. e.userId = c.userId
    BY DEF Row
  <2>3. e = Row(t, "PAYMENT", c.merchantId, c.userId, t, amount)
    OBVIOUS
  <2> HIDE DEF c, t, e
  <2> QED BY <1>1, <2>1, <2>2, <2>3, RowType
<1> HIDE DEF c, e, p, m
<1>6. Opened(t, p)
  BY <1>2, <1>3, <1>4, WithPaymentType DEF Opened, PaymentSet
<1>7. RowAdded(e, "PAYMENT", t, p.userId)
  BY <1>1, <1>2, <1>4, <1>5 DEF RowAdded
<1>8. ApplyQuoteToUser(m, p.userId, p.quote) /\ SpendBudget(p.merchantId, p.quote)
      /\ QuoteHolds(m, p.userId, p.quote)
  BY <1>2, <1>3, <1>4
<1>9. "PAYMENT" \in SettlementTypes
  BY DEF SettlementTypes
<1> QED BY <1>1, <1>2, <1>3, <1>4, <1>5, <1>6, <1>7, <1>8, <1>9 DEF Settles

LEMMA ConfirmSuccessMoney ==
  ASSUME DataTypes, LocksHeld, NEW r \in Requests, ConfirmSuccess(r)
  PROVE  Settles
<1> DEFINE c == call[r]
           t == c.txn
           old == payments[t]
           p == [old EXCEPT !.status = "PAID"]
           m == WalletMerchant(c.merchantId)
<1>0. PICK paid \in Cents(c.amount) :
        /\ GatewayPaid(c, paid)
        /\ ledger' = ledger \cup
             {Row(nextTxn, "PAYMENT_EXTERNAL_CONFIRM", c.merchantId, old.userId, t, paid)}
  BY DEF ConfirmSuccess
<1> DEFINE e == Row(nextTxn, "PAYMENT_EXTERNAL_CONFIRM", c.merchantId, old.userId, t, paid)
<1>1. /\ c.merchantId \in Merchants /\ t \in DOMAIN payments /\ nextTxn \in Nat
      /\ old.status = "PENDING_EXTERNAL" /\ old.merchantId = c.merchantId
      /\ paid = old.quote.deduction.external
  BY <1>0, CallTypes DEF LocksHeld, ConfirmSuccess, Runs, GatewayPaid, CallbackFinds,
                         PaymentFound, DataTypes
<1>2. old \in Payment /\ t \in Nat /\ paid \in Nat /\ old.userId \in Users
      /\ m \in Merchants
  <2>1. old.quote.deduction \in Deduction
    BY <1>1, PaymentTypes
  <2> QED BY <1>1, <2>1, PaymentTypes, WalletMerchantType DEF Deduction
<1>3. /\ payments' = [payments EXCEPT ![t].status = "PAID"]
      /\ ledger' = ledger \cup {e}
      /\ ApplyQuoteToUser(m, old.userId, old.quote)
      /\ SpendBudget(c.merchantId, old.quote)
      /\ outdated' = IF QuoteHolds(m, old.userId, old.quote) THEN outdated
                     ELSE outdated \cup {t}
  BY <1>0 DEF ConfirmSuccess
<1>4. /\ p \in Payment /\ p.status = "PAID" /\ p.userId = old.userId /\ p.quote = old.quote
      /\ p.merchantId = old.merchantId /\ p.refundedAmount = old.refundedAmount
  <2> HIDE DEF old
  <2> QED BY <1>2 DEF Payment, PaymentStatus
<1>5. PaymentSet(t, p)
  <2>1. DOMAIN payments' = DOMAIN payments \cup {t} /\ payments'[t] = p
        /\ \A s \in DOMAIN payments \ {t} : payments'[s] = payments[s]
    <3>1. t \in DOMAIN payments /\ payments' = [payments EXCEPT ![t] = p]
      BY <1>1, <1>3
    <3> HIDE DEF p, t
    <3> QED BY <3>1
  <2> QED BY <1>4, <2>1 DEF PaymentSet
<1>6. /\ e \in LedgerRow /\ e.txnId = nextTxn /\ e.type = "PAYMENT_EXTERNAL_CONFIRM"
      /\ e.paymentTxn = t /\ e.userId = old.userId
  <2>1. "PAYMENT_EXTERNAL_CONFIRM" \in RowTypes
    BY DEF RowTypes, SettlementTypes
  <2>2. e.userId = old.userId
    BY DEF Row
  <2>3. e = Row(nextTxn, "PAYMENT_EXTERNAL_CONFIRM", c.merchantId, old.userId, t, paid)
    OBVIOUS
  <2> HIDE DEF c, t, e, old
  <2> QED BY <1>1, <1>2, <2>1, <2>2, <2>3, RowType
<1> HIDE DEF p, e, m
<1>7. Closed(t, p)
  BY <1>1, <1>4, <1>5 DEF Closed
<1>8. RowAdded(e, "PAYMENT_EXTERNAL_CONFIRM", t, p.userId)
  <2> HIDE DEF t, old
  <2> QED BY <1>1, <1>3, <1>4, <1>6 DEF RowAdded
<1>9. ApplyQuoteToUser(m, p.userId, p.quote) /\ SpendBudget(p.merchantId, p.quote)
  BY <1>1, <1>3, <1>4
<1>10. \/ outdated' = outdated \cup {t}
       \/ outdated' = outdated /\ QuoteHolds(m, p.userId, p.quote)
  BY <1>3, <1>4
<1>11. "PAYMENT_EXTERNAL_CONFIRM" \in SettlementTypes
  BY DEF SettlementTypes
<1> HIDE DEF c, t, old
<1> QED BY <1>2, <1>4, <1>6, <1>7, <1>8, <1>9, <1>10, <1>11 DEF Settles

LEMMA ConfirmFailureMoney ==
  ASSUME DataTypes, LocksHeld, NEW r \in Requests, ConfirmFailure(r)
  PROVE  Fails
<1> DEFINE t == call[r].txn
           old == payments[t]
           p == [old EXCEPT !.status = "EXTERNAL_FAILED"]
<1>1. /\ t \in DOMAIN payments /\ old.status = "PENDING_EXTERNAL"
      /\ payments' = [payments EXCEPT ![t] = p]
      /\ UNCHANGED <<wallet, voucherStatus, budgetUsed, ledger, outdated>>
  BY DEF ConfirmFailure, GatewayFailed, CallbackFinds, PaymentFound
<1>2. old \in Payment /\ t \in Nat
  BY <1>1, PaymentTypes
<1>3. p \in Payment /\ p.status = "EXTERNAL_FAILED" /\ p.refundedAmount = old.refundedAmount
  <2> HIDE DEF old
  <2> QED BY <1>2 DEF Payment, PaymentStatus
<1>4. PaymentSet(t, p)
  <2> HIDE DEF p, t
  <2> QED BY <1>1, <1>3 DEF PaymentSet
<1> HIDE DEF p
<1>5. Closed(t, p)
  BY <1>1, <1>3, <1>4 DEF Closed
<1> HIDE DEF t, old
<1> QED BY <1>1, <1>2, <1>3, <1>5 DEF Fails

LEMMA RefundPaymentMoney ==
  ASSUME DataTypes, LocksHeld, NEW r \in Requests, RefundPayment(r)
  PROVE  RefundsMoney
<1> DEFINE c == call[r]
           t == c.txn
           old == payments[t]
           m == WalletMerchant(c.merchantId)
           w == wallet[m][old.userId]
<1>1. /\ c \in Calls /\ c.merchantId \in Merchants /\ t \in DOMAIN payments
      /\ nextTxn \in Nat /\ old.status = "PAID" /\ c.amount \in Nat
  BY CallTypes DEF LocksHeld, RefundPayment, Runs, RefundAccepted, PaymentFound, DataTypes
<1>2. /\ old \in Payment /\ t \in Nat /\ m \in Merchants /\ old.refundedAmount \in Nat
      /\ old.userId \in Users /\ old.orderAmount \in Nat \ {0} /\ old.quote.deduction.bonus \in Nat
      /\ w \in Wallet
  BY <1>1, PaymentTypes, WalletMerchantType DEF DataTypes
<1>3. PICK available, consumed, clawback, amount, next, refunded :
        RefundStep(c, old, m, available, consumed, clawback, amount, next, refunded)
  BY RefundStepIs
<1> DEFINE e == RefundRow(nextTxn, c, old, clawback, amount)
           p == [old EXCEPT !.refundedAmount = refunded]
<1>4. /\ available \in Cents(old.orderAmount - Cent * old.refundedAmount)
      /\ c.amount <= Cent * available
      /\ consumed \in BonusConsumed(old.quote.deduction.bonus, c.amount, old.orderAmount)
      /\ clawback \in Clawbacks(w, c.amount, consumed)
      /\ amount \in Cents(c.amount)
      /\ next \in NextWallets(w, c.amount, consumed, clawback)
      /\ refunded \in Cents(Cent * old.refundedAmount + c.amount)
      /\ wallet' = [wallet EXCEPT ![m][old.userId] = next]
      /\ ledger' = ledger \cup {e}
      /\ payments' = [payments EXCEPT ![t] = p]
  BY <1>3 DEF RefundStep
<1>5. UNCHANGED <<voucherStatus, budgetUsed, outdated>>
  BY DEF RefundPayment
<1> HIDE DEF c, t, old, m, w, e, p
<1>6. consumed \in Nat
  BY <1>1, <1>2, <1>4, ConsumedType
<1> DEFINE off == Slip(c.amount)
<1>7. /\ next \in Wallet /\ amount \in Nat
      /\ clawback \in [reclaimTarget : Nat, fromBonus : Nat, fromPrincipal : Nat]
      /\ clawback.reclaimTarget \in Cents(ReclaimTarget(c.amount, consumed))
      /\ next.silver = w.silver
      /\ next.bonus - (w.bonus - clawback.fromBonus) <= off
      /\ (w.bonus - clawback.fromBonus) - next.bonus <= off
      /\ next.principal - (w.principal + (amount - clawback.fromPrincipal)) <= off
      /\ (w.principal + (amount - clawback.fromPrincipal)) - next.principal <= off
      /\ next.principal + off >= w.principal
  BY <1>1, <1>2, <1>4, <1>6, RefundKeepsRow
<1>8. /\ refunded \in Nat
      /\ refunded - old.refundedAmount - amount <= off
      /\ amount - (refunded - old.refundedAmount) <= off
  <2>1. old.orderAmount \in Nat
    BY <1>2
  <2> QED BY <1>1, <1>2, <1>4, <2>1, RefundedStaysWithin
<1>9. /\ e \in LedgerRow /\ e.txnId = nextTxn /\ e.type = "REFUND" /\ e.paymentTxn = t
      /\ e.userId = old.userId /\ e.amount = amount /\ e.asked = c.amount
      /\ e.clawback = clawback
  BY <1>1, <1>2, <1>7, RefundRowIs DEF e, t
<1>10. Off(e) = off
  BY <1>9 DEF Off
<1>11. /\ p \in Payment /\ p.status = "PAID" /\ p.userId = old.userId /\ p.quote = old.quote
       /\ p.orderAmount = old.orderAmount /\ p.refundedAmount = refunded
  BY <1>1, <1>2, <1>8 DEF Payment, p
<1> HIDE DEF off
<1>12. PaymentSet(t, p)
  BY <1>1, <1>4, <1>11 DEF PaymentSet
<1>13. RowAdded(e, "REFUND", t, p.userId)
  BY <1>1, <1>4, <1>9, <1>11 DEF RowAdded
<1>14. Leaves(w, e, next)
  BY <1>7, <1>9, <1>10 DEF Leaves
<1>15. /\ (p.refundedAmount - old.refundedAmount) - e.amount <= Off(e)
       /\ e.amount - (p.refundedAmount - old.refundedAmount) <= Off(e)
  BY <1>8, <1>9, <1>10, <1>11
<1>16. /\ consumed \in BonusConsumed(p.quote.deduction.bonus, e.asked, p.orderAmount)
       /\ e.clawback.reclaimTarget \in Cents(ReclaimTarget(e.asked, consumed))
  BY <1>4, <1>7, <1>9, <1>11
<1>17. w = wallet[m][p.userId] /\ wallet' = [wallet EXCEPT ![m][p.userId] = next]
  BY <1>4, <1>11 DEF w
<1>18. RefundsBy(t, p, m, e, consumed, next)
  BY <1>1, <1>5, <1>11, <1>12, <1>13, <1>14, <1>15, <1>16, <1>17 DEF RefundsBy, old
<1> QED BY <1>2, <1>9, <1>11, <1>18 DEF RefundsMoney

LEMMA RevenueDecisionMoney ==
  ASSUME DataTypes, DataTypes', NEW r \in Requests, RevenueDecision(r)
  PROVE  KeepsMoney \/ GrantsMoney
<1>1. CASE UNCHANGED moneyVars
  BY <1>1 DEF moneyVars, KeepsMoney
<1> DEFINE m == call[r].merchantId
           u == Payer(r)
<1>2. ASSUME <<m, u>> \in Members, NEW g \in Grants, Grant(m, u, g)
      PROVE  GrantsMoney
  <2> DEFINE row == Row(nextTxn, "POLICYOS_GRANT", m, u, 0, g.amount)
             e == [row EXCEPT !.account = g.account]
  <2>1. m \in Merchants /\ u \in Users
    BY <1>2, PaymentAssumption
  <2>2. /\ ledger' = ledger \cup {e}
        /\ wallet' = [wallet EXCEPT ![m][u][g.account] = @ + g.amount]
        /\ UNCHANGED <<voucherStatus, budgetUsed, payments, outdated>>
    BY <1>2 DEF Grant
  <2>3. e \in LedgerRow
    BY <2>2 DEF DataTypes
  <2> HIDE DEF m, u
  <2>4. /\ e.txnId = nextTxn /\ e.type = "POLICYOS_GRANT" /\ e.paymentTxn = 0 /\ e.userId = u
        /\ e.account = g.account /\ e.amount = g.amount
    BY DEF Row
  <2> HIDE DEF e, row
  <2>5. nextTxn \in Nat
    BY DEF DataTypes
  <2>6. wallet' = [wallet EXCEPT ![m][u][e.account] = @ + e.amount]
    BY <2>2, <2>4
  <2>7. RowAdded(e, "POLICYOS_GRANT", 0, u)
    BY <2>2, <2>3, <2>4, <2>5 DEF RowAdded
  <2> QED BY <2>1, <2>2, <2>3, <2>6, <2>7 DEF GrantsMoney
<1> QED BY <1>1, <1>2 DEF RevenueDecision

LEMMA MoneyShapes ==
  ASSUME DataTypes, LedgerPast, LocksHeld, [Next]_vars
  PROVE  KeepsMoney \/ Pends \/ Settles \/ Fails \/ RefundsMoney \/ GrantsMoney
<1>1. DataTypes'
  BY NextKeepsTypes
<1>2. ASSUME NEW r \in Requests,
             \/ Arrive(r) \/ EnterService(r) \/ Replay(r) \/ Reject(r)
             \/ ConfirmSettledAgain(r) \/ Finish(r)
      PROVE  KeepsMoney
  BY <1>2 DEF Arrive, EnterService, Replay, Reject, ConfirmSettledAgain, Finish, moneyVars,
              KeepsMoney
<1>3. ASSUME (\E m \in Merchants : SetWalletShared(m)) \/ Tick \/ Answered \/ UNCHANGED vars
      PROVE  KeepsMoney
  BY <1>3 DEF SetWalletShared, Tick, Answered, vars, moneyVars, KeepsMoney
<1> QED BY <1>1, <1>2, <1>3, VerifyPendingMoney, VerifyInternalMoney, ConfirmSuccessMoney,
           ConfirmFailureMoney, RefundPaymentMoney, RevenueDecisionMoney DEF Next, Serve

-----------------------------------------------------------------------------
(***************************************************************************)
(* What each shape keeps.                                                  *)
(***************************************************************************)
LEMMA RowFresh ==
  ASSUME DataTypes, LedgerPast, NEW e, NEW type, NEW t, NEW u, RowAdded(e, type, t, u)
  PROVE  e \notin ledger /\ e \in LedgerRow /\ ledger' = ledger \cup {e}
<1>1. nextTxn \in Nat /\ e.txnId >= nextTxn /\ \A f \in ledger : f.txnId < nextTxn
  BY DEF RowAdded, LedgerPast, DataTypes
<1>2. \A f \in ledger : f.txnId \in Nat
  BY RowTypes2 DEF DataTypes
<1> QED BY <1>1, <1>2 DEF RowAdded

\* Applying a quote marks one voucher of one record, when the user has it.
LEMMA VoucherMarked ==
  ASSUME DataTypes, NEW m \in Merchants, NEW u \in Users, NEW quote \in QuoteRecord,
         ApplyQuoteToUser(m, u, quote)
  PROVE  /\ \A n \in Merchants, x \in Users, v \in VoucherIds :
              \/ voucherStatus'[n][x][v] = voucherStatus[n][x][v]
              \/ /\ n = m /\ x = u /\ v = quote.voucher
                 /\ voucherStatus'[n][x][v] = "USED"
         /\ quote.voucher # NoVoucher /\ voucherStatus[m][u][quote.voucher] = "ACTIVE" =>
              voucherStatus'[m][u][quote.voucher] = "USED"
<1>1. quote.voucher \in VoucherIds \cup {NoVoucher}
  BY DEF QuoteRecord
<1>2. CASE voucherStatus' = voucherStatus
           /\ (quote.voucher = NoVoucher \/ voucherStatus[m][u][quote.voucher] = "NONE")
  BY <1>2
<1>3. CASE /\ quote.voucher \in VoucherIds
           /\ voucherStatus' = [voucherStatus EXCEPT ![m][u][quote.voucher] = "USED"]
  BY <1>3 DEF DataTypes
<1> QED BY <1>1, <1>2, <1>3 DEF ApplyQuoteToUser

LEMMA StepKeepsTerms ==
  ASSUME DataTypes, LedgerPast, LocksHeld, Terms, [Next]_vars
  PROVE  Terms'
<1>1. DOMAIN payments \subseteq DOMAIN payments' /\ \A t \in DOMAIN payments : SamePurchase(t)
  BY PurchasesStay
<1>2. ASSUME NEW e, NEW type, NEW t, NEW u, RowAdded(e, type, t, u),
             type \in SettlementTypes \cup {"REFUND"} => t \in DOMAIN payments'
      PROVE  RowsKnown'
  <2>1. ledger' = ledger \cup {e} /\ e.type = type /\ e.paymentTxn = t
    BY <1>2 DEF RowAdded
  <2>2. IsFiniteSet(ledger')
    BY <2>1, FS_AddElement DEF Terms, RowsKnown
  <2> QED BY <1>1, <1>2, <2>1, <2>2 DEF Terms, RowsKnown
<1>3. ASSUME ledger' = ledger PROVE RowsKnown'
  BY <1>1, <1>3 DEF Terms, RowsKnown
<1>4. ASSUME DOMAIN payments' = DOMAIN payments PROVE BonusWithinOrder'
  BY <1>1, <1>4 DEF Terms, BonusWithinOrder, BonusCovered, SamePurchase
<1>5. ASSUME NEW t, NEW p, Opened(t, p) PROVE BonusWithinOrder'
  BY <1>1, <1>5 DEF Terms, BonusWithinOrder, BonusCovered, SamePurchase, Opened, PaymentSet
<1>6. ASSUME NEW t, NEW p, Closed(t, p) PROVE DOMAIN payments' = DOMAIN payments
  BY <1>6 DEF Closed, PaymentSet
<1>7. ASSUME voucherStatus' = voucherStatus PROVE UsedStaysUsed'
  BY <1>7 DEF Terms, UsedStaysUsed
<1>8. CASE KeepsMoney
  BY <1>3, <1>4, <1>7, <1>8 DEF KeepsMoney, Terms
<1>9. CASE Pends
  <2>1. PICK p \in Payment, e \in LedgerRow :
          Opened(nextTxn, p) /\ RowAdded(e, "PAYMENT_PENDING", nextTxn, p.userId)
    BY <1>9 DEF Pends
  <2>2. nextTxn \in DOMAIN payments'
    BY <2>1 DEF Opened, PaymentSet
  <2> QED BY <1>2, <1>5, <1>7, <1>9, <2>1, <2>2 DEF Pends, Terms
<1>10. CASE Settles
  <2>1. PICK t \in Nat, p \in Payment, m \in Merchants, e \in LedgerRow, type \in SettlementTypes :
          /\ Opened(t, p) \/ Closed(t, p)
          /\ RowAdded(e, type, t, p.userId)
          /\ ApplyQuoteToUser(m, p.userId, p.quote)
    BY <1>10 DEF Settles
  <2>2. t \in DOMAIN payments'
    BY <2>1 DEF Opened, Closed, PaymentSet
  <2>3. p.userId \in Users /\ p.quote \in QuoteRecord
    BY DEF Payment
  <2>4. UsedStaysUsed'
    BY <2>1, <2>3, VoucherMarked DEF Terms, UsedStaysUsed
  <2> QED BY <1>2, <1>4, <1>5, <1>6, <2>1, <2>2, <2>4 DEF Terms
<1>11. CASE Fails
  BY <1>3, <1>4, <1>6, <1>7, <1>11 DEF Fails, Terms
<1>12. CASE RefundsMoney
  <2>1. PICK t \in Nat, p \in Payment, e \in LedgerRow :
          /\ t \in DOMAIN payments /\ PaymentSet(t, p)
          /\ RowAdded(e, "REFUND", t, p.userId)
          /\ voucherStatus' = voucherStatus
    BY <1>12 DEF RefundsMoney, RefundsBy
  <2>2. DOMAIN payments' = DOMAIN payments
    BY <2>1 DEF PaymentSet
  <2> QED BY <1>2, <1>4, <1>7, <2>1, <2>2 DEF Terms
<1>13. CASE GrantsMoney
  <2>1. PICK e \in LedgerRow, u \in Users : RowAdded(e, "POLICYOS_GRANT", 0, u)
    BY <1>13 DEF GrantsMoney
  <2>2. payments' = payments /\ voucherStatus' = voucherStatus
    BY <1>13 DEF GrantsMoney
  <2>3. "POLICYOS_GRANT" \notin SettlementTypes \cup {"REFUND"}
    BY DEF SettlementTypes
  <2> QED BY <1>2, <1>4, <1>7, <2>1, <2>2, <2>3 DEF Terms
<1> QED BY <1>8, <1>9, <1>10, <1>11, <1>12, <1>13, MoneyShapes

\* A step that adds one row about user u and changes one wallet of u by what the
\* row says, up to its half cent, keeps everybody explained.
LEMMA RowKeepsExplained ==
  ASSUME DataTypes, DataTypes', LedgerPast, RowsKnown, RowsKnown',
         NEW u \in Users, NEW e, NEW type, NEW t, RowAdded(e, type, t, u), NEW m \in Merchants,
         \A f \in ledger, account \in WalletAccounts : Effect(f, account)' = Effect(f, account),
         \A n \in Merchants, x \in Users : n # m \/ x # u => wallet'[n][x] = wallet[n][x],
         NEW v \in Users, Explained(v), v = u => Tracks(e, m, u)
  PROVE  Explained(v)'
<1>1. e \notin ledger /\ e \in LedgerRow /\ ledger' = ledger \cup {e} /\ e.userId = u
  BY RowFresh DEF RowAdded
<1>2. CASE v = u
  BY <1>1, <1>2, NewRowExplains
<1>3. CASE v # u
  <2>1. RowsOf(v)' = RowsOf(v)
    BY <1>1, <1>3 DEF RowsOf
  <2> QED BY <1>3, <2>1, SameRowsExplain
<1> QED BY <1>2, <1>3

LEMMA StepKeepsBooks ==
  ASSUME DataTypes, LedgerPast, LocksHeld, Terms, BooksBalance, [Next]_vars
  PROVE  BooksBalance'
<1>1. DataTypes' /\ RowsKnown /\ RowsKnown'
  BY NextKeepsTypes, StepKeepsTerms DEF Terms
<1>2. \A e \in ledger, account \in WalletAccounts : Effect(e, account)' = Effect(e, account)
  BY <1>1, EffectStays
<1>3. DOMAIN payments \subseteq DOMAIN payments' /\ \A t \in DOMAIN payments : SamePurchase(t)
  BY PurchasesStay
<1> DEFINE InTime(v) == \A t \in outdated : payments[t].userId # v
<1>4. ASSUME NEW v \in Users, outdated \subseteq outdated', InTime(v)' PROVE Explained(v)
  <2>1. outdated \subseteq DOMAIN payments
    BY DEF DataTypes
  <2>2. InTime(v)
    BY <1>3, <1>4, <2>1 DEF SamePurchase
  <2> QED BY <2>2 DEF BooksBalance
<1>5. SUFFICES ASSUME NEW v \in Users, InTime(v)' PROVE Explained(v)'
  BY DEF BooksBalance
<1>6. ASSUME NEW m \in Merchants, NEW u \in Users, NEW w, wallet' = [wallet EXCEPT ![m][u] = w]
      PROVE  /\ wallet'[m][u] = w
             /\ \A n \in Merchants, x \in Users : n # m \/ x # u => wallet'[n][x] = wallet[n][x]
  BY <1>6 DEF DataTypes
<1>7. CASE KeepsMoney \/ Fails
  <2>1. wallet' = wallet /\ ledger' = ledger /\ outdated' = outdated
    BY <1>7 DEF KeepsMoney, Fails
  <2>2. RowsOf(v)' = RowsOf(v)
    BY <2>1 DEF RowsOf
  <2> QED BY <1>1, <1>2, <1>4, <1>5, <2>1, <2>2, SameRowsExplain
<1>8. CASE Pends
  <2>1. PICK p \in Payment, e \in LedgerRow : RowAdded(e, "PAYMENT_PENDING", nextTxn, p.userId)
    BY <1>8 DEF Pends
  <2>2. wallet' = wallet /\ outdated' = outdated
    BY <1>8 DEF Pends
  <2>3. \A account \in WalletAccounts : Effect(e, account)' = 0
    BY <2>1, EffectIs DEF RowAdded, Effect, SettlementTypes
  <2>4. p.userId \in Users /\ p.merchantId \in Merchants
    BY DEF Payment
  <2>5. \A account \in WalletAccounts :
          wallet[p.merchantId][p.userId][account] \in Int
    BY <2>4, AccountTypes DEF DataTypes
  <2>6. \A account \in WalletAccounts :
          wallet'[p.merchantId][p.userId][account]
            = wallet[p.merchantId][p.userId][account] + Effect(e, account)'
    BY <2>2, <2>3, <2>5
  <2>7. Tracks(e, p.merchantId, p.userId)
    BY <1>1, <2>4, <2>6, ExactTracks
  <2> QED BY <1>1, <1>2, <1>4, <1>5, <2>1, <2>2, <2>4, <2>7, RowKeepsExplained
<1>9. CASE Settles
  <2>1. PICK t \in Nat, p \in Payment, m \in Merchants, e \in LedgerRow, type \in SettlementTypes :
          /\ Opened(t, p) \/ Closed(t, p)
          /\ RowAdded(e, type, t, p.userId)
          /\ ApplyQuoteToUser(m, p.userId, p.quote)
          /\ \/ outdated' = outdated \cup {t}
             \/ outdated' = outdated /\ QuoteHolds(m, p.userId, p.quote)
    BY <1>9 DEF Settles
  <2> DEFINE u == p.userId
             d == p.quote.deduction
             w == wallet[m][u]
  <2>2. u \in Users /\ p.quote \in QuoteRecord /\ d \in Deduction /\ w \in Wallet
    BY DEF Payment, QuoteRecord, DataTypes
  <2>3. wallet' = [wallet EXCEPT ![m][u] = p.quote.remainingWallet] /\ payments'[t] = p
    BY <2>1 DEF ApplyQuoteToUser, Opened, Closed, PaymentSet
  <2>4. \A account \in WalletAccounts : Effect(e, account)' = -d[account]
    BY <2>1, <2>3 DEF RowAdded, Effect, SettlementTypes
  <2>5. ASSUME QuoteHolds(m, u, p.quote), NEW account \in WalletAccounts
        PROVE  wallet'[m][u][account] = w[account] + Effect(e, account)'
    <3>1. wallet'[m][u] = RemainingWallet(w, d)
      <4>1. wallet'[m][u] = p.quote.remainingWallet
        BY <2>2, <2>3 DEF DataTypes
      <4>2. RemainingWallet(w, d) = p.quote.remainingWallet
        BY <2>5 DEF QuoteHolds
      <4> QED BY <4>1, <4>2
    <3>2. RemainingWallet(w, d)[account] = w[account] - d[account]
      BY DEF RemainingWallet, WalletAccounts
    <3>3. w[account] \in Int /\ d[account] \in Int
      BY <2>2, AccountTypes
    <3> HIDE DEF w, d, u
    <3> QED BY <2>4, <3>1, <3>2, <3>3
  <2>6. v = u => outdated' = outdated /\ QuoteHolds(m, u, p.quote)
    BY <1>5, <2>1, <2>3
  <2>7. Explained(v)
    BY <1>4, <1>5, <2>1
  <2>8. v = u => Tracks(e, m, u)
    <3> SUFFICES ASSUME v = u PROVE Tracks(e, m, u)
      OBVIOUS
    <3>1. \A account \in WalletAccounts :
            wallet'[m][u][account] = w[account] + Effect(e, account)'
      BY <2>5, <2>6
    <3> QED BY <1>1, <2>2, <3>1, ExactTracks
  <2>9. \A n \in Merchants, x \in Users : n # m \/ x # u => wallet'[n][x] = wallet[n][x]
    BY <1>6, <2>2, <2>3
  <2> QED BY <1>1, <1>2, <2>1, <2>2, <2>7, <2>8, <2>9, RowKeepsExplained
<1>10. CASE RefundsMoney
  <2>0. PICK t \in Nat, p \in Payment, m \in Merchants, e \in LedgerRow :
          \E consumed, next : RefundsBy(t, p, m, e, consumed, next)
    BY <1>10 DEF RefundsMoney
  <2>1. PICK consumed, next : RefundsBy(t, p, m, e, consumed, next)
    BY <2>0
  <2> DEFINE u == p.userId
             w == wallet[m][u]
  <2>2. u \in Users /\ w \in Wallet
    BY DEF Payment, DataTypes
  <2>3. /\ wallet' = [wallet EXCEPT ![m][u] = next]
        /\ outdated' = outdated
        /\ RowAdded(e, "REFUND", t, u) /\ Leaves(w, e, next)
    BY <2>1 DEF RefundsBy
  <2>4. wallet'[m][u] = next
    <3> HIDE DEF w
    <3> QED BY <2>2, <2>3 DEF DataTypes
  <2>5. Tracks(e, m, u)
    <3>1. /\ e.clawback.fromBonus \in Nat /\ e.clawback.fromPrincipal \in Nat /\ e.amount \in Nat
          /\ e.type = "REFUND" /\ Off(e) \in Nat
      BY <2>3, RowTypes2 DEF RowAdded, Off, Slip
    <3>2. /\ w.principal \in Int /\ w.bonus \in Int /\ w.silver \in Int
          /\ next.principal \in Int /\ next.bonus \in Int /\ next.silver \in Int
      BY <2>2, <2>3 DEF Wallet, Leaves
    <3>3. /\ Effect(e, "principal")' = e.amount - e.clawback.fromPrincipal
          /\ Effect(e, "bonus")' = -e.clawback.fromBonus
          /\ Effect(e, "silver")' = 0
      BY <3>1 DEF Effect, SettlementTypes
    <3>4. /\ next.silver = w.silver
          /\ next.bonus - (w.bonus - e.clawback.fromBonus) <= Off(e)
          /\ (w.bonus - e.clawback.fromBonus) - next.bonus <= Off(e)
          /\ next.principal - (w.principal + (e.amount - e.clawback.fromPrincipal)) <= Off(e)
          /\ (w.principal + (e.amount - e.clawback.fromPrincipal)) - next.principal <= Off(e)
      BY <2>3 DEF Leaves
    <3> HIDE DEF w, u
    <3>5. /\ next.principal - (w.principal + Effect(e, "principal")') <= Off(e)
          /\ (w.principal + Effect(e, "principal")') - next.principal <= Off(e)
      BY <3>3, <3>4
    <3>6. /\ next.bonus - (w.bonus + Effect(e, "bonus")') <= Off(e)
          /\ (w.bonus + Effect(e, "bonus")') - next.bonus <= Off(e)
      BY <3>1, <3>2, <3>3, <3>4
    <3>7. /\ next.silver - (w.silver + Effect(e, "silver")') <= Off(e)
          /\ (w.silver + Effect(e, "silver")') - next.silver <= Off(e)
      BY <3>1, <3>2, <3>3, <3>4
    <3> QED BY <2>4, <3>5, <3>6, <3>7 DEF Tracks, WalletAccounts, w
  <2>6. Explained(v)
    BY <1>4, <1>5, <2>3
  <2>7. \A n \in Merchants, x \in Users : n # m \/ x # u => wallet'[n][x] = wallet[n][x]
    BY <1>6, <2>2, <2>3
  <2> QED BY <1>1, <1>2, <2>2, <2>3, <2>5, <2>6, <2>7, RowKeepsExplained
<1>11. CASE GrantsMoney
  <2>1. PICK m \in Merchants, u \in Users, e \in LedgerRow :
          /\ RowAdded(e, "POLICYOS_GRANT", 0, u)
          /\ wallet' = [wallet EXCEPT ![m][u][e.account] = @ + e.amount]
          /\ outdated' = outdated
    BY <1>11 DEF GrantsMoney
  <2> DEFINE w == wallet[m][u]
             new == [w EXCEPT ![e.account] = @ + e.amount]
  <2>2. w \in Wallet /\ e.amount \in Nat /\ e.account \in WalletAccounts
    BY RowTypes2 DEF DataTypes
  <2>3. wallet' = [wallet EXCEPT ![m][u] = new]
    BY <2>1
  <2>4. ASSUME NEW account \in WalletAccounts
        PROVE  wallet'[m][u][account] = w[account] + Effect(e, account)'
    <3>1. wallet'[m][u] = new
      <4> HIDE DEF new
      <4> QED BY <2>3 DEF DataTypes
    <3>2. Effect(e, account)' = IF account = e.account THEN e.amount ELSE 0
      BY <2>1 DEF RowAdded, Effect, SettlementTypes
    <3>3. w[account] \in Int
      BY <2>2, AccountTypes
    <3>4. new[account] = IF account = e.account THEN w[account] + e.amount ELSE w[account]
      BY <2>2 DEF WalletAccounts, Wallet
    <3> HIDE DEF w, new
    <3> QED BY <2>2, <3>1, <3>2, <3>3, <3>4
  <2>5. Explained(v)
    BY <1>4, <1>5, <2>1
  <2>6. \A n \in Merchants, x \in Users : n # m \/ x # u => wallet'[n][x] = wallet[n][x]
    <3> HIDE DEF new
    <3> QED BY <1>6, <2>3
  <2>7. Tracks(e, m, u)
    BY <1>1, <2>4, ExactTracks
  <2> QED BY <1>1, <1>2, <2>1, <2>5, <2>6, <2>7, RowKeepsExplained
<1> QED BY <1>7, <1>8, <1>9, <1>10, <1>11, MoneyShapes

-----------------------------------------------------------------------------
(***************************************************************************)
(* The principal: what a quote leaves and what a refund costs.             *)
(***************************************************************************)
LEMMA DebtGrows ==
  ASSUME DataTypes, LedgerPast, LocksHeld, Terms, [Next]_vars, NEW u
  PROVE  Debt(u) \in Nat /\ Debt(u)' \in Nat /\ Debt(u) <= Debt(u)'
<1>1. ledger \subseteq ledger'
  BY MoneyShapes DEF KeepsMoney, Pends, Settles, Fails, RefundsMoney, RefundsBy, GrantsMoney,
                     RowAdded
<1>2. IsFiniteSet(ledger')
  BY StepKeepsTerms DEF Terms, RowsKnown
<1>3. /\ HalfCentRefunds(u) \subseteq HalfCentRefunds(u)'
      /\ HalfCentRefunds(u)' \subseteq ledger'
  BY <1>1 DEF HalfCentRefunds, RowsOf
<1>4. IsFiniteSet(HalfCentRefunds(u)')
  BY <1>2, <1>3, FS_Subset
<1>5. /\ IsFiniteSet(HalfCentRefunds(u))
      /\ Cardinality(HalfCentRefunds(u)) <= Cardinality(HalfCentRefunds(u)')
  BY <1>3, <1>4, FS_Subset
<1> QED BY <1>4, <1>5, FS_CardinalityType DEF Debt

LEMMA QuotesKeepDebt ==
  ASSUME DataTypes, LedgerPast, LocksHeld, Terms, QuotesWithinDebt, DebtIsRounding, [Next]_vars
  PROVE  QuotesWithinDebt'
<1>1. DataTypes' /\ DOMAIN payments \subseteq DOMAIN payments'
      /\ \A t \in DOMAIN payments : SamePurchase(t)
  BY NextKeepsTypes, PurchasesStay
<1>2. SUFFICES ASSUME NEW t \in DOMAIN payments', NEW u, u = payments'[t].userId
               PROVE  payments'[t].quote.remainingWallet.principal + Debt(u)' >= 0
  BY DEF QuotesWithinDebt, Debt, HalfCentRefunds, RowsOf
<1> DEFINE left == payments'[t].quote.remainingWallet.principal
<1>3. u \in Users /\ left \in Int
  <2>1. payments'[t] \in Payment
    BY <1>1, <1>2 DEF DataTypes
  <2> QED BY <1>2, <2>1 DEF Payment, QuoteRecord, Wallet
<1>4. Debt(u) \in Nat /\ Debt(u)' \in Nat /\ Debt(u) <= Debt(u)'
  BY DebtGrows
<1>5. CASE t \in DOMAIN payments
  <2>1. left + Debt(u) >= 0
    BY <1>1, <1>2, <1>5 DEF QuotesWithinDebt, SamePurchase
  <2> HIDE DEF left
  <2>2. left + Debt(u)' >= 0
    BY <1>3, <1>4, <2>1
  <2> QED BY <2>2 DEF left
<1>6. CASE t \notin DOMAIN payments
  <2>1. ASSUME NEW s, NEW p, Opened(s, p) PROVE left + Debt(u)' >= 0
    <3>1. p = payments'[t]
      BY <1>2, <1>6, <2>1 DEF Opened, PaymentSet
    <3>2. left >= 0 \/ \E m \in Merchants : left >= wallet[m][u].principal
      BY <1>2, <2>1, <3>1 DEF Opened
    <3>3. \A m \in Merchants :
            wallet[m][u].principal + Debt(u) >= 0 /\ wallet[m][u].principal \in Int
      BY <1>3 DEF DebtIsRounding, Debt, DataTypes, Wallet
    <3> HIDE DEF left
    <3> QED BY <1>3, <1>4, <3>2, <3>3
  <2>2. ASSUME NEW s, NEW p, s \in DOMAIN payments, PaymentSet(s, p) PROVE FALSE
    BY <1>2, <1>6, <2>2 DEF PaymentSet
  <2>3. CASE Settles
    BY <2>1, <2>2, <2>3 DEF Settles, Closed
  <2>4. CASE RefundsMoney
    BY <2>2, <2>4 DEF RefundsMoney, RefundsBy
  <2>5. CASE Pends \/ Fails
    BY <2>1, <2>2, <2>5 DEF Pends, Fails, Closed
  <2>6. CASE KeepsMoney \/ GrantsMoney
    BY <1>2, <1>6, <2>6 DEF KeepsMoney, GrantsMoney
  <2> QED BY <2>3, <2>4, <2>5, <2>6, MoneyShapes DEF left
<1> QED BY <1>5, <1>6

LEMMA StepKeepsDebt ==
  ASSUME DataTypes, LedgerPast, LocksHeld, Terms, QuotesWithinDebt, DebtIsRounding, [Next]_vars
  PROVE  DebtIsRounding'
<1>1. SUFFICES ASSUME NEW n \in Merchants, NEW x \in Users
               PROVE  wallet'[n][x].principal + Debt(x)' >= 0
  BY DEF DebtIsRounding, Debt
<1>2. Debt(x) \in Nat /\ Debt(x)' \in Nat /\ Debt(x) <= Debt(x)'
  BY DebtGrows
<1>3. /\ wallet[n][x].principal \in Int /\ wallet'[n][x].principal \in Int
      /\ wallet[n][x].principal + Debt(x) >= 0
  BY NextKeepsTypes DEF DebtIsRounding, Debt, DataTypes, Wallet
<1>4. ASSUME wallet'[n][x].principal >= wallet[n][x].principal
      PROVE  wallet'[n][x].principal + Debt(x)' >= 0
  BY <1>2, <1>3, <1>4
<1>5. ASSUME wallet'[n][x] = wallet[n][x] PROVE wallet'[n][x].principal + Debt(x)' >= 0
  BY <1>2, <1>3, <1>5
<1>6. ASSUME NEW m \in Merchants, NEW u \in Users, NEW w, wallet' = [wallet EXCEPT ![m][u] = w]
      PROVE  wallet'[n][x] = IF n = m /\ x = u THEN w ELSE wallet[n][x]
  BY <1>6 DEF DataTypes
<1>7. CASE KeepsMoney \/ Pends \/ Fails
  BY <1>5, <1>7 DEF KeepsMoney, Pends, Fails
<1>8. CASE Settles
  <2>1. PICK t \in Nat, p \in Payment, m \in Merchants :
          /\ Opened(t, p) \/ Closed(t, p)
          /\ ApplyQuoteToUser(m, p.userId, p.quote)
    BY <1>8 DEF Settles
  <2>2. /\ wallet' = [wallet EXCEPT ![m][p.userId] = p.quote.remainingWallet]
        /\ t \in DOMAIN payments' /\ payments'[t] = p /\ p.userId \in Users
    BY <2>1 DEF ApplyQuoteToUser, Opened, Closed, PaymentSet, Payment
  <2>3. p.quote.remainingWallet.principal + Debt(p.userId)' >= 0
    BY <2>2, QuotesKeepDebt DEF QuotesWithinDebt
  <2>4. wallet'[n][x] = IF n = m /\ x = p.userId THEN p.quote.remainingWallet ELSE wallet[n][x]
    BY <1>6, <2>2
  <2> QED BY <1>5, <2>3, <2>4
<1>9. CASE RefundsMoney
  <2>0. PICK t \in Nat, p \in Payment, m \in Merchants, e \in LedgerRow :
          \E consumed, next : RefundsBy(t, p, m, e, consumed, next)
    BY <1>9 DEF RefundsMoney
  <2>1. PICK consumed, next : RefundsBy(t, p, m, e, consumed, next)
    BY <2>0
  <2>2. /\ wallet' = [wallet EXCEPT ![m][p.userId] = next]
        /\ RowAdded(e, "REFUND", t, p.userId)
        /\ next.principal + Off(e) >= wallet[m][p.userId].principal
        /\ next \in Wallet /\ p.userId \in Users
    BY <2>1 DEF RefundsBy, Leaves, Payment
  <2>3. wallet'[n][x] = IF n = m /\ x = p.userId THEN next ELSE wallet[n][x]
    BY <1>6, <2>2
  <2>4. CASE n = m /\ x = p.userId
    <3>1. Debt(x)' = Debt(x) + Off(e)
      BY <2>2, <2>4, RowFresh, NewDebt DEF RowAdded, Terms
    <3>2. /\ wallet'[n][x].principal + Off(e) >= wallet[n][x].principal
          /\ Off(e) \in Nat
      BY <2>2, <2>3, <2>4 DEF Off, Slip
    <3> QED BY <1>2, <1>3, <3>1, <3>2
  <2> QED BY <1>5, <2>3, <2>4
<1>10. CASE GrantsMoney
  <2>1. PICK m \in Merchants, u \in Users, e \in LedgerRow :
          wallet' = [wallet EXCEPT ![m][u][e.account] = @ + e.amount]
    BY <1>10 DEF GrantsMoney
  <2>2. e.amount \in Nat /\ wallet[m][u] \in Wallet
    BY RowTypes2 DEF DataTypes
  <2> DEFINE w == [wallet[m][u] EXCEPT ![e.account] = @ + e.amount]
  <2>3. wallet' = [wallet EXCEPT ![m][u] = w]
    BY <2>1
  <2>4. w.principal >= wallet[m][u].principal
    <3>1. wallet[m][u].principal \in Int
      BY <2>2 DEF Wallet
    <3> DEFINE old == wallet[m][u]
    <3>2. old \in Wallet /\ old.principal \in Int
      BY <2>2, <3>1
    <3> HIDE DEF old
    <3>3. [old EXCEPT ![e.account] = @ + e.amount].principal >= old.principal
      BY <2>2, <3>2 DEF Wallet
    <3> QED BY <3>3 DEF old
  <2> HIDE DEF w
  <2>5. wallet'[n][x] = IF n = m /\ x = u THEN w ELSE wallet[n][x]
    BY <1>6, <2>3
  <2> QED BY <1>4, <1>5, <2>4, <2>5
<1> QED BY <1>7, <1>8, <1>9, <1>10, MoneyShapes

-----------------------------------------------------------------------------
(***************************************************************************)
(* Refunds: each one adds its rounding of half a cent to the drift.        *)
(***************************************************************************)
WithinSlack(order, bonus, asked, reclaimed, n) ==
  LET drift == 2 * (order * reclaimed - bonus * asked)
  IN  drift <= order * n /\ -drift <= order * n + asked

LEMMA SlackGrows ==
  ASSUME NEW order \in Nat, order > 0, NEW bonus \in Nat, 2 * (Cent * bonus) <= 2 * order + Cent,
         NEW asked \in Int, NEW reclaimed \in Int, NEW n \in Nat, NEW refund \in Nat,
         NEW consumed \in BonusConsumed(bonus, refund, order),
         NEW share \in Cents(ReclaimTarget(refund, consumed)),
         WithinSlack(order, bonus, asked, reclaimed, n)
  PROVE  WithinSlack(order, bonus, asked + refund, reclaimed + share, n + 1)
<1>1. /\ share \in Nat
      /\ 2 * (order * share - bonus * refund) <= order
      /\ 2 * (bonus * refund - order * share) <= order + refund
  BY ReclaimInProportion
<1>2. /\ order * (reclaimed + share) = order * reclaimed + order * share
      /\ bonus * (asked + refund) = bonus * asked + bonus * refund
      /\ order * (n + 1) = order * n + order
  BY <1>1
<1>3. /\ order * reclaimed \in Int /\ order * share \in Int /\ order * n \in Int
      /\ bonus * asked \in Int /\ bonus * refund \in Int
  BY <1>1
<1> DEFINE a == order * reclaimed
           b == order * share
           c == bonus * asked
           d == bonus * refund
           s == order * n
<1>4. 2 * (a - c) <= s /\ -(2 * (a - c)) <= s + asked
  BY DEF WithinSlack
<1>5. 2 * (b - d) <= order /\ 2 * (d - b) <= order + refund
  BY <1>1
<1>6. a \in Int /\ b \in Int /\ c \in Int /\ d \in Int /\ s \in Int
  BY <1>3
<1>7. /\ 2 * ((a + b) - (c + d)) <= s + order
      /\ -(2 * ((a + b) - (c + d))) <= (s + order) + (asked + refund)
  <2> HIDE DEF a, b, c, d, s
  <2> QED BY <1>4, <1>5, <1>6
<1> QED BY <1>2, <1>7 DEF WithinSlack

LEMMA RefundSums ==
  ASSUME DataTypes, RowsKnown, NEW t
  PROVE  /\ IsFiniteSet(Refunds(t)) /\ IsFiniteSet(HalfCentRefundsOf(t))
         /\ Cardinality(Refunds(t)) \in Nat /\ Cardinality(HalfCentRefundsOf(t)) \in Nat
         /\ Refunded(t) \in Int /\ Asked(t) \in Int /\ Reclaimed(t) \in Int
<1>1. IsFiniteSet(Refunds(t)) /\ IsFiniteSet(HalfCentRefundsOf(t))
  BY FS_Subset DEF Refunds, RowsKnown, HalfCentRefundsOf
<1>2. \A e \in Refunds(t) :
        e.amount \in Int /\ e.asked \in Int /\ e.clawback.reclaimTarget \in Int
  BY RowTypes2 DEF Refunds, DataTypes
<1>3. /\ IntegersOn([e \in Refunds(t) |-> e.amount], Refunds(t))
      /\ IntegersOn([e \in Refunds(t) |-> e.asked], Refunds(t))
      /\ IntegersOn([e \in Refunds(t) |-> e.clawback.reclaimTarget], Refunds(t))
  BY <1>2 DEF IntegersOn
<1> QED BY <1>1, <1>3, SumType, FS_CardinalityType DEF Refunded, Asked, Reclaimed

\* One more refund of payment t.
LEMMA NewRefund ==
  ASSUME DataTypes, LedgerPast, RowsKnown, NEW t, NEW e, NEW u, RowAdded(e, "REFUND", t, u)
  PROVE  /\ Refunded(t)' = Refunded(t) + e.amount
         /\ Asked(t)' = Asked(t) + e.asked
         /\ Reclaimed(t)' = Reclaimed(t) + e.clawback.reclaimTarget
         /\ Cardinality(Refunds(t)') = Cardinality(Refunds(t)) + 1
         /\ Cardinality(HalfCentRefundsOf(t)') = Cardinality(HalfCentRefundsOf(t)) + Off(e)
<1> DEFINE R == Refunds(t)
           S == R \cup {e}
           H == HalfCentRefundsOf(t)
<1>1. /\ e \notin ledger /\ e \in LedgerRow /\ Refunds(t)' = S /\ e.type = "REFUND"
      /\ H \subseteq R
  BY RowFresh DEF RowAdded, Refunds, HalfCentRefundsOf
<1>2. IsFiniteSet(R) /\ e \notin R /\ IsFiniteSet(H) /\ Cardinality(H) \in Nat /\ e \notin H
  BY <1>1, RefundSums DEF Refunds
<1>3. \A f \in S : f.amount \in Int /\ f.asked \in Int /\ f.clawback.reclaimTarget \in Int
  BY <1>1, RowTypes2 DEF Refunds, DataTypes
<1>4. ASSUME NEW parts, NEW parts2, \A f \in S : parts2[f] \in Int,
             \A f \in R : parts2[f] = parts[f]
      PROVE  SumFunctionOnSet(parts2, S) = SumFunctionOnSet(parts, R) + parts2[e]
  <2>1. IntegersOn(parts2, S)
    BY <1>4 DEF IntegersOn
  <2> HIDE DEF R
  <2>2. SumFunctionOnSet(parts2, S) = SumFunctionOnSet(parts2, R) + parts2[e]
    BY <1>2, <2>1, SumAdds
  <2>3. SumFunctionOnSet(parts2, R) = SumFunctionOnSet(parts, R)
    BY <1>2, <1>4, SumCongruent
  <2> QED BY <2>2, <2>3
<1>5. Cardinality(S) = Cardinality(R) + 1
  <2> HIDE DEF R
  <2> QED BY <1>2, FS_AddElement
<1>6. Refunded(t)' = Refunded(t) + e.amount
  <2> DEFINE parts == [f \in R |-> f.amount]
             parts2 == [f \in S |-> f.amount]
  <2>1. \A f \in S : parts2[f] = f.amount /\ parts2[f] \in Int
    BY <1>3
  <2>2. \A f \in R : parts2[f] = parts[f]
    BY <1>1
  <2>3. Refunded(t) = SumFunctionOnSet(parts, R) /\ Refunded(t)' = SumFunctionOnSet(parts2, S)
    BY <1>1 DEF Refunded
  <2> HIDE DEF parts, parts2, R
  <2>4. SumFunctionOnSet(parts2, S) = SumFunctionOnSet(parts, R) + parts2[e]
    BY <1>4, <2>1, <2>2
  <2> HIDE DEF S
  <2>5. e \in S
    BY DEF S
  <2> QED BY <2>1, <2>3, <2>4, <2>5
<1>7. Asked(t)' = Asked(t) + e.asked
  <2> DEFINE parts == [f \in R |-> f.asked]
             parts2 == [f \in S |-> f.asked]
  <2>1. \A f \in S : parts2[f] = f.asked /\ parts2[f] \in Int
    BY <1>3
  <2>2. \A f \in R : parts2[f] = parts[f]
    BY <1>1
  <2>3. Asked(t) = SumFunctionOnSet(parts, R) /\ Asked(t)' = SumFunctionOnSet(parts2, S)
    BY <1>1 DEF Asked
  <2> HIDE DEF parts, parts2, R
  <2>4. SumFunctionOnSet(parts2, S) = SumFunctionOnSet(parts, R) + parts2[e]
    BY <1>4, <2>1, <2>2
  <2> HIDE DEF S
  <2>5. e \in S
    BY DEF S
  <2> QED BY <2>1, <2>3, <2>4, <2>5
<1>8. Reclaimed(t)' = Reclaimed(t) + e.clawback.reclaimTarget
  <2> DEFINE parts == [f \in R |-> f.clawback.reclaimTarget]
             parts2 == [f \in S |-> f.clawback.reclaimTarget]
  <2>1. \A f \in S : parts2[f] = f.clawback.reclaimTarget /\ parts2[f] \in Int
    BY <1>3
  <2>2. \A f \in R : parts2[f] = parts[f]
    BY <1>1
  <2>3. Reclaimed(t) = SumFunctionOnSet(parts, R) /\ Reclaimed(t)' = SumFunctionOnSet(parts2, S)
    BY <1>1 DEF Reclaimed
  <2> HIDE DEF parts, parts2, R
  <2>4. SumFunctionOnSet(parts2, S) = SumFunctionOnSet(parts, R) + parts2[e]
    BY <1>4, <2>1, <2>2
  <2> HIDE DEF S
  <2>5. e \in S
    BY DEF S
  <2> QED BY <2>1, <2>3, <2>4, <2>5
<1>9. Cardinality(HalfCentRefundsOf(t)') = Cardinality(H) + Off(e)
  <2>1. CASE Halfway(e.asked)
    <3>1. HalfCentRefundsOf(t)' = H \cup {e} /\ Off(e) = 1
      BY <1>1, <2>1 DEF HalfCentRefundsOf, Off, Slip
    <3> HIDE DEF H
    <3> QED BY <1>2, <3>1, FS_AddElement
  <2>2. CASE ~Halfway(e.asked)
    <3>1. HalfCentRefundsOf(t)' = H /\ Off(e) = 0
      BY <1>1, <2>2 DEF HalfCentRefundsOf, Off, Slip
    <3> HIDE DEF H
    <3> QED BY <1>2, <3>1
  <2> QED BY <2>1, <2>2
<1> QED BY <1>1, <1>5, <1>6, <1>7, <1>8, <1>9

\* What the property says of one payment.
InProportion(p, t) ==
  /\ p.refundedAmount - Refunded(t) <= Cardinality(HalfCentRefundsOf(t))
  /\ Refunded(t) - p.refundedAmount <= Cardinality(HalfCentRefundsOf(t))
  /\ WithinSlack(p.orderAmount, p.quote.deduction.bonus, Asked(t), Reclaimed(t),
                 Cardinality(Refunds(t)))

LEMMA StepKeepsProportion ==
  ASSUME DataTypes, LedgerPast, LocksHeld, Terms, RefundsReclaimBonus, [Next]_vars
  PROVE  RefundsReclaimBonus'
<1>1. \A t \in DOMAIN payments : InProportion(payments[t], t)
  BY DEF RefundsReclaimBonus, InProportion, WithinSlack
<1>2. SUFFICES ASSUME NEW t \in DOMAIN payments' PROVE InProportion(payments[t], t)'
  BY DEF RefundsReclaimBonus, InProportion, WithinSlack
<1>3. DOMAIN payments \subseteq DOMAIN payments' /\ \A s \in DOMAIN payments : SamePurchase(s)
  BY PurchasesStay
<1>4. ASSUME t \in DOMAIN payments, Refunds(t)' = Refunds(t),
             payments'[t].refundedAmount = payments[t].refundedAmount
      PROVE  InProportion(payments[t], t)'
  BY <1>1, <1>3, <1>4 DEF InProportion, SamePurchase, Refunded, Asked, Reclaimed, HalfCentRefundsOf
<1>5. ASSUME ledger' = ledger PROVE Refunds(t)' = Refunds(t)
  BY <1>5 DEF Refunds
<1>6. ASSUME NEW e, NEW type, NEW s, NEW u, RowAdded(e, type, s, u), type # "REFUND" \/ s # t
      PROVE  Refunds(t)' = Refunds(t)
  BY <1>6 DEF RowAdded, Refunds
<1>7. ASSUME NEW p \in Payment, Opened(t, p), Refunds(t)' = Refunds(t)
      PROVE  InProportion(payments[t], t)'
  <2>1. Refunds(t) = {}
    BY <1>7 DEF Opened, Refunds, Terms, RowsKnown
  <2>2. /\ Refunded(t)' = 0 /\ Asked(t)' = 0 /\ Reclaimed(t)' = 0
        /\ Cardinality(Refunds(t)') = 0 /\ Cardinality(HalfCentRefundsOf(t)') = 0
    BY <1>7, <2>1, SumEmpty, FS_EmptySet DEF Refunded, Asked, Reclaimed, HalfCentRefundsOf
  <2>3. payments'[t] = p /\ p.refundedAmount = 0
    BY <1>7 DEF Opened, PaymentSet
  <2>4. p.orderAmount \in Nat /\ p.quote.deduction.bonus \in Nat
    BY DEF Payment, QuoteRecord, Deduction
  <2>5. WithinSlack(p.orderAmount, p.quote.deduction.bonus, 0, 0, 0)
    BY <2>4 DEF WithinSlack
  <2> QED BY <2>2, <2>3, <2>5 DEF InProportion
<1>8. CASE KeepsMoney
  BY <1>2, <1>4, <1>5, <1>8 DEF KeepsMoney
<1>9. CASE Pends
  <2>1. PICK p \in Payment, e \in LedgerRow :
          Opened(nextTxn, p) /\ RowAdded(e, "PAYMENT_PENDING", nextTxn, p.userId)
    BY <1>9 DEF Pends
  <2>2. Refunds(t)' = Refunds(t)
    BY <1>6, <2>1
  <2>3. /\ DOMAIN payments' = DOMAIN payments \cup {nextTxn}
        /\ \A s \in DOMAIN payments \ {nextTxn} : payments'[s] = payments[s]
    BY <2>1 DEF Opened, PaymentSet
  <2> QED BY <1>4, <1>7, <2>1, <2>2, <2>3
<1>10. CASE Settles
  <2>1. PICK s \in Nat, p \in Payment, e \in LedgerRow, type \in SettlementTypes :
          /\ Opened(s, p) \/ Closed(s, p)
          /\ RowAdded(e, type, s, p.userId)
    BY <1>10 DEF Settles
  <2>2. type # "REFUND"
    BY DEF SettlementTypes
  <2>3. Refunds(t)' = Refunds(t)
    BY <1>6, <2>1, <2>2
  <2>4. \/ t = s /\ Opened(t, p)
        \/ t \in DOMAIN payments /\ payments'[t].refundedAmount = payments[t].refundedAmount
    <3>1. CASE t = s
      BY <2>1, <3>1 DEF Closed, PaymentSet
    <3>2. CASE t # s
      BY <1>2, <2>1, <3>2 DEF Opened, Closed, PaymentSet
    <3> QED BY <3>1, <3>2
  <2> QED BY <1>4, <1>7, <2>3, <2>4
<1>11. CASE Fails
  <2>1. PICK s \in Nat, p \in Payment : Closed(s, p) /\ ledger' = ledger
    BY <1>11 DEF Fails
  <2>2. t \in DOMAIN payments /\ payments'[t].refundedAmount = payments[t].refundedAmount
    BY <1>2, <2>1 DEF Closed, PaymentSet
  <2> QED BY <1>4, <1>5, <2>1, <2>2
<1>12. CASE RefundsMoney
  <2>0. PICK s \in Nat, p \in Payment, m \in Merchants, e \in LedgerRow :
          \E consumed, next : RefundsBy(s, p, m, e, consumed, next)
    BY <1>12 DEF RefundsMoney
  <2>1. PICK consumed, next : RefundsBy(s, p, m, e, consumed, next)
    BY <2>0
  <2> DEFINE order == p.orderAmount
             bonus == p.quote.deduction.bonus
             refunded == p.refundedAmount - payments[s].refundedAmount
  <2>2. /\ s \in DOMAIN payments /\ PaymentSet(s, p)
        /\ RowAdded(e, "REFUND", s, p.userId)
        /\ refunded - e.amount <= Off(e) /\ e.amount - refunded <= Off(e)
        /\ consumed \in BonusConsumed(bonus, e.asked, order)
        /\ e.clawback.reclaimTarget \in Cents(ReclaimTarget(e.asked, consumed))
    BY <2>1 DEF RefundsBy
  <2>3. t \in DOMAIN payments
    BY <1>2, <2>2 DEF PaymentSet
  <2>4. CASE t # s
    BY <1>4, <1>6, <2>2, <2>3, <2>4 DEF PaymentSet
  <2>5. CASE t = s
    <3>1. payments'[t] = p /\ SamePurchase(t) /\ InProportion(payments[t], t)
      BY <1>1, <1>3, <2>2, <2>3, <2>5 DEF PaymentSet
    <3> DEFINE n == Cardinality(Refunds(t))
               h == Cardinality(HalfCentRefundsOf(t))
               share == e.clawback.reclaimTarget
    <3>2. /\ order = payments[t].orderAmount /\ bonus = payments[t].quote.deduction.bonus
          /\ order \in Nat /\ order > 0 /\ bonus \in Nat
          /\ 2 * (Cent * bonus) <= 2 * order + Cent
          /\ payments[t].refundedAmount \in Nat /\ p.refundedAmount \in Nat
      BY <2>3, <3>1, PaymentTypes DEF SamePurchase, Terms, BonusWithinOrder, BonusCovered, Payment
    <3>3. /\ n \in Nat /\ h \in Nat
          /\ Refunded(t) \in Int /\ Asked(t) \in Int /\ Reclaimed(t) \in Int
          /\ e.asked \in Nat /\ e.amount \in Nat /\ share \in Nat /\ Off(e) \in Nat
      BY RefundSums, RowTypes2 DEF Terms, Off, Slip
    <3>4. /\ WithinSlack(order, bonus, Asked(t), Reclaimed(t), n)
          /\ payments[t].refundedAmount - Refunded(t) <= h
          /\ Refunded(t) - payments[t].refundedAmount <= h
      BY <3>1, <3>2 DEF InProportion
    <3>5. /\ Refunded(t)' = Refunded(t) + e.amount /\ Asked(t)' = Asked(t) + e.asked
          /\ Reclaimed(t)' = Reclaimed(t) + share
          /\ Cardinality(Refunds(t)') = n + 1
          /\ Cardinality(HalfCentRefundsOf(t)') = h + Off(e)
      BY <2>2, <2>5, NewRefund DEF Terms, n, h
    <3> HIDE DEF order, bonus, n, h, share
    <3>6. WithinSlack(order, bonus, Asked(t) + e.asked, Reclaimed(t) + share, n + 1)
      BY <2>2, <3>2, <3>3, <3>4, SlackGrows DEF share
    <3>7. /\ p.refundedAmount - (Refunded(t) + e.amount) <= h + Off(e)
          /\ (Refunded(t) + e.amount) - p.refundedAmount <= h + Off(e)
      BY <2>2, <2>5, <3>2, <3>3, <3>4
    <3> QED BY <3>1, <3>5, <3>6, <3>7 DEF InProportion, order, bonus
  <2> QED BY <2>4, <2>5
<1>13. CASE GrantsMoney
  <2>1. PICK e \in LedgerRow, u \in Users : RowAdded(e, "POLICYOS_GRANT", 0, u)
    BY <1>13 DEF GrantsMoney
  <2>2. payments' = payments
    BY <1>13 DEF GrantsMoney
  <2> QED BY <1>2, <1>4, <1>6, <2>1, <2>2
<1> QED BY <1>8, <1>9, <1>10, <1>11, <1>12, <1>13, MoneyShapes

-----------------------------------------------------------------------------
(***************************************************************************)
(* Vouchers: a settlement that is in time spends one and marks one.        *)
(***************************************************************************)
LEMMA VoucherSets ==
  ASSUME DataTypes, NEW u, NEW v
  PROVE  IsFiniteSet(Spending(u, v)) /\ IsFiniteSet(Marked(u, v))
<1>1. IsFiniteSet(1 .. nextTxn - 1)
  <2>1. 1 \in Int /\ nextTxn - 1 \in Int
    BY DEF DataTypes
  <2> QED BY <2>1, FS_Interval
<1>2. Spending(u, v) \subseteq 1 .. nextTxn - 1
  BY DEF Spending, DataTypes
<1>3. Marked(u, v) \subseteq Merchants
  BY DEF Marked
<1> QED BY <1>1, <1>2, <1>3, FS_Subset, PaymentAssumption

LEMMA VouchersCounted ==
  ASSUME DataTypes, NEW u, NEW v, Cardinality(Spending(u, v)) <= Cardinality(Marked(u, v)),
         \/ /\ Spending(u, v)' \subseteq Spending(u, v)
            /\ Marked(u, v) \subseteq Marked(u, v)'
         \/ \E t, m : /\ Spending(u, v)' \subseteq Spending(u, v) \cup {t}
                      /\ Marked(u, v) \cup {m} \subseteq Marked(u, v)' /\ m \notin Marked(u, v)
  PROVE  Cardinality(Spending(u, v))' <= Cardinality(Marked(u, v))'
<1> DEFINE S == Spending(u, v)
           M == Marked(u, v)
           S2 == Spending(u, v)'
           M2 == Marked(u, v)'
<1>1. IsFiniteSet(S) /\ IsFiniteSet(M) /\ IsFiniteSet(M2)
  <2>1. M2 \subseteq Merchants
    BY DEF Marked
  <2> QED BY <2>1, VoucherSets, FS_Subset, PaymentAssumption
<1>2. Cardinality(S) \in Nat /\ Cardinality(M) \in Nat /\ Cardinality(S) <= Cardinality(M)
  BY <1>1, FS_CardinalityType
<1> SUFFICES Cardinality(S2) <= Cardinality(M2)
  OBVIOUS
<1>3. CASE S2 \subseteq S /\ M \subseteq M2
  <2> HIDE DEF S, M, S2, M2
  <2>1. /\ IsFiniteSet(S2) /\ Cardinality(S2) <= Cardinality(S)
        /\ Cardinality(M) <= Cardinality(M2)
    BY <1>1, <1>3, FS_Subset
  <2>2. Cardinality(S2) \in Nat /\ Cardinality(M2) \in Nat
    BY <1>1, <2>1, FS_CardinalityType
  <2> QED BY <1>2, <2>1, <2>2
<1>4. ASSUME NEW t, NEW m, S2 \subseteq S \cup {t}, M \cup {m} \subseteq M2, m \notin M
      PROVE  Cardinality(S2) <= Cardinality(M2)
  <2> HIDE DEF S, M, S2, M2
  <2>1. /\ IsFiniteSet(S \cup {t})
        /\ Cardinality(S \cup {t}) <= Cardinality(S) + 1
        /\ Cardinality(S \cup {t}) \in Nat
    <3>1. IsFiniteSet(S \cup {t})
      BY <1>1, FS_AddElement
    <3>2. Cardinality(S \cup {t}) \in {Cardinality(S), Cardinality(S) + 1}
      BY <1>1, FS_AddElement
    <3> QED BY <1>2, <3>1, <3>2
  <2>2. IsFiniteSet(M \cup {m}) /\ Cardinality(M \cup {m}) = Cardinality(M) + 1
    BY <1>1, <1>4, FS_AddElement
  <2>3. /\ IsFiniteSet(S2) /\ Cardinality(S2) <= Cardinality(S \cup {t})
        /\ Cardinality(M \cup {m}) <= Cardinality(M2)
    BY <1>1, <1>4, <2>1, <2>2, FS_Subset
  <2>4. Cardinality(S2) \in Nat /\ Cardinality(M2) \in Nat
    BY <1>1, <2>3, FS_CardinalityType
  <2> QED BY <1>2, <2>1, <2>2, <2>3, <2>4
<1> QED BY <1>3, <1>4

LEMMA StepKeepsVouchers ==
  ASSUME DataTypes, LedgerPast, LocksHeld, Terms, VoucherSpentOnce, [Next]_vars
  PROVE  VoucherSpentOnce'
<1>1. SUFFICES ASSUME NEW x \in Users, NEW v \in VoucherIds
               PROVE  Cardinality(Spending(x, v))' <= Cardinality(Marked(x, v))'
  BY DEF VoucherSpentOnce
<1>2. Cardinality(Spending(x, v)) <= Cardinality(Marked(x, v))
  BY DEF VoucherSpentOnce
<1>3. ASSUME Spending(x, v)' \subseteq Spending(x, v), Marked(x, v) \subseteq Marked(x, v)'
      PROVE  Cardinality(Spending(x, v))' <= Cardinality(Marked(x, v))'
  BY <1>2, <1>3, VouchersCounted
<1>4. ASSUME voucherStatus' = voucherStatus PROVE Marked(x, v)' = Marked(x, v)
  BY <1>4 DEF Marked
\* A payment that is not settled by the step is not newly counted.
<1>5. ASSUME NEW t, NEW p, PaymentSet(t, p), outdated \subseteq outdated',
             \/ p.status # "PAID"
             \/ t \in outdated'
             \/ t \in DOMAIN payments /\ payments[t].status = "PAID" /\ SamePurchase(t)
      PROVE  Spending(x, v)' \subseteq Spending(x, v)
  <2>1. ASSUME NEW s \in Spending(x, v)' PROVE s \in Spending(x, v)
    <3>1. /\ s \in DOMAIN payments \cup {t} /\ s \notin outdated' /\ s \notin outdated
          /\ payments'[s].userId = x /\ payments'[s].status = "PAID"
          /\ payments'[s].quote.voucher = v
      BY <1>5, <2>1 DEF Spending, PaymentSet
    <3>2. CASE s # t
      BY <1>5, <3>1, <3>2 DEF Spending, PaymentSet
    <3>3. CASE s = t
      BY <1>5, <3>1, <3>3 DEF Spending, PaymentSet, SamePurchase
    <3> QED BY <3>2, <3>3
  <2> QED BY <2>1
<1>6. CASE KeepsMoney \/ GrantsMoney
  <2>1. payments' = payments /\ outdated' = outdated /\ voucherStatus' = voucherStatus
    BY <1>6 DEF KeepsMoney, GrantsMoney
  <2>2. Spending(x, v)' = Spending(x, v)
    BY <2>1 DEF Spending
  <2> QED BY <1>3, <1>4, <2>1, <2>2
<1>7. CASE Pends \/ Fails
  <2>1. PICK t, p : PaymentSet(t, p) /\ p.status # "PAID"
    BY <1>7 DEF Pends, Fails, Opened, Closed
  <2>2. outdated' = outdated /\ voucherStatus' = voucherStatus
    BY <1>7 DEF Pends, Fails
  <2> QED BY <1>3, <1>4, <1>5, <2>1, <2>2
<1>8. CASE RefundsMoney
  <2>1. PICK t, p : PaymentSet(t, p) /\ t \in DOMAIN payments /\ payments[t].status = "PAID"
    BY <1>8 DEF RefundsMoney, RefundsBy
  <2>2. outdated' = outdated /\ voucherStatus' = voucherStatus
    BY <1>8 DEF RefundsMoney, RefundsBy
  <2>3. SamePurchase(t)
    BY <2>1, PurchasesStay
  <2> QED BY <1>3, <1>4, <1>5, <2>1, <2>2, <2>3
<1>9. CASE Settles
  <2>1. PICK t \in Nat, p \in Payment, m \in Merchants :
          /\ Opened(t, p) \/ Closed(t, p)
          /\ ApplyQuoteToUser(m, p.userId, p.quote)
          /\ \/ outdated' = outdated \cup {t}
             \/ outdated' = outdated /\ QuoteHolds(m, p.userId, p.quote)
    BY <1>9 DEF Settles
  <2>2. PaymentSet(t, p)
    BY <2>1 DEF Opened, Closed
  <2>3. p.userId \in Users /\ p.quote \in QuoteRecord
    BY DEF Payment
  <2>4. Marked(x, v) \subseteq Marked(x, v)'
    BY <2>1, <2>3, VoucherMarked DEF Marked
  <2>5. CASE outdated' = outdated \cup {t}
    BY <1>3, <1>5, <2>2, <2>4, <2>5
  <2>6. CASE outdated' = outdated /\ QuoteHolds(m, p.userId, p.quote)
    <3>1. Spending(x, v)' \subseteq Spending(x, v) \cup {t}
      BY <2>2, <2>6 DEF Spending, PaymentSet
    <3>2. CASE x = p.userId /\ v = p.quote.voucher
      <4>1. voucherStatus[m][x][v] = "ACTIVE"
        BY <2>6, <3>2, VoucherAssumption DEF QuoteHolds
      <4>2. voucherStatus'[m][x][v] = "USED"
        BY <2>1, <2>3, <3>2, <4>1, VoucherMarked, VoucherAssumption
      <4>3. OpeningVouchers[m][x][v] # "USED"
        BY <4>1 DEF Terms, UsedStaysUsed
      <4>4. m \in Marked(x, v)' /\ m \notin Marked(x, v)
        BY <4>1, <4>2, <4>3 DEF Marked
      <4>5. Marked(x, v) \cup {m} \subseteq Marked(x, v)'
        BY <2>4, <4>4
      <4> QED BY <1>2, <3>1, <4>4, <4>5, VouchersCounted
    <3>3. CASE ~(x = p.userId /\ v = p.quote.voucher)
      <4>1. t \notin Spending(x, v)'
        BY <2>2, <3>3 DEF Spending, PaymentSet
      <4>2. Spending(x, v)' \subseteq Spending(x, v)
        BY <3>1, <4>1
      <4> QED BY <1>3, <2>4, <4>2
    <3> QED BY <3>2, <3>3
  <2> QED BY <2>1, <2>5, <2>6
<1> QED BY <1>6, <1>7, <1>8, <1>9, MoneyShapes

-----------------------------------------------------------------------------
(***************************************************************************)
(* The budget: a settlement adds one voucher to the sum and to the budget. *)
(***************************************************************************)
VoucherParts(m) == [t \in PaidAt(m) |-> payments[t].quote.deduction.voucher]

LEMMA PaidFinite ==
  ASSUME DataTypes, NEW m
  PROVE  IsFiniteSet(PaidAt(m)) /\ IntegersOn(VoucherParts(m), PaidAt(m))
<1>1. IsFiniteSet(1 .. nextTxn - 1)
  <2>1. 1 \in Int /\ nextTxn - 1 \in Int
    BY DEF DataTypes
  <2> QED BY <2>1, FS_Interval
<1>2. PaidAt(m) \subseteq 1 .. nextTxn - 1
  BY DEF PaidAt, DataTypes
<1>3. IntegersOn(VoucherParts(m), PaidAt(m))
  BY PaymentTypes DEF IntegersOn, VoucherParts, PaidAt
<1> QED BY <1>1, <1>2, <1>3, FS_Subset

LEMMA SamePaid ==
  ASSUME DataTypes, NEW m, PaidAt(m)' = PaidAt(m), \A t \in PaidAt(m) : SamePurchase(t)
  PROVE  SumFunctionOnSet(VoucherParts(m), PaidAt(m))'
           = SumFunctionOnSet(VoucherParts(m), PaidAt(m))
<1>1. \A t \in PaidAt(m) : VoucherParts(m)'[t] = VoucherParts(m)[t]
  BY DEF VoucherParts, SamePurchase
<1> QED BY <1>1, PaidFinite, SumCongruent

LEMMA StepKeepsBudget ==
  ASSUME DataTypes, LedgerPast, LocksHeld, Terms, BudgetIsVouchersSettled, [Next]_vars
  PROVE  BudgetIsVouchersSettled'
<1>1. SUFFICES ASSUME NEW n \in Merchants
               PROVE  budgetUsed'[n] = SumFunctionOnSet(VoucherParts(n), PaidAt(n))'
  BY DEF BudgetIsVouchersSettled, VoucherParts
<1>2. budgetUsed[n] = SumFunctionOnSet(VoucherParts(n), PaidAt(n))
  BY DEF BudgetIsVouchersSettled, VoucherParts
<1>3. /\ DOMAIN payments \subseteq DOMAIN payments' /\ \A t \in DOMAIN payments : SamePurchase(t)
      /\ \A t \in PaidAt(n) : SamePurchase(t)
  BY PurchasesStay DEF PaidAt
<1>4. ASSUME PaidAt(n)' = PaidAt(n), budgetUsed'[n] = budgetUsed[n]
      PROVE  budgetUsed'[n] = SumFunctionOnSet(VoucherParts(n), PaidAt(n))'
  BY <1>2, <1>3, <1>4, SamePaid
<1>5. ASSUME NEW t, NEW p, PaymentSet(t, p),
             t \in PaidAt(n) <=> p.merchantId = n /\ p.status = "PAID"
      PROVE  PaidAt(n)' = PaidAt(n)
  BY <1>5 DEF PaymentSet, PaidAt
<1>6. CASE KeepsMoney \/ GrantsMoney
  <2>1. payments' = payments /\ budgetUsed' = budgetUsed
    BY <1>6 DEF KeepsMoney, GrantsMoney
  <2> QED BY <1>4, <2>1 DEF PaidAt
<1>7. CASE Pends \/ Fails
  <2>1. PICK t, p : /\ Opened(t, p) \/ Closed(t, p)
                    /\ p.status # "PAID"
    BY <1>7 DEF Pends, Fails
  <2>2. budgetUsed' = budgetUsed
    BY <1>7 DEF Pends, Fails
  <2>3. PaymentSet(t, p) /\ t \notin PaidAt(n)
    BY <2>1 DEF Opened, Closed, PaidAt
  <2> QED BY <1>4, <1>5, <2>1, <2>2, <2>3
<1>8. CASE RefundsMoney
  <2>1. PICK t, p : /\ PaymentSet(t, p) /\ t \in DOMAIN payments /\ payments[t].status = "PAID"
                    /\ p.status = "PAID"
    BY <1>8 DEF RefundsMoney, RefundsBy
  <2>2. budgetUsed' = budgetUsed
    BY <1>8 DEF RefundsMoney, RefundsBy
  <2>3. p.merchantId = payments[t].merchantId
    BY <1>3, <2>1 DEF SamePurchase, PaymentSet
  <2>4. t \in PaidAt(n) <=> p.merchantId = n /\ p.status = "PAID"
    BY <2>1, <2>3 DEF PaidAt
  <2> QED BY <1>4, <1>5, <2>1, <2>2, <2>4
<1>9. CASE Settles
  <2>1. PICK t \in Nat, p \in Payment :
          /\ Opened(t, p) \/ Closed(t, p)
          /\ p.status = "PAID"
          /\ SpendBudget(p.merchantId, p.quote)
    BY <1>9 DEF Settles
  <2>2. PaymentSet(t, p) /\ t \notin PaidAt(n)
    BY <2>1 DEF Opened, Closed, PaidAt
  <2> DEFINE part == p.quote.deduction.voucher
  <2>3. part \in Nat /\ p.merchantId \in Merchants
    BY DEF Payment, QuoteRecord, Deduction
  <2>4. budgetUsed' = [budgetUsed EXCEPT ![p.merchantId] = @ + part]
    BY <2>1 DEF SpendBudget
  <2>5. CASE p.merchantId # n
    <3>1. budgetUsed'[n] = budgetUsed[n]
      BY <2>4, <2>5 DEF DataTypes
    <3> QED BY <1>4, <1>5, <2>2, <2>5, <3>1
  <2>6. CASE p.merchantId = n
    <3> DEFINE S == PaidAt(n)
               parts == VoucherParts(n)
               after == VoucherParts(n)'
    <3>1. PaidAt(n)' = S \cup {t}
      BY <2>1, <2>2, <2>6 DEF PaymentSet, PaidAt
    <3>2. /\ IsFiniteSet(S) /\ t \notin S /\ IntegersOn(parts, S)
      BY <2>2, PaidFinite
    <3>3. after[t] = part
      BY <2>2, <3>1 DEF VoucherParts, PaymentSet
    <3>4. \A s \in S : after[s] = parts[s]
      BY <1>3, <3>1 DEF VoucherParts, SamePurchase
    <3> HIDE DEF S, parts, after, part
    <3>5. IntegersOn(after, S \cup {t})
      BY <2>3, <3>2, <3>3, <3>4 DEF IntegersOn
    <3>6. SumFunctionOnSet(after, S \cup {t}) = SumFunctionOnSet(after, S) + part
      BY <3>2, <3>3, <3>5, SumAdds
    <3>7. SumFunctionOnSet(after, S) = SumFunctionOnSet(parts, S)
      BY <3>2, <3>4, SumCongruent
    <3>8. budgetUsed'[n] = budgetUsed[n] + part
      BY <2>4, <2>6 DEF DataTypes
    <3> QED BY <1>2, <3>1, <3>6, <3>7, <3>8 DEF S, parts, after
  <2> QED BY <2>5, <2>6
<1> QED BY <1>6, <1>7, <1>8, <1>9, MoneyShapes

-----------------------------------------------------------------------------
(***************************************************************************)
(* The inductive invariant and what follows from it.                       *)
(***************************************************************************)
LEMMA InitMoneyInv == Init => MoneyInv
<1> SUFFICES ASSUME Init PROVE MoneyInv
  OBVIOUS
<1>1. IInv
  BY InitIInv
<1>2. Terms /\ QuotesWithinDebt
  BY FS_EmptySet DEF Init, Terms, RowsKnown, BonusWithinOrder, UsedStaysUsed, QuotesWithinDebt
<1>3. \A u \in Users : Debt(u) = 0
  BY FS_EmptySet DEF Init, Debt, HalfCentRefunds, RowsOf
<1>4. BooksBalance
  <2>1. ASSUME NEW u \in Users, NEW account \in WalletAccounts
        PROVE  Gained(u, account) = 0 /\ Stated(u, account) = 0
    <3>1. RowsOf(u) = {} /\ Stated(u, account) = 0
      BY SumEmpty DEF Init, RowsOf, Stated
    <3>2. \A m \in Merchants : Gain(u, account)[m] = 0
      <4>1. \A m \in Merchants : OpeningWallet[m][u][account] \in Int
        BY <2>1, PaymentAssumption, AccountTypes
      <4> QED BY <4>1 DEF Init, Gain
    <3> QED BY <3>1, <3>2, SumZero, PaymentAssumption DEF Gained
  <2> QED BY <1>3, <2>1 DEF BooksBalance, Explained, Debt
<1>5. DebtIsRounding
  <2>1. \A m \in Merchants, u \in Users :
          wallet[m][u].principal >= 0 /\ wallet[m][u].principal \in Int
    BY PaymentAssumption DEF Init, Wallet
  <2> QED BY <1>3, <2>1 DEF DebtIsRounding, Debt
<1>6. RefundsReclaimBonus /\ BudgetIsVouchersSettled
  <2>1. \A m \in Merchants : budgetUsed[m] = 0 /\ PaidAt(m) = {}
    BY DEF Init, PaidAt
  <2> QED BY <2>1, SumEmpty DEF Init, RefundsReclaimBonus, BudgetIsVouchersSettled
<1>7. VoucherSpentOnce
  <2>1. ASSUME NEW u \in Users, NEW v \in VoucherIds
        PROVE  Spending(u, v) = {} /\ Marked(u, v) = {}
    BY DEF Init, Spending, Marked
  <2> QED BY <2>1, FS_EmptySet DEF VoucherSpentOnce
<1> QED BY <1>1, <1>2, <1>4, <1>5, <1>6, <1>7 DEF MoneyInv, MoneyAccounted, VouchersAccounted

LEMMA NextMoneyInv == MoneyInv /\ [Next]_vars => MoneyInv'
<1> SUFFICES ASSUME MoneyInv, [Next]_vars PROVE MoneyInv'
  OBVIOUS
<1>1. DataTypes /\ LedgerPast /\ LocksHeld /\ Terms
  BY DEF MoneyInv, IInv
<1>2. IInv'
  BY NextIInv DEF MoneyInv
<1>3. BooksBalance' /\ RefundsReclaimBonus' /\ QuotesWithinDebt' /\ DebtIsRounding'
  BY <1>1, StepKeepsBooks, StepKeepsProportion, QuotesKeepDebt, StepKeepsDebt
  DEF MoneyInv, MoneyAccounted
<1>4. VoucherSpentOnce' /\ BudgetIsVouchersSettled'
  BY <1>1, StepKeepsVouchers, StepKeepsBudget DEF MoneyInv, VouchersAccounted
<1> QED BY <1>1, <1>2, <1>3, <1>4, StepKeepsTerms DEF MoneyInv, MoneyAccounted, VouchersAccounted

LEMMA MoneyInvariance == Spec => []MoneyInv
  BY InitMoneyInv, NextMoneyInv, PTL DEF Spec

\* To the cent, and up to one cent for each refund that ended in half a cent, the
\* ledger explains the wallets of every user whose quotes were applied in time,
\* refunds reclaim the bonus in proportion, and the principal is below zero by no more
\* than such refunds explain (refundPayment, applyQuoteToUser, ledgerService.grant), for any interleaving of
\* any requests and whichever way half cents are rounded.
THEOREM MoneyAccountedHolds == Spec => []MoneyAccounted
<1>1. MoneyInv => MoneyAccounted
  BY DEF MoneyInv
<1> QED BY <1>1, MoneyInvariance, PTL

\* A voucher pays for one order, and merchant.budgetUsed is the vouchers of the
\* settled payments.
THEOREM VouchersAccountedHolds == Spec => []VouchersAccounted
<1>1. MoneyInv => VouchersAccounted
  BY DEF MoneyInv
<1> QED BY <1>1, MoneyInvariance, PTL
=============================================================================
