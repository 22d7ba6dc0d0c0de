------------------------------ MODULE Checkout ------------------------------
(***************************************************************************)
(* The pure money arithmetic of the checkout: how an order is split over a *)
(* voucher, the three wallet accounts and an external payment              *)
(* (core/smartCheckout.ts), and how a refund is put back into the wallet   *)
(* (core/clawback.ts and the ratio computed by refundPayment).             *)
(*                                                                         *)
(* What a client sends (an order, a refund, what the gateway was paid) is  *)
(* any number and is kept as it came; what roundMoney returns is a whole   *)
(* number of cents.  The model has both: an amount as it came is an integer *)
(* of a unit of which Cent make a cent, a rounded one an integer of cents. *)
(* roundMoney works on binary fractions, so an amount halfway between two  *)
(* cents may go either way: rounding is a choice among the nearest.        *)
(***************************************************************************)
EXTENDS Integers

CONSTANTS
  Cent,            \* units in a cent
  VoucherIds,      \* positions of a user's vouchers array, a set of naturals >= 1
  VoucherBook      \* the value, minSpend and expiresAt of each voucher

\* Stands for selectedVoucher = null; positions start at 1.
NoVoucher == 0

ASSUME CentAssumption == Cent \in Nat \ {0}

ASSUME VoucherAssumption ==
  /\ VoucherIds \subseteq Nat \ {NoVoucher}
  /\ VoucherBook \in [VoucherIds -> [value : Nat, minSpend : Nat, expiresAt : Nat]]

Lesser(a, b) == IF a <= b THEN a ELSE b

(***************************************************************************)
(* Rounding: x/y to the nearest whole number, a half up, and all the       *)
(* nearest ones; roundMoney of an amount is the case y = Cent.             *)
(***************************************************************************)
Rounded(x, y) == (2 * x + y) \div (2 * y)

Nearest(x, y) == {n \in {Rounded(x, y) - 1, Rounded(x, y)} : 2 * (x - y * n) <= y}

Cents(x) == Nearest(x, Cent)

\* The most that roundMoney can make of x.
InCents(x) == Rounded(x, Cent)

\* x ends in exactly half a cent.
Halfway(x) == Cents(x) # {InCents(x)}

(***************************************************************************)
(* A wallet and what a quote takes from each source, in cents.  A refund   *)
(* of half a cent may leave the principal a cent below zero, and the next  *)
(* quote then takes less than nothing from it.                             *)
(***************************************************************************)
Wallet == [principal : Int, bonus : Nat, silver : Nat]

VoucherStatus == {"NONE", "ACTIVE", "USED"}

Deduction ==
  [voucher : Nat, bonus : Nat, principal : Int, silver : Nat, external : Nat]

QuoteRecord ==
  [voucher : VoucherIds \cup {NoVoucher},
   deduction : Deduction,
   remainingWallet : Wallet]

-----------------------------------------------------------------------------
(***************************************************************************)
(* Voucher choice: active, not expired, minimum spend reached; the one     *)
(* that expires first, then the most valuable, then the first in the array *)
(* (Array.prototype.sort is stable).                                       *)
(***************************************************************************)
ActiveVouchers(orderAmount, status, now) ==
  {v \in VoucherIds : /\ status[v] = "ACTIVE"
                      /\ VoucherBook[v].expiresAt > now
                      /\ orderAmount >= VoucherBook[v].minSpend}

SortsBefore(v, w) ==
  LET a == VoucherBook[v]
      b == VoucherBook[w]
  IN  \/ a.expiresAt < b.expiresAt
      \/ a.expiresAt = b.expiresAt /\ a.value > b.value
      \/ a.expiresAt = b.expiresAt /\ a.value = b.value /\ v < w

\* activeVouchers[0] ?? null: nothing sorts before the first one.  VoucherIds is
\* finite, so there is one unless no voucher is active.
SelectedVoucher(orderAmount, status, now) ==
  LET active == ActiveVouchers(orderAmount, status, now)
      first == {v \in active : \A w \in active \ {v} : SortsBefore(v, w)}
  IN  IF first = {} THEN NoVoucher ELSE CHOOSE v \in first : TRUE

(***************************************************************************)
(* The voucher is worth its value as it came; what it leaves of the order  *)
(* is rounded, and bonus, principal and silver are taken from it in that   *)
(* order.  What then remains is payable externally.                        *)
(***************************************************************************)
Take(remain, balance) == IF remain > 0 THEN Lesser(remain, balance) ELSE 0

Deduct(voucher, remain, wallet) ==
  LET bonus == Take(remain, wallet.bonus)
      afterBonus == remain - bonus
      principal == Take(afterBonus, wallet.principal)
      afterPrincipal == afterBonus - principal
      silver == Take(afterPrincipal, wallet.silver)
  IN  [voucher |-> voucher, bonus |-> bonus, principal |-> principal,
       silver |-> silver, external |-> afterPrincipal - silver]

RemainingWallet(wallet, deduction) ==
  [principal |-> wallet.principal - deduction.principal,
   bonus     |-> wallet.bonus - deduction.bonus,
   silver    |-> wallet.silver - deduction.silver]

QuoteOf(v, deduction, wallet) ==
  [voucher |-> v, deduction |-> deduction,
   remainingWallet |-> RemainingWallet(wallet, deduction)]

\* The quotes there may be, one for each way the two roundings go.
BuildCheckoutQuotes(orderAmount, wallet, status, now) ==
  LET v == SelectedVoucher(orderAmount, status, now)
      taken == IF v = NoVoucher THEN 0 ELSE Lesser(orderAmount, VoucherBook[v].value)
  IN  {QuoteOf(v, Deduct(voucher, remain, wallet), wallet) :
         voucher \in Cents(taken), remain \in Cents(orderAmount - taken)}

-----------------------------------------------------------------------------
(***************************************************************************)
(* Refunds.  The refund is an amount as it came; the bonus it gives back,  *)
(* what is written of the clawback and the new balances are rounded.       *)
(***************************************************************************)
\* Mutant: every refund reclaims the whole bonus.
WholeBonus(bonus, refundAmount, orderAmount) == {bonus}

\* roundMoney(payment.deduction.bonus * ratio)
BonusConsumed(bonus, refundAmount, orderAmount) ==
  Nearest(bonus * refundAmount, orderAmount)

ReclaimTarget(refundAmount, bonusConsumed) == Lesser(refundAmount, Cent * bonusConsumed)

\* Mutant: the reclaimed bonus is not limited by the balance.
ClawbackFromBonusOverdrawn(wallet, refundAmount, bonusConsumed) ==
  ReclaimTarget(refundAmount, bonusConsumed)

ClawbackFromBonus(wallet, refundAmount, bonusConsumed) ==
  Lesser(Cent * wallet.bonus, ReclaimTarget(refundAmount, bonusConsumed))

Clawbacks(wallet, refundAmount, bonusConsumed) ==
  LET target == ReclaimTarget(refundAmount, bonusConsumed)
      taken == ClawbackFromBonus(wallet, refundAmount, bonusConsumed)
  IN  {[reclaimTarget |-> reclaimed, fromBonus |-> fromBonus, fromPrincipal |-> fromPrincipal] :
         reclaimed \in Cents(target), fromBonus \in Cents(taken),
         fromPrincipal \in Cents(target - taken)}

\* Mutant: what the bonus could not give back is not taken from the principal.
NextWalletsInFull(wallet, refundAmount, bonusConsumed, clawback) ==
  {[principal |-> principal, bonus |-> bonus, silver |-> wallet.silver] :
     principal \in Cents(Cent * wallet.principal + refundAmount),
     bonus \in Cents(Cent * wallet.bonus - ClawbackFromBonus(wallet, refundAmount, bonusConsumed))}

NextWallets(wallet, refundAmount, bonusConsumed, clawback) ==
  {[principal |-> principal, bonus |-> bonus, silver |-> wallet.silver] :
     principal \in Cents(Cent * (wallet.principal - clawback.fromPrincipal) + refundAmount),
     bonus \in Cents(Cent * wallet.bonus - ClawbackFromBonus(wallet, refundAmount, bonusConsumed))}
=============================================================================
