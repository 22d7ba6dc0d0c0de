--------------------------- MODULE PaymentService ---------------------------
(***************************************************************************)
(* services/paymentService.ts over one database, with the two locks that   *)
(* serialise it: withTenantLock of http/createHttpRequestHandler.ts (the   *)
(* authenticated routes: verify and refund) and withKeyLock of the service *)
(* itself (also taken by the gateway callback, which is a pre-auth route   *)
(* and does not hold the tenant lock).                                     *)
(*                                                                         *)
(* A request is a process.  The only await inside a handler after it has   *)
(* started to change state is executeRevenueDecision: the wallet, the      *)
(* payment and the ledger are written before it, the idempotency record    *)
(* after it, and every other request may run in between.                   *)
(***************************************************************************)
EXTENDS Checkout, Sequences, FiniteSets, Functions

CONSTANTS
  Merchants,
  Users,
  NoUser,          \* a request that names no user
  Members,         \* the user records there are: pairs <<merchant, user>>
  Requests,        \* the HTTP requests of a run, each used once
  Calls,           \* what a request may ask: the inputs the environment has
  Keys,            \* idempotency keys
  NoKey,           \* a request without an Idempotency-Key
  FirstStore,      \* the alliance store whose wallet a merchant shares
  OpeningWallet,   \* balances before the run, in cents
  OpeningVouchers, \* voucher status before the run
  Grants,          \* what a revenue decision may put into a wallet, in cents
  MaxNow           \* bound on the clock, for TLC

Operations == {"verify", "callback", "refund"}

WalletAccounts == {"principal", "bonus", "silver"}

CallRecord ==
  [op : Operations, merchantId : Merchants, userId : Users \cup {NoUser}, txn : Nat,
   amount : Int, success : BOOLEAN, key : Keys \cup {NoKey}]

ASSUME PaymentAssumption ==
  /\ Calls \subseteq CallRecord
  /\ NoKey \notin Keys
  /\ NoUser \notin Users
  /\ IsFiniteSet(Merchants)
  /\ Members \subseteq Merchants \X Users
  /\ FirstStore \in [Merchants -> Merchants]
  /\ OpeningWallet \in [Merchants -> [Users -> Wallet]]
  /\ \A m \in Merchants, u \in Users : OpeningWallet[m][u].principal >= 0
  /\ OpeningVouchers \in [Merchants -> [Users -> [VoucherIds -> VoucherStatus]]]
  /\ Grants \subseteq [account : WalletAccounts, amount : Nat \ {0}]
  /\ MaxNow \in Nat

VARIABLES
  now,             \* the clock vouchers expire by
  wallet,          \* db.merchantUsers[m][u].wallet
  voucherStatus,   \* status of db.merchantUsers[m][u].vouchers
  walletShared,    \* db.allianceConfigs[m].walletShared
  budgetUsed,      \* db.merchants[m].budgetUsed
  payments,        \* db.paymentsByMerchant, by transaction id
  ledger,          \* db.ledger
  nextTxn,         \* the next id nextLedgerId returns
  idempotency,     \* the idempotency records of the three operations
  tenantQueue,     \* the promise chain of withTenantLock, holder first
  keyQueue,        \* the promise chain of withKeyLock, holder first
  phase,           \* where each request is
  call,            \* what each request asked
  answer,          \* what each request has been, or is about to be, answered
  outdated         \* history: payments settled by a quote that no longer held

serviceVars == <<now, walletShared>>
moneyVars == <<wallet, voucherStatus, budgetUsed, payments, ledger, nextTxn, outdated>>
lockVars == <<tenantQueue, keyQueue>>
requestVars == <<phase, call, answer>>
vars == <<serviceVars, moneyVars, idempotency, lockVars, requestVars>>

-----------------------------------------------------------------------------
(***************************************************************************)
(* Records.                                                                *)
(***************************************************************************)
PaymentStatus == {"PENDING_EXTERNAL", "PAID", "EXTERNAL_FAILED"}

Payment ==
  [merchantId : Merchants, userId : Users, status : PaymentStatus,
   orderAmount : Nat \ {0}, quote : QuoteRecord, refundedAmount : Nat]

SettlementTypes == {"PAYMENT", "PAYMENT_EXTERNAL_CONFIRM"}

\* paymentTxn is the payment a row is about; clawback is empty except in a REFUND
\* row.  amount is in cents (appendLedger rounds it); asked is a refund as it came,
\* which the answer carries and the row does not.
NoClawback == [reclaimTarget |-> 0, fromBonus |-> 0, fromPrincipal |-> 0]

LedgerRow ==
  [txnId : Nat, type : SettlementTypes \cup {"PAYMENT_PENDING", "REFUND", "POLICYOS_GRANT"},
   merchantId : Merchants, userId : Users, paymentTxn : Nat, amount : Nat, asked : Nat,
   account : WalletAccounts,
   clawback : [reclaimTarget : Nat, fromBonus : Nat, fromPrincipal : Nat]]

AnswerStatus == {"NONE", "ERROR", "PENDING_EXTERNAL", "PAID", "EXTERNAL_FAILED", "REFUNDED"}

Answer == [status : AnswerStatus, txn : Nat]

NoAnswer == [status |-> "NONE", txn |-> 0]
ErrorAnswer == [status |-> "ERROR", txn |-> 0]

NoCall == [op |-> "none"]

Phases == {"idle", "tenantLock", "keyLock", "deciding", "decided", "done"}

\* verify:m:key, callback:m:key and refund:m:key
IdempotencyKeys == Operations \X Merchants \X (Keys \cup {NoKey})

IdempotencyKey(c) == <<c.op, c.merchantId, c.key>>

\* verify:m:user, callback:m:txn and refund:m:txn
LockKey(c) == IF c.op = "verify" THEN <<c.op, c.merchantId, c.userId>>
                                 ELSE <<c.op, c.merchantId, c.txn>>

LockKeys == {LockKey(c) : c \in Calls}

TakesTenantLock(c) == c.op # "callback"

-----------------------------------------------------------------------------
(***************************************************************************)
(* Helpers of the handlers.                                                *)
(***************************************************************************)
\* resolveWalletScope: the record the checkout of merchant m works on.
WalletMerchant(m) == IF walletShared[m] THEN FirstStore[m] ELSE m

ScopedWallet(m, u) == wallet[WalletMerchant(m)][u]

GetQuote(m, u, orderAmount) ==
  BuildCheckoutQuotes(orderAmount, ScopedWallet(m, u),
                      voucherStatus[WalletMerchant(m)][u], now)

\* db.setPayment(merchantId, paymentTxnId, record)
WithPayment(t, p) ==
  [s \in DOMAIN payments \cup {t} |-> IF s = t THEN p ELSE payments[s]]

\* assertEntity(db.getPayment(merchantId, paymentTxnId))
PaymentFound(c) ==
  /\ c.txn \in DOMAIN payments
  /\ payments[c.txn].merchantId = c.merchantId

Row(t, type, m, u, paymentTxn, amount) ==
  [txnId |-> t, type |-> type, merchantId |-> m, userId |-> u,
   paymentTxn |-> paymentTxn, amount |-> amount, asked |-> 0, account |-> "principal",
   clawback |-> NoClawback]

\* Mutant: the voucher stays ACTIVE.
ApplyQuoteKeepsVoucher(m, u, quote) ==
  /\ wallet' = [wallet EXCEPT ![m][u] = quote.remainingWallet]
  /\ UNCHANGED voucherStatus

\* applyQuoteToUser: the wallet is overwritten by the one the quote computed,
\* whatever it holds by now; the voucher, when the user has it, is marked
\* whatever its status is.
ApplyQuoteToUser(m, u, quote) ==
  /\ wallet' = [wallet EXCEPT ![m][u] = quote.remainingWallet]
  /\ voucherStatus' =
       IF quote.voucher = NoVoucher \/ voucherStatus[m][u][quote.voucher] = "NONE"
       THEN voucherStatus
       ELSE [voucherStatus EXCEPT ![m][u][quote.voucher] = "USED"]

\* Mutant: the last settlement replaces what was used before it.
SpendBudgetOnce(m, quote) ==
  budgetUsed' = [budgetUsed EXCEPT ![m] = quote.deduction.voucher]

\* merchant.budgetUsed = roundMoney(merchant.budgetUsed + voucherDeduction)
SpendBudget(m, quote) ==
  budgetUsed' = [budgetUsed EXCEPT ![m] = @ + quote.deduction.voucher]

\* The quote is the one getQuote would have built on this wallet.
QuoteHolds(m, u, quote) ==
  /\ RemainingWallet(wallet[m][u], quote.deduction) = quote.remainingWallet
  /\ quote.voucher # NoVoucher => voucherStatus[m][u][quote.voucher] = "ACTIVE"

\* Mutant: the entry of the key lock is never taken out of the chain.
ReleaseTenantLockOnly(r) ==
  /\ phase' = [phase EXCEPT ![r] = "done"]
  /\ tenantQueue' =
       IF TakesTenantLock(call[r])
       THEN [tenantQueue EXCEPT ![call[r].merchantId] = Tail(@)]
       ELSE tenantQueue
  /\ UNCHANGED keyQueue

\* The promise resolves: both locks are released, in one turn of the event loop.
Release(r) ==
  /\ phase' = [phase EXCEPT ![r] = "done"]
  /\ keyQueue' = [keyQueue EXCEPT ![LockKey(call[r])] = Tail(@)]
  /\ tenantQueue' =
       IF TakesTenantLock(call[r])
       THEN [tenantQueue EXCEPT ![call[r].merchantId] = Tail(@)]
       ELSE tenantQueue

Reply(r, status, txn) == answer' = [answer EXCEPT ![r] = [status |-> status, txn |-> txn]]

\* The request holds its key lock and its handler is about to run.
Runs(r, op) ==
  /\ phase[r] = "keyLock"
  /\ Head(keyQueue[LockKey(call[r])]) = r
  /\ call[r].op = op

Cached(c) == idempotency[IdempotencyKey(c)]

\* The handler has passed its first two checks.
Fresh(c) == c.key # NoKey /\ Cached(c) = NoAnswer

-----------------------------------------------------------------------------
(***************************************************************************)
(* The conditions of each path through a handler, in the code's order.     *)
(***************************************************************************)
UserFound(m, u) == <<WalletMerchant(m), u>> \in Members

VerifyAccepted(c) ==
  /\ Fresh(c)
  /\ c.userId # NoUser
  /\ UserFound(c.merchantId, c.userId)
  /\ c.amount > 0

CallbackFinds(c, status) ==
  /\ Fresh(c)
  /\ PaymentFound(c)
  /\ payments[c.txn].status = status

SettledAgain(c) ==
  /\ CallbackFinds(c, "PAID")
  /\ UserFound(c.merchantId, payments[c.txn].userId)

\* Mutant: a late failure is believed after a success.
GatewayFailedAnyTime(c) ==
  /\ CallbackFinds(c, "PENDING_EXTERNAL") \/ CallbackFinds(c, "PAID")
  /\ ~c.success

GatewayFailed(c) == CallbackFinds(c, "PENDING_EXTERNAL") /\ ~c.success

\* Mutant: a success is applied whatever the payment's status is.
GatewayPaidAnyStatus(c, paid) ==
  /\ \E status \in PaymentStatus : CallbackFinds(c, status)
  /\ c.success
  /\ paid = payments[c.txn].quote.deduction.external
  /\ UserFound(c.merchantId, payments[c.txn].userId)

\* Mutant: only a settled payment is turned down, a failed one is not.
GatewayPaidAfterFailure(c, paid) ==
  /\ CallbackFinds(c, "PENDING_EXTERNAL") \/ CallbackFinds(c, "EXTERNAL_FAILED")
  /\ c.success
  /\ paid = payments[c.txn].quote.deduction.external
  /\ UserFound(c.merchantId, payments[c.txn].userId)

\* normalizedPaid, roundMoney(paidAmount), is what the quote left to pay.
GatewayPaid(c, paid) ==
  /\ CallbackFinds(c, "PENDING_EXTERNAL")
  /\ c.success
  /\ paid = payments[c.txn].quote.deduction.external
  /\ UserFound(c.merchantId, payments[c.txn].userId)

\* Mutant: the refunds already made are forgotten.
AvailableRefundOnce(p) == Cents(p.orderAmount)

\* availableRefund: the order as it came, less what was refunded, rounded.
AvailableRefund(p) == Cents(p.orderAmount - Cent * p.refundedAmount)

RefundAccepted(c) ==
  /\ Fresh(c)
  /\ PaymentFound(c)
  /\ payments[c.txn].status = "PAID"
  /\ c.userId \in {NoUser, payments[c.txn].userId}
  /\ UserFound(c.merchantId, payments[c.txn].userId)
  /\ c.amount > 0

\* The request passes its checks, whichever way half cents are rounded in them.
Accepted(c) ==
  \/ c.op = "verify" /\ VerifyAccepted(c)
  \/ /\ c.op = "callback"
     /\ \/ SettledAgain(c) \/ GatewayFailed(c)
        \/ \A paid \in Cents(c.amount) : GatewayPaid(c, paid)
  \/ /\ c.op = "refund" /\ RefundAccepted(c)
     /\ \A available \in AvailableRefund(payments[c.txn]) : c.amount <= Cent * available

-----------------------------------------------------------------------------
(***************************************************************************)
(* A request arrives, waits for the tenant lock, then for the key lock.    *)
(***************************************************************************)
Arrive(r) ==
  /\ phase[r] = "idle"
  /\ \E c \in Calls :
       /\ call' = [call EXCEPT ![r] = c]
       /\ IF TakesTenantLock(c)
          THEN /\ tenantQueue' = [tenantQueue EXCEPT ![c.merchantId] = Append(@, r)]
               /\ phase' = [phase EXCEPT ![r] = "tenantLock"]
               /\ UNCHANGED keyQueue
          ELSE /\ keyQueue' = [keyQueue EXCEPT ![LockKey(c)] = Append(@, r)]
               /\ phase' = [phase EXCEPT ![r] = "keyLock"]
               /\ UNCHANGED tenantQueue
  /\ UNCHANGED <<serviceVars, moneyVars, idempotency, answer>>

EnterService(r) ==
  /\ phase[r] = "tenantLock"
  /\ Head(tenantQueue[call[r].merchantId]) = r
  /\ phase' = [phase EXCEPT ![r] = "keyLock"]
  /\ keyQueue' = [keyQueue EXCEPT ![LockKey(call[r])] = Append(@, r)]
  /\ UNCHANGED <<serviceVars, moneyVars, idempotency, tenantQueue, call, answer>>

\* if (cached) return cached
Replay(r) ==
  /\ \E op \in Operations : Runs(r, op)
  /\ call[r].key # NoKey
  /\ Cached(call[r]) # NoAnswer
  /\ answer' = [answer EXCEPT ![r] = Cached(call[r])]
  /\ Release(r)
  /\ UNCHANGED <<serviceVars, moneyVars, idempotency, call>>

\* A check throws: nothing has been written yet.
Reject(r) ==
  /\ \E op \in Operations : Runs(r, op)
  /\ call[r].key # NoKey => Cached(call[r]) = NoAnswer
  /\ ~Accepted(call[r])
  /\ answer' = [answer EXCEPT ![r] = ErrorAnswer]
  /\ Release(r)
  /\ UNCHANGED <<serviceVars, moneyVars, idempotency, call>>

-----------------------------------------------------------------------------
(***************************************************************************)
(* verifyPayment                                                           *)
(***************************************************************************)
\* Something is left to pay: the wallet and the voucher are only quoted.
VerifyPending(r) ==
  LET c == call[r]
      t == nextTxn
  IN  /\ Runs(r, "verify")
      /\ VerifyAccepted(c)
      /\ \E quote \in GetQuote(c.merchantId, c.userId, c.amount), amount \in Cents(c.amount) :
           /\ quote.deduction.external > 0
           /\ payments' = WithPayment(t,
                [merchantId |-> c.merchantId, userId |-> c.userId,
                 status |-> "PENDING_EXTERNAL", orderAmount |-> c.amount,
                 quote |-> quote, refundedAmount |-> 0])
           /\ ledger' = ledger \cup
                {Row(t + 1, "PAYMENT_PENDING", c.merchantId, c.userId, t, amount)}
           /\ nextTxn' = t + 2
           /\ Reply(r, "PENDING_EXTERNAL", t)
           /\ idempotency' = [idempotency EXCEPT ![IdempotencyKey(c)] = answer'[r]]
           /\ Release(r)
      /\ UNCHANGED <<serviceVars, wallet, voucherStatus, budgetUsed, outdated, call>>

\* The wallet and the voucher cover the order.
VerifyInternal(r) ==
  LET c == call[r]
      t == nextTxn
  IN  /\ Runs(r, "verify")
      /\ VerifyAccepted(c)
      /\ \E quote \in GetQuote(c.merchantId, c.userId, c.amount), amount \in Cents(c.amount) :
           /\ quote.deduction.external = 0
           /\ ApplyQuoteToUser(WalletMerchant(c.merchantId), c.userId, quote)
           /\ ledger' = ledger \cup
                {Row(t, "PAYMENT", c.merchantId, c.userId, t, amount)}
           /\ payments' = WithPayment(t,
                [merchantId |-> c.merchantId, userId |-> c.userId,
                 status |-> "PAID", orderAmount |-> c.amount,
                 quote |-> quote, refundedAmount |-> 0])
           /\ nextTxn' = t + 1
           /\ SpendBudget(c.merchantId, quote)
           /\ Reply(r, "PAID", t)
           /\ phase' = [phase EXCEPT ![r] = "deciding"]
      /\ UNCHANGED <<serviceVars, idempotency, lockVars, call, outdated>>

-----------------------------------------------------------------------------
(***************************************************************************)
(* confirmExternalPayment                                                  *)
(***************************************************************************)
ConfirmSettledAgain(r) ==
  LET c == call[r]
  IN  /\ Runs(r, "callback")
      /\ SettledAgain(c)
      /\ Reply(r, "PAID", c.txn)
      /\ idempotency' = [idempotency EXCEPT ![IdempotencyKey(c)] = answer'[r]]
      /\ Release(r)
      /\ UNCHANGED <<serviceVars, moneyVars, call>>

ConfirmFailure(r) ==
  LET c == call[r]
  IN  /\ Runs(r, "callback")
      /\ GatewayFailed(c)
      /\ payments' = [payments EXCEPT ![c.txn].status = "EXTERNAL_FAILED"]
      /\ Reply(r, "EXTERNAL_FAILED", c.txn)
      /\ idempotency' = [idempotency EXCEPT ![IdempotencyKey(c)] = answer'[r]]
      /\ Release(r)
      /\ UNCHANGED <<serviceVars, wallet, voucherStatus, budgetUsed, ledger, nextTxn,
                     outdated, call>>

\* The quote of the verify call is applied as it was then.
ConfirmSuccess(r) ==
  LET c == call[r]
      p == payments[c.txn]
      m == WalletMerchant(c.merchantId)
      t == nextTxn
  IN  /\ Runs(r, "callback")
      /\ \E paid \in Cents(c.amount) :
           /\ GatewayPaid(c, paid)
           /\ ledger' = ledger \cup
                {Row(t, "PAYMENT_EXTERNAL_CONFIRM", c.merchantId, p.userId, c.txn, paid)}
      /\ ApplyQuoteToUser(m, p.userId, p.quote)
      /\ outdated' = IF QuoteHolds(m, p.userId, p.quote) THEN outdated
                     ELSE outdated \cup {c.txn}
      /\ payments' = [payments EXCEPT ![c.txn].status = "PAID"]
      /\ nextTxn' = t + 1
      /\ SpendBudget(c.merchantId, p.quote)
      /\ Reply(r, "PAID", c.txn)
      /\ phase' = [phase EXCEPT ![r] = "deciding"]
      /\ UNCHANGED <<serviceVars, idempotency, lockVars, call>>

-----------------------------------------------------------------------------
(***************************************************************************)
(* refundPayment                                                           *)
(***************************************************************************)
RefundPayment(r) ==
  LET c == call[r]
      p == payments[c.txn]
      m == WalletMerchant(c.merchantId)
      w == wallet[m][p.userId]
      t == nextTxn
  IN  /\ Runs(r, "refund")
      /\ RefundAccepted(c)
      /\ \E available \in AvailableRefund(p) : c.amount <= Cent * available
      /\ \E consumed \in BonusConsumed(p.quote.deduction.bonus, c.amount, p.orderAmount) :
           \E clawback \in Clawbacks(w, c.amount, consumed), amount \in Cents(c.amount) :
             /\ \E next \in NextWallets(w, c.amount, consumed, clawback) :
                  wallet' = [wallet EXCEPT ![m][p.userId] = next]
             /\ ledger' = ledger \cup
                  {[Row(t, "REFUND", c.merchantId, p.userId, c.txn, amount)
                     EXCEPT !.clawback = clawback, !.asked = c.amount]}
      /\ \E refunded \in Cents(Cent * p.refundedAmount + c.amount) :
           payments' = [payments EXCEPT ![c.txn].refundedAmount = refunded]
      /\ nextTxn' = t + 1
      /\ Reply(r, "REFUNDED", t)
      /\ idempotency' = [idempotency EXCEPT ![IdempotencyKey(c)] = answer'[r]]
      /\ Release(r)
      /\ UNCHANGED <<serviceVars, voucherStatus, budgetUsed, outdated, call>>

-----------------------------------------------------------------------------
(***************************************************************************)
(* executeRevenueDecision, as its caller sees it: it may put a grant into  *)
(* the payer's wallet at the paying merchant (ledgerService.grant; the     *)
(* wallet of the alliance scope plays no part), or do nothing, or fail,    *)
(* which is swallowed.                                                     *)
(***************************************************************************)
Payer(r) ==
  IF call[r].op = "verify" THEN call[r].userId ELSE payments[call[r].txn].userId

Grant(m, u, g) ==
  /\ wallet' = [wallet EXCEPT ![m][u][g.account] = @ + g.amount]
  /\ ledger' = ledger \cup
       {[Row(nextTxn, "POLICYOS_GRANT", m, u, 0, g.amount) EXCEPT !.account = g.account]}
  /\ nextTxn' = nextTxn + 1
  /\ UNCHANGED <<voucherStatus, budgetUsed, payments, outdated>>

RevenueDecision(r) ==
  /\ phase[r] = "deciding"
  /\ \/ UNCHANGED moneyVars
     \/ /\ <<call[r].merchantId, Payer(r)>> \in Members
        /\ \E g \in Grants : Grant(call[r].merchantId, Payer(r), g)
  /\ phase' = [phase EXCEPT ![r] = "decided"]
  /\ UNCHANGED <<serviceVars, idempotency, lockVars, call, answer>>

\* Mutant: the answer is given before, and without, its idempotency record.
FinishUnrecorded(r) ==
  /\ phase[r] = "decided"
  /\ Release(r)
  /\ UNCHANGED <<serviceVars, moneyVars, idempotency, call, answer>>

\* The tail of verifyPayment and confirmExternalPayment, after the await.
Finish(r) ==
  /\ phase[r] = "decided"
  /\ idempotency' = [idempotency EXCEPT ![IdempotencyKey(call[r])] = answer[r]]
  /\ Release(r)
  /\ UNCHANGED <<serviceVars, moneyVars, call, answer>>

-----------------------------------------------------------------------------
(***************************************************************************)
(* The rest of the program, as far as the payments see it.                 *)
(***************************************************************************)
\* setAllianceConfig, an authenticated request: it runs alone in its tenant.  The
\* first store's own setting changes nothing: the shared wallet is its own.
SetWalletShared(m) ==
  /\ FirstStore[m] # m
  /\ tenantQueue[m] = <<>>
  /\ walletShared' = [walletShared EXCEPT ![m] = ~@]
  /\ UNCHANGED <<now, moneyVars, idempotency, lockVars, requestVars>>

Tick ==
  /\ now < MaxNow
  /\ now' = now + 1
  /\ UNCHANGED <<walletShared, moneyVars, idempotency, lockVars, requestVars>>

-----------------------------------------------------------------------------
Init ==
  /\ now = 0
  /\ wallet = OpeningWallet
  /\ voucherStatus = OpeningVouchers
  /\ walletShared = [m \in Merchants |-> FALSE]
  /\ budgetUsed = [m \in Merchants |-> 0]
  /\ payments = [t \in {} |-> NoCall]
  /\ ledger = {}
  /\ nextTxn = 1
  /\ idempotency = [k \in IdempotencyKeys |-> NoAnswer]
  /\ tenantQueue = [m \in Merchants |-> <<>>]
  /\ keyQueue = [k \in LockKeys |-> <<>>]
  /\ phase = [r \in Requests |-> "idle"]
  /\ call = [r \in Requests |-> NoCall]
  /\ answer = [r \in Requests |-> NoAnswer]
  /\ outdated = {}

\* One turn of the event loop spent on request r once it has arrived.
Serve(r) ==
  \/ EnterService(r)
  \/ Replay(r)
  \/ Reject(r)
  \/ VerifyPending(r)
  \/ VerifyInternal(r)
  \/ ConfirmSettledAgain(r)
  \/ ConfirmFailure(r)
  \/ ConfirmSuccess(r)
  \/ RefundPayment(r)
  \/ RevenueDecision(r)
  \/ Finish(r)

\* Every request has been answered: the run is over.
Answered == /\ \A r \in Requests : phase[r] = "done"
            /\ UNCHANGED vars

Next ==
  \/ \E r \in Requests : Arrive(r) \/ Serve(r)
  \/ \E m \in Merchants : SetWalletShared(m)
  \/ Tick
  \/ Answered

Spec == Init /\ [][Next]_vars

\* A promise that is due is eventually run by the event loop; nothing makes a
\* request arrive, the clock advance or an owner change the alliance.
FairSpec == Spec /\ \A r \in Requests : WF_vars(Serve(r))

-----------------------------------------------------------------------------
(***************************************************************************)
(* Properties.                                                             *)
(***************************************************************************)
\* The state is what the handlers expect it to be; in particular no bonus, silver,
\* refunded amount or budget ever goes below zero.
TypeOK ==
  /\ now \in Nat
  /\ wallet \in [Merchants -> [Users -> Wallet]]
  /\ voucherStatus \in [Merchants -> [Users -> [VoucherIds -> VoucherStatus]]]
  /\ walletShared \in [Merchants -> BOOLEAN]
  /\ budgetUsed \in [Merchants -> Nat]
  /\ nextTxn \in Nat \ {0}
  /\ DOMAIN payments \subseteq 1 .. nextTxn - 1
  /\ payments \in [DOMAIN payments -> Payment]
  /\ ledger \subseteq LedgerRow
  /\ idempotency \in [IdempotencyKeys -> Answer]
  /\ tenantQueue \in [Merchants -> Seq(Requests)]
  /\ keyQueue \in [LockKeys -> Seq(Requests)]
  /\ phase \in [Requests -> Phases]
  /\ call \in [Requests -> Calls \cup {NoCall}]
  /\ answer \in [Requests -> Answer]
  /\ outdated \subseteq DOMAIN payments

Settlements(t) == {e \in ledger : e.type \in SettlementTypes /\ e.paymentTxn = t}

\* Settlement happens once: a payment is PAID exactly when one ledger row settles
\* it, however callbacks are repeated, reordered or raced by a refund.
SettledOnce ==
  \A t \in DOMAIN payments :
    /\ payments[t].status = "PAID" <=> Settlements(t) # {}
    /\ \A e, f \in Settlements(t) : e = f

\* A payment is refunded for at most what was ordered, rounded to the cent, and
\* only once it is PAID, whatever refunds are sent together or again.
RefundsWithinOrder ==
  \A t \in DOMAIN payments :
    /\ payments[t].refundedAmount <= InCents(payments[t].orderAmount)
    /\ payments[t].refundedAmount > 0 => payments[t].status = "PAID"

\* Two verify (or two refund) requests of a merchant with one idempotency key get
\* one answer, errors apart: the second never executes again, although the key
\* is recorded only after the revenue decision has been awaited.
OneAnswerPerKey ==
  \A r, s \in Requests :
    /\ phase[r] = "done" /\ phase[s] = "done"
    /\ TakesTenantLock(call[r]) /\ TakesTenantLock(call[s])
    /\ IdempotencyKey(call[r]) = IdempotencyKey(call[s])
    /\ answer[r] # ErrorAnswer /\ answer[s] # ErrorAnswer
    => answer[r] = answer[s]

AnswerHolds(a) ==
  /\ a.status \in {"PAID", "EXTERNAL_FAILED"} =>
       a.txn \in DOMAIN payments /\ payments[a.txn].status = a.status
  /\ a.status = "PENDING_EXTERNAL" => a.txn \in DOMAIN payments
  /\ a.status = "REFUNDED" => \E e \in ledger : e.txnId = a.txn /\ e.type = "REFUND"

\* What a request was told is so: a payment answered PAID is settled, one answered
\* EXTERNAL_FAILED is failed for good, and an answered refund is in the ledger,
\* also when the answer is a replayed one.
AnswersHold == \A r \in Requests : AnswerHolds(answer[r])

\* What the ledger says a row took from (< 0) or put into (> 0) an account of
\* the user's wallets.
Effect(e, account) ==
  CASE e.type \in SettlementTypes -> -payments[e.paymentTxn].quote.deduction[account]
    [] e.type = "REFUND" /\ account = "principal" -> e.amount - e.clawback.fromPrincipal
    [] e.type = "REFUND" /\ account = "bonus" -> -e.clawback.fromBonus
    [] e.type = "POLICYOS_GRANT" /\ account = e.account -> e.amount
    [] OTHER -> 0

RowsOf(u) == {e \in ledger : e.userId = u}

\* What user u has gained since the run began, by merchant, and what the rows say.
Gain(u, account) ==
  [m \in Merchants |-> wallet[m][u][account] - OpeningWallet[m][u][account]]

Effects(u, account) == [e \in RowsOf(u) |-> Effect(e, account)]

Stated(u, account) == SumFunctionOnSet(Effects(u, account), RowsOf(u))

Gained(u, account) == SumFunctionOnSet(Gain(u, account), Merchants)

\* The refunds of u that ended in half a cent: wallet, payment and row round each
\* of them on their own.
HalfCentRefunds(u) == {e \in RowsOf(u) : e.type = "REFUND" /\ Halfway(e.asked)}

Explained(u) ==
  \A account \in WalletAccounts :
    /\ Gained(u, account) - Stated(u, account) <= Cardinality(HalfCentRefunds(u))
    /\ Stated(u, account) - Gained(u, account) <= Cardinality(HalfCentRefunds(u))

\* The ledger explains every wallet: opening balance, settlements, refunds and
\* grants add up to what a user has, to the cent unless refunds ended in half a
\* cent, and then up to a cent for each of those.
LedgerExplainsWallets == \A u \in Users : Explained(u)

\* It does so for every user none of whose payments was settled by an outdated
\* quote: nothing else in the service loses or makes money, under any
\* interleaving of payments, refunds, grants and changes of the wallet scope.
BooksBalance ==
  \A u \in Users :
    (\A t \in outdated : payments[t].userId # u) => Explained(u)

\* The settled payments of u that spent voucher v, outdated settlements apart, and
\* the records of u in which it has been marked.
Spending(u, v) ==
  {t \in DOMAIN payments \ outdated : /\ payments[t].userId = u
                                      /\ payments[t].status = "PAID"
                                      /\ payments[t].quote.voucher = v}

Marked(u, v) ==
  {m \in Merchants : voucherStatus[m][u][v] = "USED" /\ OpeningVouchers[m][u][v] # "USED"}

\* Outdated settlements apart, a voucher pays for one order: no more payments
\* spent it than there are records of the user in which it is used.
VoucherSpentOnce ==
  \A u \in Users, v \in VoucherIds : Cardinality(Spending(u, v)) <= Cardinality(Marked(u, v))

\* The settled payments of merchant m.
PaidAt(m) ==
  {t \in DOMAIN payments : payments[t].merchantId = m /\ payments[t].status = "PAID"}

\* The budget a merchant has used is the vouchers of its settled payments.
BudgetIsVouchersSettled ==
  \A m \in Merchants :
    budgetUsed[m] =
      SumFunctionOnSet([t \in PaidAt(m) |-> payments[t].quote.deduction.voucher], PaidAt(m))

Refunds(t) == {e \in ledger : e.type = "REFUND" /\ e.paymentTxn = t}

Refunded(t) == SumFunctionOnSet([e \in Refunds(t) |-> e.amount], Refunds(t))

HalfCentRefundsOf(t) == {e \in Refunds(t) : Halfway(e.asked)}

\* What the clients asked for, as it came.
Asked(t) == SumFunctionOnSet([e \in Refunds(t) |-> e.asked], Refunds(t))

Reclaimed(t) ==
  SumFunctionOnSet([e \in Refunds(t) |-> e.clawback.reclaimTarget], Refunds(t))

\* Partial refunds together reclaim the bonus in proportion to what is refunded,
\* up to half a cent of rounding for each of them and half a cent for the order,
\* and the payment's refundedAmount is the sum of its refund rows, up to a cent for
\* each refund that ended in half a cent.
RefundsReclaimBonus ==
  \A t \in DOMAIN payments :
    LET p == payments[t]
        drift == 2 * (p.orderAmount * Reclaimed(t) - p.quote.deduction.bonus * Asked(t))
        slack == p.orderAmount * Cardinality(Refunds(t))
    IN  /\ p.refundedAmount - Refunded(t) <= Cardinality(HalfCentRefundsOf(t))
        /\ Refunded(t) - p.refundedAmount <= Cardinality(HalfCentRefundsOf(t))
        /\ drift <= slack /\ -drift <= slack + Asked(t)

\* The principal is never below zero by more than a cent for each refund of the
\* user that ended in half a cent, whatever quotes and refunds are applied to it
\* in whatever order.
DebtIsRounding ==
  \A m \in Merchants, u \in Users :
    wallet[m][u].principal + Cardinality(HalfCentRefunds(u)) >= 0

\* Money is accounted for: wallets by the ledger, refunds by the bonus they
\* reclaim, and what is missing by half cents.
MoneyAccounted == BooksBalance /\ RefundsReclaimBonus /\ DebtIsRounding

\* Vouchers are accounted for: each is spent once, and the merchant's budget is
\* charged for those that were.
VouchersAccounted == VoucherSpentOnce /\ BudgetIsVouchersSettled

\* Every request that arrives is answered: no order of arrivals, failed check or
\* awaited decision leaves a lock taken or a queue waiting on another.
EveryRequestAnswered ==
  \A r \in Requests : (phase[r] # "idle") ~> (phase[r] = "done")

\* The refinement mapping: what PaymentLifecycle sees of the payments.
Book ==
  [t \in DOMAIN payments |->
     [status |-> payments[t].status, amount |-> InCents(payments[t].orderAmount),
      refunded |-> payments[t].refundedAmount]]

Lifecycle == INSTANCE PaymentLifecycle WITH book <- Book

\* The service implements PaymentLifecycle: no interleaving of requests opens a
\* payment twice, settles a failed one, or refunds beyond the order in whole cents.
LifecycleSpec == Lifecycle!Spec

=============================================================================
