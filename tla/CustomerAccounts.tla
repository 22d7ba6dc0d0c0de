-------------------------- MODULE CustomerAccounts --------------------------
(***************************************************************************)
(* The accounts of customers: login with the identity of a provider and a  *)
(* phone, the decision that runs at the door, payments and invoices, the   *)
(* owner's deletion of a customer's data, the customer's cancellation, and *)
(* the copy of a customer to the stores of an alliance.  A new account has *)
(* an identifier computed from the phone, so a phone is its own user here. *)
(***************************************************************************)
EXTENDS PhoneBook, Integers, Sequences, FiniteSets

CONSTANTS NoUser,              \* a binding of nobody
          WeChat, Alipay,      \* the identities of the two providers
          ProviderPhone,       \* ProviderPhone[i]: the phones (none or one) a provider tells of i
          MaxLogins, MaxPayments, MaxOps

Identities == WeChat \cup Alipay
buildDeletedAlias(u) == <<"DELETED", u>>

\* What the values of the constants satisfy; an alias is no phone of anybody.
ASSUME CustomerAssumption ==
    /\ ProviderPhone \in [Identities -> SUBSET Phones]
    /\ {MaxLogins, MaxPayments, MaxOps} \subseteq Nat
    /\ \A u \in Phones : buildDeletedAlias(u) \notin Phones

VARIABLES
    users,           \* users[m]: the accounts of store m
    profile,         \* profile[m][u]: [named, deleted]
    identityOf,      \* identityOf[m][i]: user an identity is bound to, or NoUser
    phoneOf,         \* phoneOf[m][p]: user a phone is bound to, or NoUser
    rows,            \* payments, invoices, ledger and audit rows: [kind, store, user, about, status],
                     \* with two histories: home (the user had an account at the store when the
                     \* row was written) and wallet (the store whose account was charged)
    logins,          \* logins under way and answered, each with a token: [store, user, created, outcome]
    alliance,        \* alliance[m]: the stores in the configuration of m, the first, walletShared
    owed,            \* owed[m][u]: calls of u carried out at m whose audit row is still to be written
    cancelled,       \* cancelled[m][u]: times user u cancelled at m
    ops              \* bound
cvars == <<users, profile, identityOf, phoneOf, rows, logins, alliance, owed, cancelled, ops>>

CustomerInit ==
    /\ users = [m \in Stores |-> {}]
    /\ profile = [m \in Stores |-> [u \in Phones |-> [named |-> FALSE, deleted |-> FALSE]]]
    /\ identityOf = [m \in Stores |-> [i \in Identities |-> NoUser]]
    /\ phoneOf = [m \in Stores |-> [p \in Phones |-> NoUser]]
    /\ rows = <<>> /\ logins = <<>> /\ ops = 0
    /\ alliance = [m \in Stores |-> [stores |-> {m}, first |-> m, shared |-> FALSE]]
    /\ owed = [m \in Stores |-> [u \in Phones |-> 0]]
    /\ cancelled = [m \in Stores |-> [u \in Phones |-> 0]]

(* The account a binding leads to, if that account still is there.         *)
Live(m, u) == {u} \cap users[m]

createCustomerProfile(name) == [named |-> name, deleted |-> FALSE]

(* New is whoever had no binding, also when the phone leads to an account. *)
bindCustomerPhoneIdentityNewMutant(m, i, p, name) ==
    LET byIdentity == Live(m, identityOf[m][i])
        byPhone == Live(m, phoneOf[m][p])
        user == CHOOSE u \in IF byIdentity \cup byPhone = {} THEN {p} ELSE byIdentity \cup byPhone : TRUE
        created == identityOf[m][i] = NoUser
    IN  /\ Cardinality(byIdentity \cup byPhone) <= 1
        /\ users' = [users EXCEPT ![m] = @ \cup {user}]
        /\ profile' = [profile EXCEPT ![m][user] =
               IF created THEN createCustomerProfile(name) ELSE [@ EXCEPT !.named = @ \/ name]]
        /\ identityOf' = [identityOf EXCEPT ![m][i] = user]
        /\ phoneOf' = [phoneOf EXCEPT ![m][p] = user]
        /\ logins' = Append(logins, [store |-> m, user |-> user, created |-> created, outcome |-> "PENDING"])
(* bindCustomerPhoneIdentity, run without waiting once the provider has    *)
(* verified the code: refused (409) when identity and phone lead to two    *)
(* accounts; a name given replaces the name of the account, deleted or not.*)
bindCustomerPhoneIdentity(m, i, p, name) ==
    LET byIdentity == Live(m, identityOf[m][i])
        byPhone == Live(m, phoneOf[m][p])
        user == CHOOSE u \in IF byIdentity \cup byPhone = {} THEN {p} ELSE byIdentity \cup byPhone : TRUE
        created == user \notin users[m]
    IN  /\ Cardinality(byIdentity \cup byPhone) <= 1
        /\ users' = [users EXCEPT ![m] = @ \cup {user}]
        /\ profile' = [profile EXCEPT ![m][user] =
               IF created THEN createCustomerProfile(name) ELSE [@ EXCEPT !.named = @ \/ name]]
        /\ identityOf' = [identityOf EXCEPT ![m][i] = user]
        /\ phoneOf' = [phoneOf EXCEPT ![m][p] = user]
        /\ logins' = Append(logins, [store |-> m, user |-> user, created |-> created, outcome |-> "PENDING"])

(* What the exchange of a login code answers; a failed one logs nobody in. *)
verifyWeChatMiniAppCode(i) == [subject |-> i, phone |-> ProviderPhone[i]]
verifyAlipayCode(i) == [subject |-> i, phone |-> ProviderPhone[i]]

(* The phone the request names (none or one), or else the provider's; with *)
(* neither the login is refused.                                           *)
resolvedPhone(asked, identity) == IF asked /= {} THEN asked ELSE identity.phone

customerLogin(m, identity) ==
    /\ Len(logins) < MaxLogins
    /\ \E asked \in {{}} \cup {{p} : p \in Phones}, name \in BOOLEAN :
        \E p \in resolvedPhone(asked, identity) :
            bindCustomerPhoneIdentity(m, identity.subject, p, name)
    /\ UNCHANGED <<rows, alliance, owed, cancelled, ops>>
wechatLogin(m, i) == customerLogin(m, verifyWeChatMiniAppCode(i))
alipayLogin(m, i) == customerLogin(m, verifyAlipayCode(i))

(* The session of a customer: its token outlives the account.              *)
HasToken(m, u) == \E n \in DOMAIN logins : logins[n].store = m /\ logins[n].user = u

(* The decision of the entry, awaited before the login is answered: it     *)
(* fails, and the login succeeds, when the account has gone meanwhile.     *)
executeEntryDecision(n) ==
    /\ logins[n].outcome = "PENDING"
    /\ \E outcome \in {"NO_POLICY", "ERROR"} :
        /\ logins[n].user \notin users[logins[n].store] => outcome = "ERROR"
        /\ logins' = [logins EXCEPT ![n].outcome = outcome]
    /\ UNCHANGED <<users, profile, identityOf, phoneOf, rows, alliance, owed, cancelled, ops>>

PaymentsOf == {n \in DOMAIN rows : rows[n].kind = "payment"}

rowOf(kind, m, u, about, status, wallet) ==
    [kind |-> kind, store |-> m, user |-> u, about |-> about, status |-> status,
     home |-> u \in users[m], wallet |-> wallet]

(* The store whose account pays: the first of the configuration where the  *)
(* wallet is shared.                                                       *)
resolveWalletScope(m) == IF alliance[m].shared THEN alliance[m].first ELSE m

(* A customer's payment, paid at once or with an intent: found by the      *)
(* account at the wallet's store and written, with its ledger row, at m.   *)
createIntent(m, u) ==
    LET wallet == resolveWalletScope(m)
    IN  /\ Cardinality(PaymentsOf) < MaxPayments
        /\ HasToken(m, u) /\ u \in users[wallet]
        /\ \E status \in {"PENDING", "PAID"} :
            rows' = rows \o <<rowOf("payment", m, u, 0, status, wallet),
                              rowOf("ledger", m, u, Len(rows) + 1, status, wallet)>>
        /\ owed' = [owed EXCEPT ![m][u] = @ + 1]
        /\ UNCHANGED <<users, profile, identityOf, phoneOf, logins, alliance, cancelled, ops>>

(* The audit row a route writes, in a step of its own, when a call of u is *)
(* done; and the one of a call that changes nothing else: it failed, in a  *)
(* route that is audited, or read the inbox.  Neither asks for the account.*)
auditRow(m, u, status) == rowOf("audit", m, u, 0, status, m)
auditDone(m, u) ==
    /\ owed[m][u] > 0
    /\ owed' = [owed EXCEPT ![m][u] = @ - 1]
    /\ rows' = Append(rows, auditRow(m, u, "SUCCESS"))
    /\ UNCHANGED <<users, profile, identityOf, phoneOf, logins, alliance, cancelled, ops>>
auditCall(m, u) ==
    /\ HasToken(m, u)
    /\ ops < MaxOps /\ ops' = ops + 1
    /\ \E status \in {"SUCCESS", "FAILED"} : rows' = Append(rows, auditRow(m, u, status))
    /\ UNCHANGED <<users, profile, identityOf, phoneOf, logins, alliance, owed, cancelled>>

confirmPayment(n) ==
    LET row == rows[n]
        wallet == resolveWalletScope(row.store)
    IN  /\ row.kind = "payment" /\ row.status = "PENDING"
        /\ row.user \in users[wallet]             \* an alias is not found
        /\ rows' = Append([rows EXCEPT ![n].status = "PAID"],
                          rowOf("ledger", row.store, row.user, n, "PAID", wallet))
        /\ UNCHANGED <<users, profile, identityOf, phoneOf, logins, alliance, owed, cancelled, ops>>

(* One invoice for a settled payment; asked again, the first is answered.  *)
InvoicesOf(n) == {k \in DOMAIN rows : rows[k].kind = "invoice" /\ rows[k].about = n}
invoiceRow(n) == rowOf("invoice", rows[n].store, rows[n].user, n, "ISSUED", rows[n].wallet)
issueInvoice(n) ==
    /\ rows[n].kind = "payment" /\ rows[n].status = "PAID" /\ InvoicesOf(n) = {}
    /\ rows' = Append(rows, invoiceRow(n))
    /\ UNCHANGED <<users, profile, identityOf, phoneOf, logins, alliance, owed, cancelled, ops>>

(* The rows that are exported of a user.                                   *)
exportUserData(m, u) ==
    {n \in DOMAIN rows : rows[n].store = m /\ rows[n].user = u /\ rows[n].kind /= "audit"}

(* The owner deletes a customer's data: the account and its bindings stay. *)
deleteUserData(m, u) ==
    /\ ops < MaxOps /\ ops' = ops + 1
    /\ u \in users[m]
    /\ ~profile[m][u].deleted
    /\ profile' = [profile EXCEPT ![m][u] = [named |-> FALSE, deleted |-> TRUE]]
    /\ UNCHANGED <<users, identityOf, phoneOf, rows, logins, alliance, owed, cancelled>>

(* The customer cancels: rows of the store take an alias, the account goes,*)
(* the bindings and the token stay.                                        *)
replaceUserRefMutant(row, m, u) ==
    IF row.store = m /\ row.user = u /\ row.kind /= "invoice" THEN [row EXCEPT !.user = buildDeletedAlias(u)] ELSE row
replaceUserRefLedgerMutant(row, m, u) ==
    IF row.store = m /\ row.user = u /\ row.kind /= "ledger" THEN [row EXCEPT !.user = buildDeletedAlias(u)] ELSE row
replaceUserRef(row, m, u) ==
    IF row.store = m /\ row.user = u THEN [row EXCEPT !.user = buildDeletedAlias(u)] ELSE row

cancelUserAccount(m, u) ==
    /\ HasToken(m, u) /\ u \in users[m]
    /\ ops < MaxOps /\ ops' = ops + 1
    /\ rows' = [n \in DOMAIN rows |-> replaceUserRef(rows[n], m, u)]
    /\ users' = [users EXCEPT ![m] = @ \ {u}]
    /\ owed' = [owed EXCEPT ![m][u] = @ + 1]
    /\ cancelled' = [cancelled EXCEPT ![m][u] = @ + 1]
    /\ UNCHANGED <<profile, identityOf, phoneOf, logins, alliance>>

(* An empty list keeps the stores there were.                              *)
setAllianceConfig(m, stores, shared) ==
    /\ ops < MaxOps /\ ops' = ops + 1
    /\ \/ stores = {} /\ alliance' = [alliance EXCEPT ![m].shared = shared]
       \/ \E first \in stores :
            alliance' = [alliance EXCEPT ![m] = [stores |-> stores, first |-> first, shared |-> shared]]
    /\ UNCHANGED <<users, profile, identityOf, phoneOf, rows, logins, owed, cancelled>>

(* A copy without the deletion mark, over whatever the store had, in every *)
(* store of the configuration (the source may be among them).              *)
cloneUserShape(u) == [named |-> u.named, deleted |-> FALSE]
syncUserAcrossStores(m, u) ==
    LET synced == alliance[m].stores
    IN  /\ u \in users[m]
        /\ ops < MaxOps /\ ops' = ops + 1
        /\ users' = [s \in Stores |-> IF s \in synced THEN users[s] \cup {u} ELSE users[s]]
        /\ profile' = [s \in Stores |-> IF s \in synced
                           THEN [profile[s] EXCEPT ![u] = cloneUserShape(profile[m][u])] ELSE profile[s]]
        /\ UNCHANGED <<identityOf, phoneOf, rows, logins, alliance, owed, cancelled>>

CustomerNext ==
    \/ \E m \in Stores : \/ \E i \in WeChat : wechatLogin(m, i)
                         \/ \E i \in Alipay : alipayLogin(m, i)
    \/ \E n \in DOMAIN logins : executeEntryDecision(n)
    \/ \E n \in DOMAIN rows : confirmPayment(n) \/ issueInvoice(n)
    \/ \E m \in Stores, u \in Phones :
        \/ createIntent(m, u) \/ auditDone(m, u) \/ auditCall(m, u)
        \/ deleteUserData(m, u) \/ cancelUserAccount(m, u) \/ syncUserAcrossStores(m, u)
    \/ \E m \in Stores, s \in SUBSET Stores, shared \in BOOLEAN : setAllianceConfig(m, s, shared)

CustomerSpec == CustomerInit /\ [][CustomerNext]_cvars

-----------------------------------------------------------------------------
(* Accounts, bindings and rows have their types.                           *)
CustomerTypeOK ==
    \A m \in Stores :
        /\ users[m] \subseteq Phones
        /\ alliance[m].stores \subseteq Stores /\ alliance[m].first \in alliance[m].stores
        /\ \A i \in Identities : identityOf[m][i] \in Phones \cup {NoUser}
        /\ \A p \in Phones : phoneOf[m][p] \in Phones \cup {NoUser}
        /\ \A n \in DOMAIN rows : rows[n].user \in Phones \cup {buildDeletedAlias(u) : u \in Phones}

(* cancelUserAccount against logins, payments, callbacks, invoices, copies *)
(* and calls whose audit row is yet to come: no row of a store that was    *)
(* written while the user had an account there names a user whose account  *)
(* has gone; and what would be exported of such a user is paid with the    *)
(* wallet of another store.                                                *)
RowsNameAccounts ==
    \A m \in Stores : \A u \in Phones \ users[m] :
        /\ \A n \in DOMAIN rows : rows[n].store = m /\ rows[n].user = u => ~rows[n].home
        /\ \A n \in exportUserData(m, u) : rows[n].wallet /= m

(* issueInvoice and cancelUserAccount: a payment has one invoice at most,  *)
(* of the store and of whom the payment names, before and after a          *)
(* cancellation.                                                           *)
InvoiceFollowsPayment ==
    \A n \in PaymentsOf : /\ Cardinality(InvoicesOf(n)) <= 1
                          /\ InvoicesOf(n) \subseteq exportUserData(rows[n].store, rows[n].user)

(* executeEntryDecision (isNewUser, which the welcome policy asks for): an *)
(* account is new to one login for each time it was created.               *)
NewOncePerAccount ==
    \A m \in Stores, u \in Phones :
        Cardinality({n \in DOMAIN logins : logins[n].store = m /\ logins[n].user = u /\ logins[n].created})
            <= cancelled[m][u] + 1

(* Rows written of an account name nobody without one, an invoice names    *)
(* whom its payment names, and an account is new to one login only.        *)
CustomersInvariant == /\ CustomerTypeOK /\ RowsNameAccounts
                      /\ InvoiceFollowsPayment /\ NewOncePerAccount
=============================================================================
