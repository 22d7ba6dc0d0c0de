-------------------------- MODULE MerchantAccounts --------------------------
(***************************************************************************)
(* How an owner comes to a store: a code sent to a phone, the login that   *)
(* uses it, the onboarding of a new store with the token of that login,    *)
(* and the contract application whose contact phone also binds a store.    *)
(* Every database step is one fresh-state transaction of the root database *)
(* (PostgresStore), so two of them never overlap.                          *)
(***************************************************************************)
EXTENDS PhoneBook, Integers, FiniteSets

CONSTANTS CodeTtl, TokenTtl,            \* lifetimes, in the clock's units
          MaxCodes, MaxTokens, MaxClock, MaxApplications

VARIABLES
    now,
    codes,         \* phoneLoginCodes: at most one record [number, expiresAt] per phone
    owner,         \* owner[m]: the phones (none or one) store m was onboarded with
    contact,       \* contact[m]: the contact phones (none or one) of its application
    consumed,      \* onboarding nonces used
    tokens,        \* onboarding tokens issued: [phone, nonce, expiresAt]
    sessions,      \* owner tokens issued: [phone, store]
    applying,      \* applications checked and not yet written: [store, phone]
    codesSent,     \* the codes are numbered in the order they are sent
    ownerLogins,   \* ownerLogins[n]: logins that used code n
    raced,         \* ghost: phones an application took after another store had
    applications   \* bound
mvars == <<now, codes, owner, contact, consumed, tokens, sessions, applying, codesSent,
           ownerLogins, raced, applications>>

\* What the values of the constants satisfy: the bounds and lifetimes are numbers.
MerchantAssumption == {CodeTtl, TokenTtl, MaxCodes, MaxTokens, MaxClock, MaxApplications} \subseteq Nat
ASSUME MerchantAccountsAssumption == MerchantAssumption

MerchantInit ==
    /\ now = 0 /\ codes = [p \in Phones |-> {}] /\ consumed = {} /\ tokens = {}
    /\ owner = [m \in Stores |-> {}] /\ contact = [m \in Stores |-> {}]
    /\ sessions = {} /\ applying = {} /\ codesSent = 0 /\ ownerLogins = [n \in 1..MaxCodes |-> 0]
    /\ raced = {} /\ applications = 0

Onboarded == {m \in Stores : owner[m] /= {}}

(* Stores a phone leads to: by their owner's phone or their contact's.     *)
listMerchantIdsByOwnerPhone(p) == {m \in Stores : p \in owner[m] \cup contact[m]}

(* A new code replaces the one before.                                     *)
issuePhoneCode(p) ==
    /\ codesSent < MaxCodes /\ codesSent' = codesSent + 1
    /\ codes' = [codes EXCEPT ![p] = {[number |-> codesSent', expiresAt |-> now + CodeTtl]}]
    /\ UNCHANGED <<now, owner, contact, consumed, tokens, sessions, applying, ownerLogins,
                   raced, applications>>

(* The code is good, and gone, or the login fails and changes nothing.     *)
verifyPhoneCodeMutant(p, n) ==
    /\ \E record \in codes[p] : record.number = n /\ now <= record.expiresAt
    /\ UNCHANGED codes
verifyPhoneCode(p, n) ==
    /\ \E record \in codes[p] : record.number = n /\ now <= record.expiresAt
    /\ codes' = [codes EXCEPT ![p] = {}]

(* An onboarding token, each with a nonce of its own, good for a time.     *)
issueToken(p) == [phone |-> p, nonce |-> Cardinality(tokens) + 1, expiresAt |-> now + TokenTtl]
verifyToken(t) == now <= t.expiresAt

(* phone-login: no store gives an onboarding token, one a session, several *)
(* an error; the code is used up in each case.                             *)
phoneLogin(p, n) ==
    /\ verifyPhoneCode(p, n)
    /\ ownerLogins' = [ownerLogins EXCEPT ![n] = @ + 1]
    /\ LET stores == listMerchantIdsByOwnerPhone(p) IN
        /\ stores = {} => Cardinality(tokens) < MaxTokens
        /\ tokens' = IF stores /= {} THEN tokens
                     ELSE tokens \cup {issueToken(p)}
        /\ sessions' = IF Cardinality(stores) /= 1 THEN sessions
                       ELSE sessions \cup [phone : {p}, store : stores]
    /\ UNCHANGED <<now, owner, contact, consumed, applying, codesSent, raced, applications>>

(* onboardMerchant under an identifier no store has.                       *)
onboardMerchant(m, p) ==
    /\ m \notin Onboarded
    /\ owner' = [owner EXCEPT ![m] = {p}]

(* complete-onboard: refused for a phone that has a store (409) and for a  *)
(* token that was used (409).                                              *)
UnboundMutant(p) == \A m \in Stores : p \notin contact[m]
Unbound(p) == listMerchantIdsByOwnerPhone(p) = {}
completeOnboardMutant(t) ==
    /\ verifyToken(t)
    /\ t.nonce \notin consumed
    /\ \E m \in Stores : /\ onboardMerchant(m, t.phone)
                         /\ sessions' = sessions \cup {[phone |-> t.phone, store |-> m]}
    /\ consumed' = consumed \cup {t.nonce}
    /\ UNCHANGED <<now, codes, contact, tokens, applying, codesSent, ownerLogins, raced, applications>>
completeOnboard(t) ==
    /\ verifyToken(t)
    /\ Unbound(t.phone) /\ t.nonce \notin consumed
    /\ \E m \in Stores : /\ onboardMerchant(m, t.phone)
                         /\ sessions' = sessions \cup {[phone |-> t.phone, store |-> m]}
    /\ consumed' = consumed \cup {t.nonce}
    /\ UNCHANGED <<now, codes, contact, tokens, applying, codesSent, ownerLogins, raced, applications>>

(* contract/apply reads the bindings of the contact phone in one           *)
(* transaction ...                                                         *)
FreeFor(m, p) == listMerchantIdsByOwnerPhone(p) \subseteq {m}
contractCheck(m, p) ==
    /\ applications < MaxApplications /\ applications' = applications + 1
    /\ \E s \in sessions : s.store = m
    /\ FreeFor(m, p)
    /\ applying' = applying \cup {[store |-> m, phone |-> p]}
    /\ UNCHANGED <<now, codes, owner, contact, consumed, tokens, sessions, codesSent, ownerLogins, raced>>

(* ... and writes the application in another.                              *)
contractApply(a) ==
    /\ applying' = applying \ {a}
    /\ contact' = [contact EXCEPT ![a.store] = {a.phone}]
    /\ raced' = IF FreeFor(a.store, a.phone) THEN raced ELSE raced \cup {a.phone}
    /\ UNCHANGED <<now, codes, owner, consumed, tokens, sessions, codesSent, ownerLogins, applications>>

MerchantTick == /\ now < MaxClock /\ now' = now + 1
                /\ UNCHANGED <<codes, owner, contact, consumed, tokens, sessions, applying, codesSent,
                               ownerLogins, raced, applications>>

MerchantNext ==
    \/ \E p \in Phones : issuePhoneCode(p) \/ \E n \in 1..codesSent : phoneLogin(p, n)
    \/ \E t \in tokens : completeOnboard(t)
    \/ \E m \in Stores, p \in Phones : contractCheck(m, p)
    \/ \E a \in applying : contractApply(a)
    \/ MerchantTick

MerchantSpec == MerchantInit /\ [][MerchantNext]_mvars

-----------------------------------------------------------------------------
(* Codes, stores, tokens and sessions have their types.                    *)
MerchantTypeOK ==
    /\ now \in 0..MaxClock /\ consumed \subseteq 1..MaxTokens
    /\ \A p \in Phones : Cardinality(codes[p]) <= 1
    /\ \A m \in Stores : /\ owner[m] \subseteq Phones /\ Cardinality(owner[m]) <= 1
                         /\ contact[m] \subseteq Phones /\ Cardinality(contact[m]) <= 1
                         /\ contact[m] /= {} => m \in Onboarded
    /\ \A s \in sessions : s.store \in Onboarded

(* verifyPhoneCode: a code logs in once at most, whoever repeats the call. *)
CodeUsedOnce == \A n \in 1..MaxCodes : ownerLogins[n] <= 1

(* complete-onboard: no two stores have the same owner's phone, however    *)
(* many onboarding tokens the phone got before it used one.                *)
OwnerPhonesDiffer ==
    \A m, n \in Onboarded : owner[m] = owner[n] => m = n

(* phone-login and contract/apply: a phone leads to two stores, and its    *)
(* owner can log in to neither, only after an application was written      *)
(* whose check another application or an onboarding had overtaken.         *)
BoundTwiceOnlyByRace ==
    \A p \in Phones : Cardinality(listMerchantIdsByOwnerPhone(p)) > 1 => p \in raced

(* A code logs in once, no two stores have the same owner's phone, and a   *)
(* phone leads to two stores only by a race.                               *)
OwnersInvariant == MerchantTypeOK /\ CodeUsedOnce /\ OwnerPhonesDiffer /\ BoundTwiceOnlyByRace
=============================================================================
