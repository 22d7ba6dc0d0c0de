------------------------------ MODULE MCStore ------------------------------
(***************************************************************************)
(* A payment whose policy decision is saved on the way, a proposal decided *)
(* in the same store while its agent is at work, and an invoice of another *)
(* store.                                                                  *)
(***************************************************************************)
EXTENDS PostgresStore
CONSTANTS pay, propose, invoice, storeA, storeB, merchants, payments, policyOs, agentRuntime

Requests == {pay, propose, invoice}
Keys == {storeA, storeB}
Parts == {merchants, payments, policyOs, agentRuntime}
TableOrder == <<merchants, payments, policyOs>>
KeyTaken == [r \in Requests |-> IF r = invoice THEN storeB ELSE storeA]
DirectParts == [r \in Requests |->
    CASE r = pay -> {policyOs}
      [] r = propose -> {merchants, policyOs, agentRuntime}
      [] r = invoice -> {}]
FreshParts == [r \in Requests |->
    CASE r = pay -> {merchants, payments}
      [] r = propose -> {}
      [] r = invoice -> {payments}]
=============================================================================
