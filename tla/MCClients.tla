------------------------------ MODULE MCClients ------------------------------
(***************************************************************************)
(* The two clients and the agent runtime their owners talk to, checked one *)
(* after the other: each initial state starts one of them and the others   *)
(* stay as they are.                                                       *)
(***************************************************************************)
EXTENDS AgentRuntime, MerchantApp, CustomerApp

VARIABLE part

allVars == <<part, agentVars, appVars, vars>>

(* The merchant app starts with or without a stored session; in the other   *)
(* parts it is the first of these.                                          *)
PartInit ==
    /\ part \in {"agent", "merchant", "customer"}
    /\ AgentInit /\ AppInit /\ Init
    /\ part # "merchant" => stored = None

AgentPart == part = "agent" /\ AgentNext /\ UNCHANGED <<part, appVars, vars>>
MerchantPart == part = "merchant" /\ AppNext /\ UNCHANGED <<part, agentVars, vars>>
CustomerPart == part = "customer" /\ Next /\ UNCHANGED <<part, agentVars, appVars>>
PartNext == AgentPart \/ MerchantPart \/ CustomerPart

(* The fairness of the part that runs: part never changes.                  *)
PartProgress ==
    \/ part = "agent" /\ Progress /\ UNCHANGED <<part, appVars, vars>>
    \/ part = "merchant" /\ ChatAnswer /\ UNCHANGED <<part, agentVars, vars>>
    \/ part = "customer" /\ Answer /\ UNCHANGED <<part, agentVars, appVars>>

PartSpec ==
    /\ PartInit /\ [][PartNext]_allVars
    /\ WF_allVars(PartProgress)

------------------------------------------------------------------------------
(* Nobody waits for ever: every request for the merchant's lock is served    *)
(* (AgentRuntime), every message of the chat is marked sent or failed        *)
(* (MerchantApp), the startup page goes on and the payment button comes back *)
(* (CustomerApp).                                                            *)
NobodyWaitsForEver ==
    EveryRequestServed /\ EveryMessageSettles /\ ConnectingEnds /\ PayButtonReturns
==============================================================================
