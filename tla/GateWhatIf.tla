----------------------------- MODULE GateWhatIf -----------------------------
(***************************************************************************)
(* What the next row would do to the release gate.  In every state the     *)
(* gate is worked out as it is and once more with one row changed, both at *)
(* the first instant at which a row of now is in the window.               *)
(***************************************************************************)
EXTENDS ReleaseGate

Invoiced(i) == SnapshotOf([payments EXCEPT ![i].invoiced = now], decisions, now + 1, Window)
Refunded(i, cents) ==
    SnapshotOf([payments EXCEPT ![i].refunded = @ + cents], decisions, now + 1, Window)
Decided(u, kind) ==
    SnapshotOf(payments, Append(decisions, [user |-> u, kind |-> kind, at |-> now]), now + 1, Window)

Rank(snapshot) == CASE snapshot.final = "GO" -> 2 [] snapshot.final = "NEEDS_REVIEW" -> 1
                    [] snapshot.final = "NO_GO" -> 0
Standing == Rank(Snapshot(now + 1, Window))
PaidPayments == {i \in DOMAIN payments : payments[i].status = "PAID"}

(* An invoice is never held against the store: issuing one, however late,  *)
(* does not lower its standing (summarizeInvoicesForRange takes invoices   *)
(* by their own time and payments by theirs).                              *)
InvoicesNeverHurt ==
    \A i \in PaidPayments : payments[i].invoiced = None
        => Rank(Invoiced(i)) >= Standing

(* No weight of the value index is negative; nothing in the code sees to it. *)
NothingCountsAgainst == \A f \in DOMAIN DefaultWeights : normalizeGateConfig.weights[f] >= 0

(* Giving money back for a payment of the trend window never improves the  *)
(* standing.  For an older payment it can: the profit that the trend is    *)
(* compared with shrinks.                                                  *)
RecentRefundsNeverHelp ==
    NothingCountsAgainst =>
    \A i \in PaidPayments, cents \in Refunds :
        payments[i].at > now - Trend /\ payments[i].refunded + cents <= Amount
        => Rank(Refunded(i, cents)) <= Standing

(* Previews are counted with the decisions that ran, and may make the      *)
(* sample sufficient; they never clear a gate that failed.                 *)
PreviewsNeverClear ==
    NothingCountsAgainst =>
    \A u \in Users, kind \in Kinds : kind.mode = "EVALUATE" /\ Standing = 0
        => Rank(Decided(u, kind)) = 0
=============================================================================
