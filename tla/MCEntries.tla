------------------------------ MODULE MCEntries ------------------------------
(***************************************************************************)
(* Instances of Entries for TLC.                                           *)
(***************************************************************************)
EXTENDS Entries, TLC

Symmetry == Permutations(Entry) \cup Permutations(PaymentId)
              \cup Permutations(Worker)

-----------------------------------------------------------------------------
(* What the repository says of entries and the code does not keep: each of
   these is the property of a run that ends in a counterexample. *)

Transitions ==
  [DRAFT            |-> {"PENDING_APPROVAL", "PENDING", "CANCELLED"},
   PENDING_APPROVAL |-> {"PENDING", "CANCELLED"},
   PENDING          |-> {"OVERDUE", "PAID", "PARTIAL", "CANCELLED"},
   PARTIAL          |-> {"PAID", "PARTIAL", "PENDING"},
   OVERDUE          |-> {"PAID", "PARTIAL", "CANCELLED"},
   PAID             |-> {"PENDING", "PARTIAL"},
   CANCELLED        |-> {}]

\* entry.status-machine.ts lists the transitions of an entry.  No code calls it,
\* and the overdue job also marks PARTIAL entries.
FollowsStatusMachine ==
  [][\A e \in Entry :
       entries[e].status # "ABSENT" /\ entries'[e].status # entries[e].status
         => entries'[e].status \in Transitions[entries[e].status]]_vars

\* entries.service.ts: PAID and PARTIAL entries cannot be cancelled, their payments
\* must be refunded first.
CancelledIsUnpaid ==
  \A e \in Entry : entries[e].status = "CANCELLED" => PaymentsOf(e) = {}

\* README: who created an entry cannot approve it.
NoSelfApproval ==
  \A a \in audit : a.action = "CREATE" =>
    \A i \in DOMAIN approvals[a.entry] :
      approvals[a.entry][i].action = "APPROVED" => approvals[a.entry][i].by # a.user
==============================================================================
