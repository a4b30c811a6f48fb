---------------------------- MODULE Reconciliation ----------------------------
(***************************************************************************)
(* Reconciliation of payments with a bank account's statement: batches of  *)
(* items, one per payment, that users match with entries of the branch.    *)
(*                                                                         *)
(* One account of one branch.  Payments are never deleted from their       *)
(* table, and one may be in several batches.                               *)
(***************************************************************************)
EXTENDS Naturals, FiniteSets

CONSTANTS
  Payment, Batch,
  Entry,       \* entries an item may be matched with
  Matcher,     \* requests match in flight
  None

VARIABLES
  paid,        \* financial_entry_payments, of the account
  usable,      \* whether the bank account is active and not deleted
  batches,     \* reconciliation_batches: "new", "live" or "undone"
  items,       \* reconciliation_items, of each batch and payment
  matching,    \* each request match in flight
  importing,   \* requests import that passed the check of the account
  matched      \* the reconciliation.matched of the outbox, one per commit of match

vars == <<paid, usable, batches, items, matching, importing, matched>>

Item == [entry : Entry, reconciled : BOOLEAN, deleted : BOOLEAN]
ItemKey == Batch \X Payment

Init ==
  /\ paid = {} /\ usable = TRUE
  /\ batches = [b \in Batch |-> "new"]
  /\ items = [k \in ItemKey |-> None]
  /\ matching = [r \in Matcher |-> None]
  /\ importing = {}
  /\ matched = {}

-----------------------------------------------------------------------------
\* Payments and the account change beside this component.
Pay(p) ==
  /\ p \notin paid
  /\ paid' = paid \cup {p}
  /\ UNCHANGED <<usable, batches, items, matching, importing, matched>>

Deactivate ==
  /\ usable' = FALSE
  /\ UNCHANGED <<paid, batches, items, matching, importing, matched>>

-----------------------------------------------------------------------------
\* importBatch: the check of the account, before the transaction.
ImportCheck(b) ==
  /\ usable /\ batches[b] = "new" /\ b \notin importing
  /\ importing' = importing \cup {b}
  /\ UNCHANGED <<paid, usable, batches, items, matching, matched>>

\* An item starts with the entry of its payment, not reconciled.
Imported(e) == [entry |-> e, reconciled |-> FALSE, deleted |-> FALSE]

\* createBatch and importFromPayments: the payments of the dates asked for.
ImportCommit(b, range, entryOf) ==
  /\ b \in importing
  /\ importing' = importing \ {b}
  /\ batches' = [batches EXCEPT ![b] = "live"]
  /\ items' = [k \in ItemKey |-> IF k[1] = b /\ k[2] \in range \cap paid THEN Imported(entryOf[k[2]]) ELSE items[k]]
  /\ UNCHANGED <<paid, usable, matching, matched>>

\* undoBatch: all its items, reconciled or not, and then itself.
Undo(b) ==
  /\ batches[b] = "live"
  /\ batches' = [batches EXCEPT ![b] = "undone"]
  /\ items' = [k \in ItemKey |-> IF k[1] = b /\ items[k] # None THEN [items[k] EXCEPT !.deleted = TRUE] ELSE items[k]]
  /\ UNCHANGED <<paid, usable, matching, importing, matched>>

-----------------------------------------------------------------------------
Pending(i) == ~i.reconciled /\ ~i.deleted

\* match, its checks.  Without an entry the item keeps the one it has.
MatchCheck(r, k, entry) ==
  /\ matching[r] = None
  /\ items[k] # None /\ Pending(items[k])
  /\ matching' = [matching EXCEPT ![r] = [item |-> k, entry |-> entry]]
  /\ UNCHANGED <<paid, usable, batches, items, importing, matched>>

\* Mutant of Matchable: the UPDATE relies on the check before it.
MatchableUnchecked(i) == TRUE

\* What matchItem's UPDATE asks of the row.
Matchable(i) == Pending(i)

\* matchItem, the audit row and the event, in one transaction.
MatchCommit(r) ==
  /\ matching[r] # None
  /\ LET k == matching[r].item
         entry == IF matching[r].entry = None THEN items[k].entry ELSE matching[r].entry
     IN  /\ Matchable(items[k])
         /\ items' = [items EXCEPT ![k] = [@ EXCEPT !.entry = entry, !.reconciled = TRUE]]
         /\ matched' = matched \cup {[item |-> k, entry |-> entry, by |-> r]}
  /\ matching' = [matching EXCEPT ![r] = None]
  /\ UNCHANGED <<paid, usable, batches, importing>>

\* RECONCILIATION_ITEM_ALREADY_MATCHED, which rolls everything back.
MatchConflict(r) ==
  /\ matching[r] # None /\ ~Matchable(items[matching[r].item])
  /\ matching' = [matching EXCEPT ![r] = None]
  /\ UNCHANGED <<paid, usable, batches, items, importing, matched>>

\* A request that ends for another reason: the entry is not of the branch, or a crash.
Abandon(r) ==
  /\ matching[r] # None
  /\ matching' = [matching EXCEPT ![r] = None]
  /\ UNCHANGED <<paid, usable, batches, items, importing, matched>>

-----------------------------------------------------------------------------
Next ==
  \/ \E p \in Payment : Pay(p)
  \/ Deactivate
  \/ \E b \in Batch :
       \/ ImportCheck(b) \/ Undo(b)
       \/ \E range \in SUBSET Payment, entryOf \in [Payment -> Entry] : ImportCommit(b, range, entryOf)
  \/ \E r \in Matcher :
       \/ \E k \in ItemKey, entry \in Entry \cup {None} : MatchCheck(r, k, entry)
       \/ MatchCommit(r) \/ MatchConflict(r) \/ Abandon(r)

Spec == Init /\ [][Next]_vars

-----------------------------------------------------------------------------
TypeOK ==
  /\ paid \subseteq Payment /\ usable \in BOOLEAN /\ importing \subseteq Batch
  /\ batches \in [Batch -> {"new", "live", "undone"}]
  /\ items \in [ItemKey -> Item \cup {None}]
  /\ matching \in [Matcher -> [item : ItemKey, entry : Entry \cup {None}] \cup {None}]
  /\ matched \subseteq [item : ItemKey, entry : Entry, by : Matcher]

\* However many users match an item at once, and whoever undoes its batch meanwhile, one
\* match is announced for it, with the entry it holds from then on, and for an item that
\* is not reconciled none is (the WHERE of matchItem, and its transaction).
MatchAnnouncedOnce ==
  \A k \in ItemKey :
    LET announced == {m \in matched : m.item = k}
    IN  /\ Cardinality(announced) <= 1
        /\ announced # {} <=> items[k] # None /\ items[k].reconciled
        /\ \A m \in announced : m.entry = items[k].entry
===============================================================================
