----------------------------- MODULE RecordsProofs -----------------------------
(***************************************************************************)
(* Theorems about the records around the entries, for any number of rows,  *)
(* requests, runs and tabs.                                                *)
(*                                                                         *)
(* The components share no variable: each has an invariant of its own,     *)
(* which Init establishes and its steps preserve, and which the steps of   *)
(* the others do not touch.                                                *)
(***************************************************************************)
EXTENDS MCRecords, MoneyTheorems

-----------------------------------------------------------------------------
(* Reconciliation: one match per item *)

\* Between the matches that were announced and the items; what the property counts is
\* stated without counting.
OneMatch ==
  \A k \in M!ItemKey :
    /\ \A m, n \in matched : m.item = k /\ n.item = k => m = n
    /\ (\E m \in matched : m.item = k) <=> items[k] # None /\ items[k].reconciled
    /\ \A m \in matched : m.item = k => m.entry = items[k].entry

\* A batch has no items before its import commits, and is imported once; the item that a
\* request is about to match stays.
ReconciliationInv ==
  /\ M!TypeOK
  /\ OneMatch
  /\ \A b \in Batch : b \in importing => batches[b] = "new"
  /\ \A k \in M!ItemKey : batches[k[1]] = "new" => items[k] = None
  /\ \A r \in Matcher : matching[r] # None => items[matching[r].item] # None

LEMMA ReconciliationInvImplies == ReconciliationInv => M!MatchAnnouncedOnce
<1> SUFFICES ASSUME ReconciliationInv, NEW k \in M!ItemKey
             PROVE  LET announced == {m \in matched : m.item = k}
                    IN  /\ M!Cardinality(announced) <= 1
                        /\ announced # {} <=> items[k] # None /\ items[k].reconciled
                        /\ \A m \in announced : m.entry = items[k].entry
  BY DEF M!MatchAnnouncedOnce
<1> DEFINE announced == {m \in matched : m.item = k}
<1>1. M!Cardinality(announced) = Cardinality(announced)
  BY DEF M!Cardinality, Cardinality
<1>2. announced = {} \/ \E m : announced = {m}
  <2>1. CASE announced = {}
    BY <2>1
  <2>2. ASSUME NEW m \in announced PROVE announced = {m}
    BY DEF ReconciliationInv, OneMatch
  <2> QED
    BY <2>1, <2>2
<1>3. Cardinality(announced) <= 1
  <2>1. Cardinality({}) = 0 /\ \A m : Cardinality({m}) = 1
    BY FS_EmptySet, FS_Singleton
  <2>2. CASE announced = {}
    BY <2>1, <2>2
  <2>3. ASSUME NEW m, announced = {m} PROVE Cardinality(announced) <= 1
    <3>1. Cardinality(announced) = 1
      BY <2>1, <2>3
    <3> QED
      BY <3>1
  <2> QED
    BY <1>2, <2>2, <2>3
<1> QED
  BY <1>1, <1>3 DEF ReconciliationInv, OneMatch

LEMMA ReconciliationInit == M!Init => ReconciliationInv
BY DEF M!Init, ReconciliationInv, M!TypeOK, OneMatch, M!ItemKey

\* Only the matches and what the items say of a match count.
LEMMA MatchesKept ==
  ASSUME OneMatch, matched' = matched,
         \A k \in M!ItemKey : items[k] # None =>
           /\ items'[k] # None /\ items'[k].entry = items[k].entry
           /\ items'[k].reconciled = items[k].reconciled,
         \A k \in M!ItemKey : items[k] = None /\ items'[k] # None => ~items'[k].reconciled
  PROVE  OneMatch'
BY DEF OneMatch

LEMMA ReconciliationStep ==
  ASSUME ReconciliationInv, [M!Next]_reconciliationVars
  PROVE  ReconciliationInv'
<1> USE DEF ReconciliationInv
<1>1. ASSUME NEW p \in Payment, M!Pay(p) PROVE ReconciliationInv'
  BY <1>1 DEF M!Pay, M!TypeOK, OneMatch
<1>2. CASE M!Deactivate
  <2>1. M!TypeOK'
    <3>1. usable' \in BOOLEAN
      BY <1>2, Zenon DEF M!Deactivate
    <3> QED
      BY <1>2, <3>1 DEF M!Deactivate, M!TypeOK
  <2> QED
    BY <1>2, <2>1 DEF M!Deactivate, OneMatch
<1>3. ASSUME NEW b \in Batch, M!ImportCheck(b) PROVE ReconciliationInv'
  BY <1>3 DEF M!ImportCheck, M!TypeOK, OneMatch
<1>4. ASSUME NEW b \in Batch, NEW range \in SUBSET Payment, NEW entryOf \in [Payment -> Entry],
             M!ImportCommit(b, range, entryOf)
      PROVE  ReconciliationInv'
  <2>1. \A p \in Payment : /\ M!Imported(entryOf[p]) \in M!Item /\ M!Imported(entryOf[p]) # None
                           /\ ~M!Imported(entryOf[p]).reconciled
    <3> SUFFICES ASSUME NEW p \in Payment
                 PROVE  M!Imported(entryOf[p]) \in M!Item /\ ~M!Imported(entryOf[p]).reconciled
      BY NoneAssumption
    <3>1. entryOf[p] \in Entry
      OBVIOUS
    <3> QED
      BY <3>1 DEF M!Imported, M!Item
  <2>2. batches[b] = "new" /\ batches' = [batches EXCEPT ![b] = "live"] /\ importing' = importing \ {b}
        /\ UNCHANGED <<paid, usable, matching, matched>>
    BY <1>4 DEF M!ImportCommit
  <2>3. ASSUME NEW k \in M!ItemKey
        PROVE  \/ items'[k] = items[k]
               \/ k[1] = b /\ items[k] = None /\ \E p \in Payment : items'[k] = M!Imported(entryOf[p])
    <3>1. k[2] \in Payment
      BY DEF M!ItemKey
    <3> QED
      BY <1>4, <2>2, <3>1 DEF M!ImportCommit
  <2>4. items' \in [M!ItemKey -> M!Item \cup {None}]
    <3>1. items' = [k \in M!ItemKey |-> items'[k]]
      BY <1>4 DEF M!ImportCommit
    <3>2. \A k \in M!ItemKey : items'[k] \in M!Item \cup {None}
      BY <2>1, <2>3 DEF M!TypeOK
    <3> QED
      BY <3>1, <3>2
  <2>5. OneMatch'
    BY <2>1, <2>2, <2>3, MatchesKept
  <2>6. \A k \in M!ItemKey : batches'[k[1]] = "new" => items'[k] = None
    BY <2>2, <2>3 DEF M!TypeOK, M!ItemKey
  <2>7. \A k \in M!ItemKey : items[k] # None => items'[k] # None
    BY <2>3
  <2> QED
    BY <2>2, <2>4, <2>5, <2>6, <2>7 DEF M!TypeOK
<1>5. ASSUME NEW b \in Batch, M!Undo(b) PROVE ReconciliationInv'
  <2>1. ASSUME NEW k \in M!ItemKey, items[k] # None
        PROVE  LET i == [items[k] EXCEPT !.deleted = TRUE]
               IN  i \in M!Item /\ i # None /\ i.entry = items[k].entry /\ i.reconciled = items[k].reconciled
    <3>1. items[k] \in M!Item
      BY <2>1 DEF M!TypeOK
    <3>2. [items[k] EXCEPT !.deleted = TRUE] \in M!Item
      BY <3>1 DEF M!Item
    <3> QED
      BY <3>1, <3>2, NoneAssumption DEF M!Item
  <2>2. items' = [k \in M!ItemKey |-> IF k[1] = b /\ items[k] # None THEN [items[k] EXCEPT !.deleted = TRUE] ELSE items[k]]
        /\ batches[b] = "live" /\ batches' = [batches EXCEPT ![b] = "undone"]
        /\ UNCHANGED <<paid, usable, matching, importing, matched>>
    BY <1>5 DEF M!Undo
  <2>3. items' \in [M!ItemKey -> M!Item \cup {None}]
    BY <2>1, <2>2 DEF M!TypeOK
  <2>4. OneMatch'
    BY <2>1, <2>2, MatchesKept
  <2>5. \A k \in M!ItemKey : items'[k] = None <=> items[k] = None
    BY <2>1, <2>2
  <2> QED
    BY <2>2, <2>3, <2>4, <2>5 DEF M!TypeOK, M!ItemKey
<1>6. ASSUME NEW r \in Matcher, NEW k \in M!ItemKey, NEW entry_ \in Entry \cup {None}, M!MatchCheck(r, k, entry_)
      PROVE  ReconciliationInv'
  BY <1>6 DEF M!MatchCheck, M!TypeOK, OneMatch
<1>7. ASSUME NEW r \in Matcher, M!MatchCommit(r) PROVE ReconciliationInv'
  <2> DEFINE k == matching[r].item
             e == IF matching[r].entry = None THEN items[k].entry ELSE matching[r].entry
             i == [items[k] EXCEPT !.entry = e, !.reconciled = TRUE]
             m == [item |-> k, entry |-> e, by |-> r]
  <2>1. k \in M!ItemKey /\ items[k] # None /\ items[k] \in M!Item /\ matching[r].entry \in Entry \cup {None}
    BY <1>7 DEF M!MatchCommit, M!TypeOK
  <2>2. e \in Entry
    BY <2>1 DEF M!Item
  <2>3. i \in M!Item /\ i # None /\ i.entry = e /\ i.reconciled
    BY <2>1, <2>2, NoneAssumption DEF M!Item
  <2>4. /\ ~items[k].reconciled /\ items' = [items EXCEPT ![k] = i] /\ matched' = matched \cup {m}
        /\ matching' = [matching EXCEPT ![r] = None] /\ UNCHANGED <<paid, usable, batches, importing>>
    BY <1>7 DEF M!MatchCommit, M!Matchable, M!Pending
  <2>5. m \in [item : M!ItemKey, entry : Entry, by : Matcher] /\ m.item = k /\ m.entry = e
    BY <2>1, <2>2
  <2> HIDE DEF k, e, i, m
  <2>6. OneMatch'
    <3>1. \A n \in matched : n.item # k
      BY <2>1, <2>4 DEF OneMatch
    <3> QED
      BY <2>1, <2>3, <2>4, <2>5, <3>1 DEF OneMatch, M!TypeOK
  <2> QED
    BY <2>1, <2>3, <2>4, <2>5, <2>6 DEF M!TypeOK
<1>8. ASSUME NEW r \in Matcher, M!MatchConflict(r) \/ M!Abandon(r) PROVE ReconciliationInv'
  BY <1>8 DEF M!MatchConflict, M!Abandon, M!TypeOK, OneMatch
<1>9. CASE UNCHANGED reconciliationVars
  BY <1>9 DEF reconciliationVars, M!TypeOK, OneMatch
<1> QED
  BY <1>1, <1>2, <1>3, <1>4, <1>5, <1>6, <1>7, <1>8, <1>9 DEF M!Next

-----------------------------------------------------------------------------
(* Boletos: a row tells what became of its boleto *)

Billing ==
  [at : {"posting", "posted"} \cup G!Cancels, entry : Entry, branch : Branch,
   boleto : Boleto \cup {None}, attempt : 1 .. MaxAttempts, answered : BOOLEAN]

\* What a request knows of the gateway: the boleto it made, or cancelled for good.
Knows(x) ==
  /\ x \in {G!Idle} \cup Billing
  /\ x.at = "posted" => x.boleto \in Boleto
  /\ x.at = "deleted" => x.boleto \in Boleto /\ gateway[x.boleto].state = "cancelled"

TellsOf(e) ==
  row[e] # None /\ e \notin crossed =>
    /\ row[e].status = "CANCELED" => gateway[row[e].boleto].state = "cancelled"
    /\ row[e].status = "PAID" => gateway[row[e].boleto].state = "paid"

BoletoInv ==
  /\ G!TypeOK
  /\ \A e \in Entry : TellsOf(e)
  /\ \A r \in Request : Knows(billing[r])
  /\ \A b \in Boleto : gateway[b].state # "new" => gateway[b].entry \in Entry

LEMMA BoletoInvImplies == BoletoInv => G!RowTellsTheGateway
BY DEF BoletoInv, TellsOf, G!RowTellsTheGateway

LEMMA BoletoInit == G!Init => BoletoInv
BY DEF G!Init, BoletoInv, G!TypeOK, TellsOf, Knows, G!Idle

Posted(q, b) == [q EXCEPT !.at = "posted", !.boleto = b]

\* A request in flight, and what its steps make of it.
LEMMA BillingChanges ==
  ASSUME NEW q \in Billing
  PROVE  /\ q.at # "idle" /\ q # G!Idle
         /\ [q EXCEPT !.answered = TRUE] \in Billing /\ [q EXCEPT !.answered = TRUE].at = q.at
         /\ [q EXCEPT !.answered = TRUE].boleto = q.boleto
         /\ [q EXCEPT !.at = "deleted"] \in Billing /\ [q EXCEPT !.at = "deleted"].boleto = q.boleto
         /\ \A b \in Boleto : Posted(q, b) \in Billing /\ Posted(q, b).at = "posted" /\ Posted(q, b).boleto = b
         /\ \/ G!AfterFailure(q) = G!Idle
            \/ /\ G!AfterFailure(q) \in Billing
               /\ G!AfterFailure(q).at = q.at /\ G!AfterFailure(q).boleto = q.boleto
<1>1. q.at # "idle" /\ q # G!Idle
  BY DEF Billing, G!Idle, G!Cancels
<1>2. [q EXCEPT !.answered = TRUE] \in Billing /\ [q EXCEPT !.at = "deleted"] \in Billing
  BY DEF Billing, G!Cancels
<1>3. \A b \in Boleto : Posted(q, b) \in Billing /\ Posted(q, b).at = "posted" /\ Posted(q, b).boleto = b
  BY DEF Billing, Posted
<1>4. q.attempt < MaxAttempts => [q EXCEPT !.attempt = @ + 1] \in Billing
  <2>1. q.attempt < MaxAttempts => q.attempt + 1 \in 1 .. MaxAttempts
    BY BoundsAssumption DEF Billing
  <2>2. \A n \in 1 .. MaxAttempts : [q EXCEPT !.attempt = n] \in Billing
    BY DEF Billing
  <2> QED
    BY <2>1, <2>2
<1>5. \/ G!AfterFailure(q) = G!Idle
      \/ G!AfterFailure(q) \in Billing /\ G!AfterFailure(q).at = q.at /\ G!AfterFailure(q).boleto = q.boleto
  BY <1>4 DEF G!AfterFailure, Billing
<1> QED
  BY <1>1, <1>2, <1>3, <1>5 DEF Billing

\* The gateway keeps what is paid or cancelled; a request that moves on knows as much.
LEMMA BillingKept ==
  ASSUME BoletoInv, NEW r \in Request, NEW x, billing' = [billing EXCEPT ![r] = x], Knows(x)',
         \A b \in Boleto : gateway[b].state = "cancelled" => gateway'[b].state = "cancelled"
  PROVE  \A q \in Request : Knows(billing[q])'
BY DEF BoletoInv, Knows, G!TypeOK


\* A request steps; rows, boletos and what was crossed stay.
LEMMA OnlyBilling ==
  ASSUME BoletoInv, NEW r \in Request, NEW x, billing' = [billing EXCEPT ![r] = x], Knows(x),
         UNCHANGED <<row, gateway, crossed>>
  PROVE  BoletoInv'
<1>1. Knows(x)'
  BY DEF Knows
<1>2. \A q \in Request : Knows(billing[q])'
  BY <1>1, BillingKept
<1>3. G!TypeOK'
  BY DEF BoletoInv, G!TypeOK, Knows, Billing
<1> QED
  BY <1>2, <1>3 DEF BoletoInv, TellsOf

\* A status is written into a row: another boleto's, or one the boleto has.
LEMMA WrittenTells ==
  ASSUME BoletoInv, NEW e \in Entry, NEW b \in Boleto, NEW status \in G!Status, row[e] # None,
         G!Written(e, b, status), gateway' = gateway,
         status = "CANCELED" => gateway[b].state = "cancelled",
         status = "PAID" => gateway[b].state = "paid"
  PROVE  /\ row' \in [Entry -> [boleto : Boleto, status : G!Status, branch : Branch] \cup {None}]
         /\ crossed' \subseteq Entry
         /\ \A o \in Entry : TellsOf(o)'
<1>1. row[e] \in [boleto : Boleto, status : G!Status, branch : Branch]
  BY DEF BoletoInv, G!TypeOK
<1>2. LET x == [row[e] EXCEPT !.status = status]
      IN  /\ x \in [boleto : Boleto, status : G!Status, branch : Branch]
          /\ x.status = status /\ x.boleto = row[e].boleto
          /\ row' = [row EXCEPT ![e] = x]
  BY <1>1 DEF G!Written
<1>3. crossed' = IF row[e].boleto = b THEN crossed \ {e} ELSE crossed \cup {e}
  BY DEF G!Written
<1> QED
  BY <1>1, <1>2, <1>3 DEF BoletoInv, G!TypeOK, TellsOf

LEMMA BoletoStep ==
  ASSUME BoletoInv, [G!Next]_boletoVars
  PROVE  BoletoInv'
<1>1. ASSUME NEW r \in Request, NEW e \in Entry, NEW branch \in Branch,
             G!GenerateCheck(r, e, branch) \/ G!CancelFind(r, e, branch)
      PROVE  BoletoInv'
  <2>1. \A b \in Boleto \cup {None}, at \in {"posting", "deleting"} :
          Knows([at |-> at, entry |-> e, branch |-> branch, boleto |-> b, attempt |-> 1, answered |-> FALSE])
    BY BoundsAssumption DEF Knows, Billing, G!Cancels
  <2>2. CASE G!GenerateCheck(r, e, branch)
    BY <2>1, <2>2, OnlyBilling DEF G!GenerateCheck
  <2>3. CASE G!CancelFind(r, e, branch)
    <3> DEFINE b == IF G!Found(e, branch) THEN row[e].boleto ELSE None
    <3>1. b \in Boleto \cup {None}
      BY DEF G!Found, BoletoInv, G!TypeOK
    <3>2. billing' = [billing EXCEPT ![r] =
            [at |-> "deleting", entry |-> e, branch |-> branch, boleto |-> b, attempt |-> 1, answered |-> FALSE]]
          /\ UNCHANGED <<row, gateway, crossed>>
      BY <2>3 DEF G!CancelFind
    <3> HIDE DEF b
    <3> QED
      BY <2>1, <3>1, <3>2, OnlyBilling
  <2> QED
    BY <1>1, <2>2, <2>3
<1>2. ASSUME NEW r \in Request, G!AttemptFails(r) \/ G!Answer(r)
      PROVE  BoletoInv'
  <2>1. billing[r] \in Billing /\ billing[r].at \in {"posting", "deleting"}
    BY <1>2 DEF G!AttemptFails, G!Answer, BoletoInv, Knows, G!Idle
  <2>2. Knows(G!AfterFailure(billing[r])) /\ Knows([billing[r] EXCEPT !.answered = TRUE])
    <3> PICK q, f, a : q = billing[r] /\ f = G!AfterFailure(q) /\ a = [q EXCEPT !.answered = TRUE]
      OBVIOUS
    <3>1. a \in Billing /\ a.at = q.at
      BY <2>1, BillingChanges
    <3>2. f = G!Idle \/ (f \in Billing /\ f.at = q.at)
      BY <2>1, BillingChanges
    <3> QED
      BY <2>1, <3>1, <3>2 DEF Knows, G!Idle
  <2>3. \E x : Knows(x) /\ billing' = [billing EXCEPT ![r] = x]
    <3>1. CASE G!AttemptFails(r)
      BY <3>1, <2>2 DEF G!AttemptFails
    <3>2. CASE G!Answer(r)
      BY <3>2, <2>2 DEF G!Answer
    <3> QED
      BY <1>2, <3>1, <3>2
  <2>4. UNCHANGED <<row, gateway, crossed>>
    BY <1>2 DEF G!AttemptFails, G!Answer
  <2> QED
    BY <2>3, <2>4, OnlyBilling
<1>3. ASSUME NEW r \in Request, NEW b \in Boleto, NEW lost_ \in BOOLEAN, G!Post(r, b, lost_)
      PROVE  BoletoInv'
  <2>1. billing[r] \in Billing /\ billing[r].at = "posting" /\ billing[r].entry \in Entry
    BY <1>3 DEF G!Post, BoletoInv, Knows, G!Idle, Billing
  <2> PICK x : x = IF lost_ THEN G!AfterFailure(billing[r])
                   ELSE IF billing[r].answered THEN G!Idle ELSE [billing[r] EXCEPT !.at = "posted", !.boleto = b]
    OBVIOUS
  <2>2. x = G!Idle \/ (x \in Billing /\ (x.at = "posting" \/ (x.at = "posted" /\ x.boleto = b)))
    <3>1. CASE lost_
      BY <2>1, <3>1, BillingChanges
    <3>2. CASE ~lost_ /\ billing[r].answered
      BY <3>2
    <3>3. CASE ~lost_ /\ ~billing[r].answered
      <4>1. x = Posted(billing[r], b)
        BY <3>3 DEF Posted
      <4>2. \A q \in Billing : Posted(q, b) \in Billing /\ Posted(q, b).at = "posted" /\ Posted(q, b).boleto = b
        BY BillingChanges
      <4> QED
        BY <2>1, <4>1, <4>2
    <3> QED
      BY <3>1, <3>2, <3>3
  <2>3. /\ gateway[b].state = "new" /\ gateway' = [gateway EXCEPT ![b] = [state |-> "live", entry |-> billing[r].entry]]
        /\ billing' = [billing EXCEPT ![r] = x] /\ UNCHANGED <<row, crossed>>
    BY <1>3 DEF G!Post
  <2>4. Knows(x)'
    BY <2>2 DEF Knows, G!Idle
  <2>5. \A c \in Boleto : gateway[c].state \in {"cancelled", "paid"} => gateway'[c] = gateway[c]
    BY <2>3 DEF BoletoInv, G!TypeOK
  <2>6. \A q \in Request : Knows(billing[q])'
    BY <2>3, <2>4, <2>5, BillingKept
  <2>7. G!TypeOK' /\ \A c \in Boleto : gateway'[c].state # "new" => gateway'[c].entry \in Entry
    BY <2>1, <2>2, <2>3 DEF BoletoInv, G!TypeOK, Billing
  <2>8. \A e \in Entry : TellsOf(e)'
    BY <2>3, <2>5 DEF BoletoInv, G!TypeOK, TellsOf
  <2> QED
    BY <2>6, <2>7, <2>8 DEF BoletoInv
<1>4. ASSUME NEW r \in Request, NEW status \in {"PENDING", "ACTIVE"}, G!Upsert(r, status)
      PROVE  BoletoInv'
  <2> DEFINE q == billing[r]
             branch == IF row[q.entry] = None THEN q.branch ELSE row[q.entry].branch
             x == [boleto |-> q.boleto, status |-> status, branch |-> branch]
  <2>1. q \in Billing /\ q.entry \in Entry /\ q.boleto \in Boleto
    BY <1>4 DEF G!Upsert, BoletoInv, Knows, G!Idle, Billing
  <2>2. branch \in Branch
    BY <2>1 DEF BoletoInv, G!TypeOK, Billing
  <2>3. /\ row' = [row EXCEPT ![q.entry] = x] /\ crossed' = crossed \ {q.entry}
        /\ billing' = [billing EXCEPT ![r] = G!Idle] /\ gateway' = gateway
    BY <1>4 DEF G!Upsert
  <2>4. x \in [boleto : Boleto, status : G!Status, branch : Branch] /\ x.status = status
    BY <2>1, <2>2 DEF G!Status
  <2> HIDE DEF q, branch, x
  <2>5. \A o \in Request : Knows(billing[o])'
    BY <2>3, BillingKept DEF Knows, G!Idle
  <2>6. G!TypeOK'
    BY <2>1, <2>3, <2>4 DEF BoletoInv, G!TypeOK
  <2>7. \A e \in Entry : TellsOf(e)'
    BY <2>1, <2>3, <2>4 DEF BoletoInv, G!TypeOK, TellsOf
  <2> QED
    BY <2>3, <2>5, <2>6, <2>7 DEF BoletoInv
<1>5. ASSUME NEW r \in Request, G!Delete(r)
      PROVE  BoletoInv'
  <2> PICK b, x, g :
        /\ b = billing[r].boleto
        /\ x = IF billing[r].answered THEN G!Idle ELSE [billing[r] EXCEPT !.at = "deleted"]
        /\ g = [gateway[b] EXCEPT !.state = "cancelled"]
    OBVIOUS
  <2>1. billing[r] \in Billing /\ b \in Boleto
    BY <1>5 DEF G!Delete, BoletoInv, Knows, G!Idle, Billing
  <2>2. x = G!Idle \/ (x \in Billing /\ x.at = "deleted" /\ x.boleto = b)
    BY <2>1, BillingChanges DEF Billing
  <2>3. g = [state |-> "cancelled", entry |-> gateway[b].entry]
    BY <2>1 DEF BoletoInv, G!TypeOK
  <2>4. /\ gateway[b].state \in {"live", "cancelled"} /\ gateway' = [gateway EXCEPT ![b] = g]
        /\ billing' = [billing EXCEPT ![r] = x] /\ UNCHANGED <<row, crossed>>
    BY <1>5 DEF G!Delete
  <2>5. /\ gateway'[b].state = "cancelled" /\ gateway'[b].entry = gateway[b].entry /\ gateway[b].state # "paid"
        /\ gateway[b].entry \in Entry
        /\ \A c \in Boleto : c # b => gateway'[c] = gateway[c]
    BY <2>1, <2>3, <2>4 DEF BoletoInv, G!TypeOK
  <2>6. Knows(x)'
    BY <2>1, <2>2, <2>5 DEF Knows, G!Idle
  <2>7. \A q \in Request : Knows(billing[q])'
    BY <2>4, <2>5, <2>6, BillingKept
  <2>8. G!TypeOK'
    BY <2>1, <2>2, <2>3, <2>4, <2>5 DEF BoletoInv, G!TypeOK, Billing
  <2>9. \A e \in Entry : TellsOf(e)'
    BY <2>4, <2>5 DEF BoletoInv, G!TypeOK, TellsOf
  <2> QED
    BY <2>5, <2>7, <2>8, <2>9 DEF BoletoInv
<1>6. ASSUME NEW r \in Request, G!MarkCancelled(r)
      PROVE  BoletoInv'
  <2>1. /\ billing[r].boleto \in Boleto /\ billing[r].entry \in Entry
        /\ gateway[billing[r].boleto].state = "cancelled"
    BY <1>6 DEF G!MarkCancelled, BoletoInv, Knows, G!Idle, Billing
  <2>2. billing' = [billing EXCEPT ![r] = G!Idle] /\ gateway' = gateway /\ Knows(G!Idle)
    BY <1>6 DEF G!MarkCancelled, Knows, G!Idle
  <2>3. CASE G!Found(billing[r].entry, billing[r].branch)
    <3>1. row[billing[r].entry] # None /\ G!Written(billing[r].entry, billing[r].boleto, "CANCELED")
      BY <1>6, <2>3 DEF G!MarkCancelled, G!Found
    <3>2. /\ row' \in [Entry -> [boleto : Boleto, status : G!Status, branch : Branch] \cup {None}]
          /\ crossed' \subseteq Entry
          /\ \A o \in Entry : TellsOf(o)'
      BY <2>1, <2>2, <3>1, WrittenTells DEF G!Status
    <3>3. \A o \in Request : Knows(billing[o])'
      BY <2>2, BillingKept DEF Knows, G!Idle
    <3> QED
      BY <2>2, <3>2, <3>3 DEF BoletoInv, G!TypeOK
  <2>4. CASE ~G!Found(billing[r].entry, billing[r].branch)
    BY <1>6, <2>2, <2>4, OnlyBilling DEF G!MarkCancelled
  <2> QED
    BY <2>3, <2>4
<1>7. ASSUME NEW b \in Boleto, G!Pay(b)
      PROVE  BoletoInv'
  <2>1. LET g == [gateway[b] EXCEPT !.state = "paid"]
        IN  g = [state |-> "paid", entry |-> gateway[b].entry] /\ gateway' = [gateway EXCEPT ![b] = g]
    BY <1>7 DEF G!Pay, BoletoInv, G!TypeOK
  <2>2. gateway[b].state = "live" /\ gateway[b].entry \in Entry /\ UNCHANGED <<row, billing, crossed>>
    BY <1>7 DEF G!Pay, BoletoInv
  <2>3. \A c \in Boleto : gateway[c].state \in {"cancelled", "paid"} => gateway'[c] = gateway[c]
    BY <2>1, <2>2 DEF BoletoInv, G!TypeOK
  <2>4. G!TypeOK' /\ \A c \in Boleto : gateway'[c].state # "new" => gateway'[c].entry \in Entry
    BY <2>1, <2>2 DEF BoletoInv, G!TypeOK
  <2>5. \A q \in Request : Knows(billing[q])'
    BY <2>2, <2>3 DEF BoletoInv, Knows
  <2>6. \A e \in Entry : TellsOf(e)'
    BY <2>2, <2>3 DEF BoletoInv, G!TypeOK, TellsOf
  <2> QED
    BY <2>4, <2>5, <2>6 DEF BoletoInv
<1>8. ASSUME NEW b \in Boleto, NEW status \in G!Status, G!HandleWebhook(b, status)
      PROVE  BoletoInv'
  <2>1. /\ gateway[b].state # "new"
        /\ status = "CANCELED" => gateway[b].state = "cancelled"
        /\ status = "PAID" => gateway[b].state = "paid"
    BY <1>8 DEF G!HandleWebhook, G!Reported, BoletoInv, G!TypeOK
  <2>2. gateway[b].entry \in Entry /\ row[gateway[b].entry] # None /\ G!Written(gateway[b].entry, b, status)
        /\ UNCHANGED <<gateway, billing>>
    BY <1>8, <2>1 DEF G!HandleWebhook, BoletoInv
  <2>3. /\ row' \in [Entry -> [boleto : Boleto, status : G!Status, branch : Branch] \cup {None}]
        /\ crossed' \subseteq Entry
        /\ \A o \in Entry : TellsOf(o)'
    BY <2>1, <2>2, WrittenTells
  <2>4. \A q \in Request : Knows(billing[q])'
    BY <2>2 DEF BoletoInv, Knows
  <2> QED
    BY <2>2, <2>3, <2>4 DEF BoletoInv, G!TypeOK
<1>9. CASE UNCHANGED boletoVars
  BY <1>9 DEF boletoVars, BoletoInv, G!TypeOK, TellsOf, Knows
<1> QED
  BY <1>1, <1>2, <1>3, <1>4, <1>5, <1>6, <1>7, <1>8, <1>9 DEF G!Next

-----------------------------------------------------------------------------
(* Categories: no cycle without a race *)

\* The walk of an update: above the new parent, up to where the walk stands, is nothing
\* but categories that were read, none of them the one that moves.
Walked(q, Seen) ==
  /\ q.cat \notin Seen /\ q.parent \in Seen \cup {q.next}
  /\ \A w \in Seen : parent[w] \in Seen \cup {q.next}

\* What a request that was not overtaken may rely on.
Sound(q) ==
  /\ q.kind = "create" => state[q.cat] = "new"
  /\ q.kind = "update" => q.next # q.cat /\ \E Seen \in SUBSET Category : Walked(q, Seen)
  /\ q.parent # None /\ q.next # q.parent => state[q.parent] # "new"

NoCycle == \A S \in (SUBSET Category) \ {{}} : \E c \in S : parent[c] \notin S

Forest ==
  /\ NoCycle
  /\ \A c \in Category : parent[c] # None => state[parent[c]] # "new"
  /\ \A r \in Request : editing[r] # None /\ ~editing[r].stale => Sound(editing[r])

CategoryInv == H!TypeOK /\ (raced \/ Forest)

Edit ==
  [kind : {"create", "update"}, cat : Category, parent : Category \cup {None},
   next : Category \cup {None}, stale : BOOLEAN]

LEMMA CategoryInvImplies == CategoryInv => H!NoCycleUnlessRaced
BY DEF CategoryInv, Forest, NoCycle, H!NoCycleUnlessRaced

LEMMA CategoryInit == H!Init => CategoryInv
<1>1. None \notin Category
  BY NoneAssumption
<1> QED
  BY <1>1 DEF H!Init, CategoryInv, H!TypeOK, Forest, NoCycle

\* A request goes on, or ends; categories stay.
LEMMA OnlyEditing ==
  ASSUME CategoryInv, NEW r \in Request, NEW q \in Edit \cup {None},
         editing' = [editing EXCEPT ![r] = q], UNCHANGED <<state, parent, raced>>,
         Forest /\ q # None /\ ~q.stale => Sound(q)
  PROVE  CategoryInv'
<1>1. H!TypeOK'
  BY DEF CategoryInv, H!TypeOK, Edit
<1>2. ASSUME Forest PROVE Forest'
  <2>1. \A s \in Request : editing'[s] = IF s = r THEN q ELSE editing[s]
    BY DEF CategoryInv, H!TypeOK
  <2>2. \A x : Sound(x)' <=> Sound(x)
    BY DEF Sound, Walked
  <2>3. ASSUME NEW s \in Request, editing'[s] # None, ~editing'[s].stale PROVE Sound(editing[s])'
    <3> PICK x : x = editing'[s]
      OBVIOUS
    <3>1. Sound(x)
      BY <1>2, <2>1, <2>3 DEF Forest
    <3> QED
      BY <3>1, <2>2
  <2> QED
    BY <1>2, <2>3 DEF Forest, NoCycle
<1> QED
  BY <1>1, <1>2 DEF CategoryInv

\* Hanging a category below another makes no cycle, if whatever is above the new parent
\* leads to the top without it, or if nothing is below it.
LEMMA NoCycleByUpdate ==
  ASSUME NoCycle, parent \in [Category -> Category \cup {None}], NEW c \in Category, NEW p \in Category \cup {None},
         NEW Seen \in SUBSET Category, c \notin Seen, p \in Seen \cup {None}, \A w \in Seen : parent[w] \in Seen \cup {None},
         parent' = [parent EXCEPT ![c] = p]
  PROVE  NoCycle'
<1> SUFFICES ASSUME NEW S \in (SUBSET Category) \ {{}}, \A x \in S : parent'[x] \in S
             PROVE  FALSE
  BY DEF NoCycle
<1>1. c \in S
  BY DEF NoCycle
<1>2. p \in Seen /\ p \in S
  BY <1>1, NoneAssumption
<1>3. \A w \in Seen \cap S : parent[w] \in Seen \cap S
  BY NoneAssumption
<1> QED
  BY <1>2, <1>3 DEF NoCycle

LEMMA NoCycleByCreation ==
  ASSUME NoCycle, parent \in [Category -> Category \cup {None}], NEW c \in Category, NEW p \in Category \cup {None},
         p # c, \A x \in Category : parent[x] # c, parent' = [parent EXCEPT ![c] = p]
  PROVE  NoCycle'
<1> SUFFICES ASSUME NEW S \in (SUBSET Category) \ {{}}, \A x \in S : parent'[x] \in S
             PROVE  FALSE
  BY DEF NoCycle
<1>1. c \in S
  BY DEF NoCycle
<1>2. p \in S \ {c}
  BY <1>1
<1>3. \A x \in S \ {c} : parent[x] \in S \ {c}
  OBVIOUS
<1> QED
  BY <1>2, <1>3 DEF NoCycle

\* What update and create write, when nobody overtook them.
LEMMA WriteKeepsForest ==
  ASSUME CategoryInv, Forest, NEW r \in Request, NEW q, q = editing[r], q \in Edit, q # None, ~q.stale, q.next = None,
         q.kind = "create" \/ H!Live(q.cat),
         state' = [state EXCEPT ![q.cat] = "live"], parent' = [parent EXCEPT ![q.cat] = q.parent],
         \A s \in Request : editing'[s] = None \/ editing'[s].stale
  PROVE  Forest'
<1>1. Sound(q) /\ q.cat \in Category /\ q.parent \in Category \cup {None} /\ q.kind \in {"create", "update"}
  BY DEF Forest, Edit
<1>2. /\ parent \in [Category -> Category \cup {None}]
      /\ state \in [Category -> {"new", "live", "deleted"}]
  BY DEF CategoryInv, H!TypeOK
<1>3. NoCycle'
  <2>1. CASE q.kind = "update"
    <3>1. PICK Seen \in SUBSET Category : Walked(q, Seen)
      BY <1>1, <2>1 DEF Sound
    <3>2. q.cat \notin Seen /\ q.parent \in Seen \cup {None} /\ \A w \in Seen : parent[w] \in Seen \cup {None}
      BY <3>1 DEF Walked
    <3> QED
      BY <1>1, <1>2, <3>2, NoCycleByUpdate DEF Forest
  <2>2. CASE q.kind = "create"
    <3>1. \A x \in Category : parent[x] # q.cat
      BY <1>1, <2>2, NoneAssumption DEF Forest, Sound
    <3>2. q.parent # q.cat
      BY <1>1, <2>2, NoneAssumption DEF Sound
    <3> QED
      BY <1>1, <1>2, <3>1, <3>2, NoCycleByCreation DEF Forest
  <2> QED
    BY <1>1, <2>1, <2>2
<1>4. ASSUME NEW c \in Category, parent'[c] # None PROVE state'[parent'[c]] # "new"
  <2>1. parent'[c] \in Category /\ state[parent'[c]] # "new"
    <3>1. CASE c = q.cat
      BY <1>1, <1>2, <1>4, <3>1 DEF Sound
    <3>2. CASE c # q.cat
      BY <1>1, <1>2, <1>4, <3>2 DEF Forest
    <3> QED
      BY <3>1, <3>2
  <2> QED
    BY <1>2, <2>1
<1> QED
  BY <1>3, <1>4 DEF Forest

LEMMA CategoryStep ==
  ASSUME CategoryInv, [H!Next]_categoryVars
  PROVE  CategoryInv'
<1>1. ASSUME NEW r \in Request, NEW c \in Category, NEW p \in Category \cup {None}, NEW kind \in {"create", "update"},
             H!Ask(r, kind, c, p), kind = "create" => state[c] = "new", kind = "update" => p # c
      PROVE  CategoryInv'
  <2> PICK q : q = [kind |-> kind, cat |-> c, parent |-> p, next |-> p, stale |-> FALSE]
    OBVIOUS
  <2>1. q \in Edit
    BY DEF Edit
  <2>2. Sound(q)
    <3>1. kind = "update" => Walked(q, {})
      BY DEF Walked
    <3> QED
      BY <1>1, <3>1 DEF Sound
  <2> QED
    BY <1>1, <2>1, <2>2, OnlyEditing DEF H!Ask
<1>2. ASSUME NEW r \in Request, H!Read(r) PROVE CategoryInv'
  <2> PICK q : q = editing[r]
    OBVIOUS
  <2>1. q \in Edit /\ q # None /\ q.next # None /\ q.next \in Category /\ UNCHANGED <<state, parent, raced>>
    BY <1>2 DEF H!Read, CategoryInv, H!TypeOK, Edit
  <2>2. CASE ~(H!Live(q.next) /\ H!Above(q) # q.cat)
    BY <1>2, <2>1, <2>2, OnlyEditing DEF H!Read, H!End
  <2>3. CASE H!Live(q.next) /\ H!Above(q) # q.cat
    <3> PICK x, a : x = [q EXCEPT !.next = a] /\ a = H!Above(q)
      OBVIOUS
    <3>1. a \in Category \cup {None}
      BY <2>1 DEF H!Above, CategoryInv, H!TypeOK
    <3>2. /\ x \in Edit /\ x.kind = q.kind /\ x.cat = q.cat /\ x.parent = q.parent /\ x.stale = q.stale
          /\ x.next = a
      BY <2>1, <3>1 DEF Edit
    <3>3. editing' = [editing EXCEPT ![r] = x]
      BY <1>2, <2>1, <2>3 DEF H!Read
    <3>4. ASSUME Forest, ~q.stale PROVE Sound(x)
      <4>1. Sound(q) /\ state[q.next] # "new"
        BY <2>1, <2>3, <3>4 DEF Forest, H!Live
      <4>2. ASSUME q.kind = "update" PROVE \E Seen \in SUBSET Category : Walked(x, Seen)
        <5>1. PICK Seen \in SUBSET Category : Walked(q, Seen)
          BY <4>1, <4>2 DEF Sound
        <5>2. a = parent[q.next] /\ q.next # q.cat
          BY <4>1, <4>2 DEF H!Above, Sound
        <5>3. Walked(x, Seen \cup {q.next})
          BY <3>2, <5>1, <5>2 DEF Walked
        <5> QED
          BY <2>1, <5>3
      <4>3. x.next # x.cat
        BY <2>3, <3>2
      <4>4. x.parent # None /\ x.next # x.parent => state[x.parent] # "new"
        BY <3>2, <4>1 DEF Sound
      <4>5. x.kind = "create" => state[x.cat] = "new"
        BY <3>2, <4>1 DEF Sound
      <4> QED
        BY <3>2, <4>2, <4>3, <4>4, <4>5 DEF Sound
    <3> QED
      BY <2>1, <3>2, <3>3, <3>4, OnlyEditing
  <2> QED
    BY <2>2, <2>3
<1>3. ASSUME NEW r \in Request, H!Write(r) PROVE CategoryInv'
  <2> PICK q : q = editing[r]
    OBVIOUS
  <2>1. q \in Edit /\ q # None /\ q.next = None
    BY <1>3 DEF H!Write, CategoryInv, H!TypeOK, Edit
  <2>2. CASE ~(q.kind = "create" \/ H!Live(q.cat))
    BY <1>3, <2>1, <2>2, OnlyEditing DEF H!Write, H!End
  <2>3. CASE q.kind = "create" \/ H!Live(q.cat)
    <3>1. /\ state' = [state EXCEPT ![q.cat] = "live"] /\ parent' = [parent EXCEPT ![q.cat] = q.parent]
          /\ raced' = (raced \/ q.stale) /\ editing' = H!Overtaken(r)
      BY <1>3, <2>3 DEF H!Write
    <3>2. \A s \in Request : editing'[s] \in Edit \cup {None} /\ (editing'[s] = None \/ editing'[s].stale)
      <4> SUFFICES ASSUME NEW s \in Request, s # r, editing[s] # None
                   PROVE  [editing[s] EXCEPT !.stale = TRUE] \in Edit /\ [editing[s] EXCEPT !.stale = TRUE].stale
        BY <3>1 DEF H!Overtaken
      <4>1. editing[s] \in Edit
        BY DEF CategoryInv, H!TypeOK, Edit
      <4> QED
        BY <4>1 DEF Edit
    <3>3. editing' \in [Request -> Edit \cup {None}]
      BY <3>1, <3>2 DEF H!Overtaken
    <3>4. raced' \in BOOLEAN
      BY <3>1 DEF CategoryInv, H!TypeOK
    <3>5. H!TypeOK'
      BY <2>1, <3>1, <3>3, <3>4 DEF CategoryInv, H!TypeOK, Edit
    <3>6. ~raced' => ~raced /\ ~q.stale
      BY <3>1
    <3>7. ~raced /\ ~q.stale => Forest'
      BY <2>1, <2>3, <3>1, <3>2, WriteKeepsForest DEF CategoryInv
    <3> QED
      BY <3>5, <3>6, <3>7 DEF CategoryInv
  <2> QED
    BY <2>2, <2>3
<1>4. ASSUME NEW c \in Category, H!SoftDelete(c) PROVE CategoryInv'
  <2>1. /\ state[c] = "live" /\ state' = [state EXCEPT ![c] = "deleted"] /\ UNCHANGED <<parent, editing, raced>>
    BY <1>4 DEF H!SoftDelete, H!Live
  <2>2. \A x \in Category : state'[x] = "new" <=> state[x] = "new"
    BY <2>1 DEF CategoryInv, H!TypeOK
  <2>3. H!TypeOK'
    BY <2>1 DEF CategoryInv, H!TypeOK
  <2>4. ASSUME Forest PROVE Forest'
    <3>1. ASSUME NEW q \in Edit, Sound(q) PROVE Sound(q)'
      BY <2>1, <2>2, <3>1 DEF Sound, Walked, Edit
    <3>2. ASSUME NEW r \in Request, editing'[r] # None, ~editing'[r].stale PROVE Sound(editing[r])'
      <4> PICK q : q = editing'[r]
        OBVIOUS
      <4>1. q \in Edit /\ Sound(q) /\ q = editing[r]
        BY <2>1, <2>4, <3>2 DEF Forest, CategoryInv, H!TypeOK, Edit
      <4>2. Sound(q)'
        BY <3>1, <4>1
      <4> QED
        BY <2>1, <4>1, <4>2
    <3>3. \A x \in Category : parent'[x] # None => state'[parent'[x]] # "new"
      BY <2>1, <2>2, <2>4 DEF Forest, CategoryInv, H!TypeOK
    <3> QED
      BY <2>1, <2>4, <3>2, <3>3 DEF Forest, NoCycle
  <2> QED
    BY <2>1, <2>3, <2>4 DEF CategoryInv
<1>5. CASE UNCHANGED categoryVars
  BY <1>5 DEF categoryVars, CategoryInv, H!TypeOK, Forest, NoCycle, Sound, Walked
<1> QED
  BY <1>1, <1>2, <1>3, <1>4, <1>5 DEF H!Next, H!AskCreate, H!AskUpdate

-----------------------------------------------------------------------------
(* Tenancy: what is recorded is applied, and what is cached is stored *)

Process == [at : Steps, tenant : Tenant, schema : Schema, m : Migration, mode : {"onboard", "apply", "retry"}]

\* A process works in a schema of its tenant: in the stored one, unless the tenant is
\* damaged; and what it is about to record is there.
Works(x) ==
  x = Idle \/
    /\ x \in Process /\ x.schema[1] = x.tenant /\ tenants[x.tenant] # None
    /\ x.tenant \notin damaged =>
         /\ x.schema = tenants[x.tenant].schema
         /\ x.at = "record" => x.m \in schemas[x.schema].tables

\* The stored schema is the tenant's own, and the one its name stands for, unless it is damaged.
Named(t) ==
  tenants[t] # None =>
    /\ tenants[t].schema[1] = t
    /\ t \notin damaged => tenants[t].schema = SchemaName(t, tenants[t].name)

\* Nothing is recorded of a tenant before it is registered.
Unrecorded(t) == tenants[t] = None => \A m \in Migration : recorded[t][m] # "SUCCESS"

SawStored(l) == l # None => tenants[l.tenant] # None /\ l.schema = tenants[l.tenant].schema

TenancyInv ==
  /\ TypeOK
  /\ RecordedIsApplied /\ CachedSchemaIsStored
  /\ \A t \in Tenant : Named(t) /\ Unrecorded(t)
  /\ \A s \in Schema : ~schemas[s].exists => schemas[s].tables = {}
  /\ \A g \in Guarded : SawStored(lookup[g])
  /\ \A p \in Program : Works(program[p])

LEMMA TenancyInit == Init => TenancyInv
BY BoundsAssumption DEF Init, TenancyInv, TypeOK, RecordedIsApplied, CachedSchemaIsStored, Named, Unrecorded, SawStored, Works,
   NoSchema, Migration, Idle

LEMMA ProcessFields ==
  ASSUME NEW x \in Process
  PROVE  /\ x # Idle /\ x.tenant \in Tenant /\ x.schema \in Schema /\ x.m \in Migration /\ x.at \in Steps
         /\ \A at \in Steps : LET y == [x EXCEPT !.at = at]
                              IN  y \in Process /\ y.at = at /\ y.tenant = x.tenant /\ y.schema = x.schema /\ y.m = x.m
BY DEF Process, Idle, Steps

\* A process moves on or ends, and what the others rely on stays.
LEMMA OnlyProgram ==
  ASSUME TenancyInv, NEW p \in Program, NEW x, program' = [program EXCEPT ![p] = x], Works(x),
         starts' \in 0 .. MaxStarts, UNCHANGED <<tenants, recorded, schemas, schemaOf, lookup, damaged>>
  PROVE  TenancyInv'
<1>1. TypeOK'
  BY DEF TenancyInv, TypeOK, Works, Process
<1>2. ASSUME NEW q \in Program PROVE Works(program[q])'
  <2> PICK y : y = program'[q]
    OBVIOUS
  <2>1. Works(y)
    BY DEF TenancyInv, TypeOK
  <2>2. Works(y)'
    BY <2>1 DEF Works
  <2> QED
    BY <2>2
<1> QED
  BY <1>1, <1>2 DEF TenancyInv, RecordedIsApplied, CachedSchemaIsStored, Named, Unrecorded, SawStored

\* An onboarding or a run moves to a step other than that which records.
LEMMA MoveWorks ==
  ASSUME TenancyInv, NEW p \in Program, program[p] # Idle, NEW at \in Steps \ {"record"}
  PROVE  Works([program[p] EXCEPT !.at = at])
BY ProcessFields DEF TenancyInv, Works

LEMMA EndWorks == Works(Idle)
BY DEF Works

LEMMA AdvancedWorks ==
  ASSUME TenancyInv, NEW p \in Program, program[p] # Idle
  PROVE  Works(Advanced(p))
<1>1. program[p] \in Process
  BY DEF TenancyInv, Works
<1>2. ASSUME program[p].m < 3
      PROVE  LET y == [program[p] EXCEPT !.m = @ + 1, !.at = "check"]
             IN  y \in Process /\ y.at = "check" /\ y.tenant = program[p].tenant /\ y.schema = program[p].schema
  <2>1. program[p].m + 1 \in Migration
    BY <1>1, <1>2 DEF Process, Migration
  <2>2. \A n \in Migration : [program[p] EXCEPT !.m = n, !.at = "check"] \in Process
    BY <1>1 DEF Process, Steps
  <2> QED
    BY <1>1, <2>1, <2>2 DEF Process
<1>3. Works([program[p] EXCEPT !.at = "seed"])
  BY MoveWorks DEF Steps
<1> QED
  BY <1>1, <1>2, <1>3, EndWorks DEF Advanced, TenancyInv, Works

\* The tables of schemas only grow, save those of tenants that are damaged thereby.
Grown(s) == schemas[s].tables \subseteq schemas'[s].tables \/ s[1] \in damaged'

LEMMA SchemasGrow ==
  ASSUME TenancyInv, NEW p \in Program, NEW x, program' = [program EXCEPT ![p] = x], Works(x)',
         schemas' \in [Schema -> [exists : BOOLEAN, tables : SUBSET Migration, seeded : BOOLEAN]],
         \A s \in Schema : Grown(s) /\ (~schemas'[s].exists => schemas'[s].tables = {}),
         damaged \subseteq damaged', damaged' \subseteq Tenant,
         UNCHANGED <<tenants, recorded, schemaOf, lookup, starts>>
  PROVE  TenancyInv'
<1>1. TypeOK'
  BY DEF TenancyInv, TypeOK, Works, Process
<1>2. RecordedIsApplied'
  <2> SUFFICES ASSUME NEW t \in Tenant, tenants[t] # None, t \notin damaged'
               PROVE  {m \in Migration : recorded[t][m] = "SUCCESS"} \subseteq schemas'[tenants[t].schema].tables
    BY DEF RecordedIsApplied
  <2>1. tenants[t].schema \in Schema /\ tenants[t].schema[1] = t
    BY DEF TenancyInv, TypeOK, Named
  <2>2. schemas[tenants[t].schema].tables \subseteq schemas'[tenants[t].schema].tables
    BY <2>1 DEF Grown
  <2> QED
    BY <2>2 DEF TenancyInv, RecordedIsApplied
<1>3. ASSUME NEW q \in Program PROVE Works(program[q])'
  <2> PICK y : y = program'[q]
    OBVIOUS
  <2>1. CASE q = p
    BY <2>1 DEF TenancyInv, TypeOK
  <2>2. CASE q # p
    <3>1. Works(y) /\ y = program[q]
      BY <2>2 DEF TenancyInv, TypeOK
    <3>2. y # Idle => y \in Process /\ y.tenant \in Tenant /\ y.schema \in Schema
      BY <3>1 DEF Works, Process
    <3>3. Works(y)'
      BY <3>1, <3>2 DEF Works, Grown
    <3> QED
      BY <3>3
  <2> QED
    BY <2>1, <2>2
<1> QED
  BY <1>1, <1>2, <1>3 DEF TenancyInv, CachedSchemaIsStored, Named, Unrecorded, SawStored

\* A status row is written: SUCCESS only for what the schema has.
LEMMA StatusRecorded ==
  ASSUME TenancyInv, NEW p \in Program, program[p] # Idle, NEW status \in {"SUCCESS", "FAILED"},
         Recorded(p, status), status = "SUCCESS" => program[p].at = "record",
         NEW x, program' = [program EXCEPT ![p] = x], Works(x),
         UNCHANGED <<tenants, schemas, schemaOf, lookup, damaged, starts>>
  PROVE  TenancyInv'
<1> PICK q, t, m : q = program[p] /\ t = q.tenant /\ m = q.m
  OBVIOUS
<1>1. q \in Process /\ t \in Tenant /\ m \in Migration /\ Works(q)
  BY DEF TenancyInv, Works, Process
<1>2. recorded' = [recorded EXCEPT ![t][m] = status]
  BY DEF Recorded
<1>3. \A u \in Tenant, n \in Migration :
        recorded'[u][n] = "SUCCESS" => recorded[u][n] = "SUCCESS" \/ (u = t /\ n = m /\ status = "SUCCESS")
  BY <1>1, <1>2 DEF TenancyInv, TypeOK
<1>4. TypeOK'
  BY <1>1, <1>2 DEF TenancyInv, TypeOK, Works, Process
<1>5. RecordedIsApplied'
  BY <1>1, <1>3 DEF TenancyInv, RecordedIsApplied, Works
<1>6. ASSUME NEW r \in Program PROVE Works(program[r])'
  <2> PICK y : y = program'[r]
    OBVIOUS
  <2>1. Works(y)
    BY DEF TenancyInv, TypeOK
  <2>2. Works(y)'
    BY <2>1 DEF Works
  <2> QED
    BY <2>2
<1>7. ASSUME NEW u \in Tenant PROVE Unrecorded(u)'
  BY <1>1, <1>3 DEF TenancyInv, Unrecorded, Works
<1> QED
  BY <1>4, <1>5, <1>6, <1>7 DEF TenancyInv, CachedSchemaIsStored, Named, SawStored

\* A tenant is registered, or again: then its schema is kept, under whatever name.
LEMMA RegisterStep ==
  ASSUME TenancyInv, NEW p \in Program, NEW t \in Tenant, NEW n \in Name, Register(p, t, n)
  PROVE  TenancyInv'
<1> PICK x, new : /\ x = [at |-> "uncache", tenant |-> t, schema |-> SchemaName(t, n), m |-> 1, mode |-> "onboard"]
                  /\ new = [name |-> n, schema |-> IF tenants[t] = None THEN SchemaName(t, n) ELSE tenants[t].schema]
  OBVIOUS
<1>1. SchemaName(t, n) \in Schema /\ SchemaName(t, n)[1] = t /\ x \in Process
  BY DEF SchemaName, Schema, Process, Steps, Migration
<1>2. /\ tenants' = [tenants EXCEPT ![t] = new] /\ program' = [program EXCEPT ![p] = x]
      /\ damaged' = IF tenants[t] # None /\ tenants[t].schema # SchemaName(t, n) THEN damaged \cup {t} ELSE damaged
      /\ starts' \in 0 .. MaxStarts /\ UNCHANGED <<recorded, schemas, schemaOf, lookup>>
  <2>1. tenants' = [tenants EXCEPT ![t] =
          IF tenants[t] = None THEN [name |-> n, schema |-> SchemaName(t, n)]
          ELSE [name |-> n, schema |-> tenants[t].schema]]
    BY DEF Register, Reregistered
  <2>2. starts' \in 0 .. MaxStarts
    BY BoundsAssumption DEF Register, Start, TenancyInv, TypeOK
  <2> QED
    BY <2>1, <2>2 DEF Register
<1>3. new \in [name : Name, schema : Schema] /\ new # None /\ new.name = n
      /\ (tenants[t] # None => new.schema = tenants[t].schema)
      /\ (tenants[t] = None => new.schema = SchemaName(t, n))
  BY <1>1, NoneAssumption DEF TenancyInv, TypeOK
<1>4. TypeOK'
  BY <1>1, <1>2, <1>3 DEF TenancyInv, TypeOK, Process
<1>5. \A u \in Tenant : /\ u # t => tenants'[u] = tenants[u]
                        /\ tenants[u] # None => tenants'[u] # None /\ tenants'[u].schema = tenants[u].schema
                        /\ u \notin damaged' => u \notin damaged
  BY <1>2, <1>3 DEF TenancyInv, TypeOK
<1>6. Named(t)'
  BY <1>1, <1>2, <1>3 DEF TenancyInv, TypeOK, Named
<1>7. \A u \in Tenant : Named(u)'
  BY <1>5, <1>6 DEF TenancyInv, Named
<1>8. RecordedIsApplied'
  BY <1>2, <1>3, <1>5 DEF TenancyInv, RecordedIsApplied, Unrecorded
<1>9. CachedSchemaIsStored' /\ \A g \in Guarded : SawStored(lookup[g])'
  BY <1>2, <1>5 DEF TenancyInv, TypeOK, CachedSchemaIsStored, SawStored
<1>10. Works(x)'
  BY <1>1, <1>2, <1>3 DEF Works, TenancyInv, TypeOK
<1>11. ASSUME NEW q \in Program PROVE Works(program[q])'
  <2> PICK y : y = program'[q]
    OBVIOUS
  <2>1. CASE q = p
    BY <1>2, <1>10, <2>1 DEF TenancyInv, TypeOK
  <2>2. CASE q # p
    <3>1. Works(y) /\ y = program[q]
      BY <1>2, <2>2 DEF TenancyInv, TypeOK
    <3>2. Works(y)'
      BY <1>2, <1>5, <3>1 DEF Works, Process
    <3> QED
      BY <3>2
  <2> QED
    BY <2>1, <2>2
<1>12. \A u \in Tenant : Unrecorded(u)'
  BY <1>2, <1>5 DEF TenancyInv, Unrecorded
<1> QED
  BY <1>2, <1>4, <1>7, <1>8, <1>9, <1>11, <1>12 DEF TenancyInv

\* The guard's cache and its lookups; processes, schemas and tenants stay.
LEMMA OnlyGuard ==
  ASSUME TenancyInv, schemaOf' \in [Tenant -> Schema \cup {None}],
         lookup' \in [Guarded -> [tenant : Tenant, schema : Schema] \cup {None}],
         CachedSchemaIsStored', \A g \in Guarded : SawStored(lookup[g])',
         UNCHANGED <<tenants, recorded, schemas, program, starts, damaged>>
  PROVE  TenancyInv'
BY DEF TenancyInv, TypeOK, RecordedIsApplied, Named, Unrecorded, Works

LEMMA TenancyStep ==
  ASSUME TenancyInv, [Next]_vars
  PROVE  TenancyInv'
<1>1. ASSUME NEW p \in Program, Uncache(p) PROVE TenancyInv'
  <2>1. program[p] \in Process /\ program[p] # Idle
    BY <1>1 DEF Uncache, At, TenancyInv, Works
  <2> PICK x, t : x = [program[p] EXCEPT !.at = "schema"] /\ t = program[p].tenant
    OBVIOUS
  <2>2. program' = [program EXCEPT ![p] = x] /\ schemaOf' = [schemaOf EXCEPT ![t] = None]
        /\ UNCHANGED <<tenants, recorded, schemas, lookup, damaged, starts>>
    BY <1>1 DEF Uncache, Move
  <2>3. Works(x)
    BY <2>1, MoveWorks DEF Steps
  <2>4. TypeOK'
    BY <2>2, <2>3 DEF TenancyInv, TypeOK, Works, Process
  <2>5. CachedSchemaIsStored'
    BY <2>2 DEF TenancyInv, TypeOK, CachedSchemaIsStored
  <2>6. ASSUME NEW q \in Program PROVE Works(program[q])'
    <3> PICK y : y = program'[q]
      OBVIOUS
    <3>1. Works(y)
      BY <2>2, <2>3 DEF TenancyInv, TypeOK
    <3>2. Works(y)'
      BY <2>2, <3>1 DEF Works
    <3> QED
      BY <3>2
  <2> QED
    BY <2>2, <2>4, <2>5, <2>6 DEF TenancyInv, RecordedIsApplied, Named, Unrecorded, SawStored
<1>2. ASSUME NEW p \in Program, Seed(p) PROVE TenancyInv'
  <2>1. program[p] \in Process /\ program[p].schema \in Schema
    BY <1>2, ProcessFields DEF Seed, At, TenancyInv, Works
  <2>2. LET s == [schemas[program[p].schema] EXCEPT !.seeded = TRUE]
        IN  /\ s \in [exists : BOOLEAN, tables : SUBSET Migration, seeded : BOOLEAN]
            /\ s.tables = schemas[program[p].schema].tables /\ s.exists = schemas[program[p].schema].exists
            /\ schemas' = [schemas EXCEPT ![program[p].schema] = s]
    <3>1. schemas[program[p].schema] \in [exists : BOOLEAN, tables : SUBSET Migration, seeded : BOOLEAN]
      BY <2>1 DEF TenancyInv, TypeOK
    <3>2. schemas' = [schemas EXCEPT ![program[p].schema] = [schemas[program[p].schema] EXCEPT !.seeded = TRUE]]
      BY <1>2 DEF Seed
    <3> QED
      BY <3>1, <3>2
  <2>3. program' = [program EXCEPT ![p] = Idle] /\ UNCHANGED <<tenants, recorded, schemaOf, lookup, damaged, starts>>
    BY <1>2 DEF Seed, End
  <2>4. schemas' \in [Schema -> [exists : BOOLEAN, tables : SUBSET Migration, seeded : BOOLEAN]]
    BY <2>1, <2>2 DEF TenancyInv, TypeOK
  <2>5. \A s \in Schema : schemas'[s].tables = schemas[s].tables /\ schemas'[s].exists = schemas[s].exists
    BY <2>1, <2>2 DEF TenancyInv, TypeOK
  <2>6. \A s \in Schema : Grown(s) /\ (~schemas'[s].exists => schemas'[s].tables = {})
    BY <2>5 DEF Grown, TenancyInv
  <2>7. Works(Idle)' /\ damaged \subseteq damaged' /\ damaged' \subseteq Tenant
    BY <2>3 DEF Works, TenancyInv, TypeOK
  <2> QED
    BY <2>3, <2>4, <2>6, <2>7, SchemasGrow
<1>3. ASSUME NEW p \in Program, SeedFails(p) PROVE TenancyInv'
  BY <1>3, MoveWorks, OnlyProgram DEF SeedFails, Move, At, Steps, TenancyInv, TypeOK
<1>4. ASSUME NEW p \in Program, DropSchema(p) PROVE TenancyInv'
  <2>1. program[p] \in Process /\ program[p].schema \in Schema /\ program[p].tenant \in Tenant
        /\ program[p].schema[1] = program[p].tenant
    BY <1>4, ProcessFields DEF DropSchema, At, TenancyInv, Works
  <2>2. /\ schemas' = [schemas EXCEPT ![program[p].schema] = NoSchema] /\ damaged' = damaged \cup {program[p].tenant}
        /\ program' = [program EXCEPT ![p] = Idle] /\ UNCHANGED <<tenants, recorded, schemaOf, lookup, starts>>
    BY <1>4 DEF DropSchema, End
  <2>3. schemas' \in [Schema -> [exists : BOOLEAN, tables : SUBSET Migration, seeded : BOOLEAN]]
    BY <2>1, <2>2 DEF TenancyInv, TypeOK, NoSchema
  <2>4. \A s \in Schema : Grown(s) /\ (~schemas'[s].exists => schemas'[s].tables = {})
    BY <2>1, <2>2 DEF Grown, TenancyInv, TypeOK, NoSchema
  <2>5. Works(Idle)' /\ damaged \subseteq damaged' /\ damaged' \subseteq Tenant
    BY <2>1, <2>2 DEF Works, TenancyInv, TypeOK
  <2> QED
    BY <2>2, <2>3, <2>4, <2>5, SchemasGrow
<1>5. ASSUME NEW p \in Program, NEW t \in Tenant, NEW mode \in {"apply", "retry"}, StartRunner(p, t, mode)
      PROVE  TenancyInv'
  <2> PICK x : x = [at |-> "schema", tenant |-> t, schema |-> SchemaName(t, tenants[t].name), m |-> 1, mode |-> mode]
    OBVIOUS
  <2>1. /\ tenants[t] # None /\ program' = [program EXCEPT ![p] = x] /\ starts' \in 0 .. MaxStarts
        /\ UNCHANGED <<tenants, recorded, schemas, schemaOf, lookup, damaged>>
    BY <1>5, BoundsAssumption DEF StartRunner, Start, TenancyInv, TypeOK
  <2>2. tenants[t].name \in Name
    BY <2>1 DEF TenancyInv, TypeOK
  <2>3. x \in Process /\ x.schema[1] = t
    BY <2>2 DEF Process, Steps, Migration, SchemaName, Schema
  <2>4. Works(x)
    BY <2>1, <2>3 DEF Works, TenancyInv, Named
  <2> QED
    BY <2>1, <2>4, OnlyProgram
<1>6. ASSUME NEW p \in Program, CreateSchema(p) PROVE TenancyInv'
  <2>1. program[p] \in Process /\ program[p] # Idle /\ program[p].schema \in Schema
    BY <1>6, ProcessFields DEF CreateSchema, At, TenancyInv, Works
  <2> PICK x, s : /\ x = [program[p] EXCEPT !.at = "check"]
                  /\ s = IF schemas[program[p].schema].exists THEN schemas[program[p].schema] ELSE EmptySchema
    OBVIOUS
  <2>2. /\ schemas' = [schemas EXCEPT ![program[p].schema] = s] /\ program' = [program EXCEPT ![p] = x]
        /\ UNCHANGED <<tenants, recorded, schemaOf, lookup, damaged, starts>>
    BY <1>6 DEF CreateSchema, Move
  <2>3. /\ s \in [exists : BOOLEAN, tables : SUBSET Migration, seeded : BOOLEAN]
        /\ s.exists /\ s.tables = schemas[program[p].schema].tables
    BY <2>1 DEF EmptySchema, NoSchema, TenancyInv, TypeOK
  <2>4. schemas' \in [Schema -> [exists : BOOLEAN, tables : SUBSET Migration, seeded : BOOLEAN]]
    BY <2>1, <2>2, <2>3 DEF TenancyInv, TypeOK
  <2>5. \A c \in Schema : Grown(c) /\ (~schemas'[c].exists => schemas'[c].tables = {})
    BY <2>1, <2>2, <2>3 DEF Grown, TenancyInv, TypeOK
  <2>6. Works(x)
    BY <2>1, MoveWorks DEF Steps
  <2>7. x \in Process /\ x.at = "check" /\ x # Idle
    BY <2>1 DEF Process, Steps, Idle
  <2>8. Works(x)' /\ damaged \subseteq damaged' /\ damaged' \subseteq Tenant
    BY <2>2, <2>6, <2>7 DEF Works, TenancyInv, TypeOK
  <2> QED
    BY <2>2, <2>4, <2>5, <2>8, SchemasGrow
<1>7. ASSUME NEW p \in Program, Check(p) PROVE TenancyInv'
  <2>1. program[p] # Idle /\ UNCHANGED <<tenants, recorded, schemas, schemaOf, lookup, damaged, starts>>
    BY <1>7 DEF Check, At
  <2>2. Works(Advanced(p)) /\ Works([program[p] EXCEPT !.at = "apply"])
    BY <2>1, AdvancedWorks, MoveWorks DEF Steps
  <2>3. \E x : Works(x) /\ program' = [program EXCEPT ![p] = x]
    BY <1>7, <2>2 DEF Check
  <2> QED
    BY <2>1, <2>3, OnlyProgram DEF TenancyInv, TypeOK
<1>8. ASSUME NEW p \in Program, Apply(p) PROVE TenancyInv'
  <2>1. program[p] \in Process /\ program[p] # Idle /\ program[p].schema \in Schema /\ program[p].m \in Migration
        /\ Works(program[p])
    BY <1>8, ProcessFields DEF Apply, At, TenancyInv, Works
  <2> PICK x, s : /\ x = [program[p] EXCEPT !.at = "record"]
                  /\ s = [schemas[program[p].schema] EXCEPT !.tables = @ \cup {program[p].m}]
    OBVIOUS
  <2>2. /\ schemas' = [schemas EXCEPT ![program[p].schema] = s] /\ program' = [program EXCEPT ![p] = x]
        /\ schemas[program[p].schema].exists /\ UNCHANGED <<tenants, recorded, schemaOf, lookup, damaged, starts>>
    BY <1>8 DEF Apply, Applicable, Move
  <2>3. /\ s \in [exists : BOOLEAN, tables : SUBSET Migration, seeded : BOOLEAN]
        /\ s.exists /\ s.tables = schemas[program[p].schema].tables \cup {program[p].m}
    BY <2>1, <2>2 DEF TenancyInv, TypeOK
  <2>4. schemas' \in [Schema -> [exists : BOOLEAN, tables : SUBSET Migration, seeded : BOOLEAN]]
    BY <2>1, <2>2, <2>3 DEF TenancyInv, TypeOK
  <2>5. \A c \in Schema : Grown(c) /\ (~schemas'[c].exists => schemas'[c].tables = {})
    BY <2>1, <2>2, <2>3 DEF Grown, TenancyInv, TypeOK
  <2>6. x \in Process /\ x.tenant = program[p].tenant /\ x.schema = program[p].schema /\ x.m = program[p].m
    BY <2>1, ProcessFields DEF Steps
  <2>7. schemas'[x.schema].tables = schemas[program[p].schema].tables \cup {x.m}
    BY <2>1, <2>2, <2>3, <2>6 DEF TenancyInv, TypeOK
  <2>8. Works(x)' /\ damaged \subseteq damaged' /\ damaged' \subseteq Tenant
    BY <2>1, <2>2, <2>6, <2>7 DEF Works, TenancyInv, TypeOK
  <2> QED
    BY <2>2, <2>4, <2>5, <2>8, SchemasGrow
<1>9. ASSUME NEW p \in Program, Record(p) PROVE TenancyInv'
  <2>1. program[p] # Idle /\ program[p].at = "record" /\ Recorded(p, "SUCCESS")
        /\ program' = [program EXCEPT ![p] = Advanced(p)] /\ UNCHANGED <<tenants, schemas, schemaOf, lookup, damaged, starts>>
    BY <1>9 DEF Record, At
  <2>2. Works(Advanced(p))
    BY <2>1, AdvancedWorks
  <2> PICK x : x = Advanced(p)
    OBVIOUS
  <2> QED
    BY <2>1, <2>2, StatusRecorded
<1>10. ASSUME NEW p \in Program, Fail(p) PROVE TenancyInv'
  <2>1. program[p] # Idle /\ Recorded(p, "FAILED") /\ UNCHANGED <<tenants, schemas, schemaOf, lookup, damaged, starts>>
    BY <1>10 DEF Fail, At
  <2>2. \E x : Works(x) /\ program' = [program EXCEPT ![p] = x]
    BY <1>10, <2>1, MoveWorks, EndWorks DEF Fail, Move, End, Steps
  <2> QED
    BY <2>1, <2>2, StatusRecorded
<1>11. ASSUME NEW p \in Program, Crash(p) PROVE TenancyInv'
  BY <1>11, EndWorks, OnlyProgram DEF Crash, End, TenancyInv, TypeOK
<1>12. ASSUME NEW g \in Guarded, StoreSchema(g) PROVE TenancyInv'
  <2>1. lookup[g] # None /\ lookup[g].tenant \in Tenant /\ lookup[g].schema \in Schema /\ SawStored(lookup[g])
    BY <1>12 DEF StoreSchema, TenancyInv, TypeOK
  <2>2. /\ schemaOf' \in [Tenant -> Schema \cup {None}] /\ CachedSchemaIsStored'
        /\ lookup' \in [Guarded -> [tenant : Tenant, schema : Schema] \cup {None}]
        /\ \A f \in Guarded : SawStored(lookup[f])'
    BY <1>12, <2>1 DEF StoreSchema, TenancyInv, TypeOK, CachedSchemaIsStored, SawStored
  <2> QED
    BY <1>12, <2>2, OnlyGuard DEF StoreSchema
<1>13. ASSUME NEW g \in Guarded, NEW t \in Tenant, ReadSchema(g, t) PROVE TenancyInv'
  <2>1. tenants[t].schema \in Schema
    BY <1>13 DEF ReadSchema, TenancyInv, TypeOK
  <2>2. /\ schemaOf' \in [Tenant -> Schema \cup {None}] /\ CachedSchemaIsStored'
        /\ lookup' \in [Guarded -> [tenant : Tenant, schema : Schema] \cup {None}]
        /\ \A f \in Guarded : SawStored(lookup[f])'
    BY <1>13, <2>1 DEF ReadSchema, TenancyInv, TypeOK, CachedSchemaIsStored, SawStored
  <2> QED
    BY <1>13, <2>2, OnlyGuard DEF ReadSchema
<1>14. ASSUME NEW t \in Tenant, ExpireSchema(t) PROVE TenancyInv'
  <2>1. /\ schemaOf' \in [Tenant -> Schema \cup {None}] /\ CachedSchemaIsStored'
        /\ \A f \in Guarded : SawStored(lookup[f])'
    BY <1>14 DEF ExpireSchema, TenancyInv, TypeOK, CachedSchemaIsStored, SawStored
  <2> QED
    BY <1>14, <2>1, OnlyGuard DEF ExpireSchema, TenancyInv, TypeOK
<1>15. CASE UNCHANGED vars
  BY <1>15 DEF vars, TenancyInv, TypeOK, RecordedIsApplied, CachedSchemaIsStored, Named, Unrecorded, SawStored, Works
<1> QED
  BY <1>1, <1>2, <1>3, <1>4, <1>5, <1>6, <1>7, <1>8, <1>9, <1>10, <1>11, <1>12, <1>13, <1>14, <1>15, RegisterStep
     DEF Next, Onboarding, Migrating

-----------------------------------------------------------------------------
(* BranchSwitch: a result is filed under its branch *)

\* A query, and what came of it, is of the branch that is active in its tab.
FiledUnderActive(t) ==
  /\ \A f \in files[t] : f[1] = active[t]
  /\ \A c \in Call : call[t][c] # W!Idle => cookie # W!NoBranch
  /\ \A c \in Call : call[t][c] # W!Idle /\ call[t][c].kind = "query" => call[t][c].branch = active[t]

\* A request names the branch it is filed under, or takes it from the cookie, which another
\* tab has moved if it holds another branch.
Misnamed(t) ==
  /\ active[t] # W!NoBranch => cookie # W!NoBranch
  /\ t \notin moved /\ active[t] # W!NoBranch => cookie = active[t]
  /\ \A f \in files[t] : f[1] # f[2] => ~f[3] /\ t \in moved
  /\ \A c \in Call : call[t][c].at = "sent" /\ call[t][c].kind = "query" /\ call[t][c].branch # call[t][c].header
       => ~call[t][c].explicit /\ t \in moved

SwitchInv == W!TypeOK /\ \A t \in Tab : FiledUnderActive(t) /\ Misnamed(t)

LEMMA SwitchInvImplies == SwitchInv => W!MisfiledOnlyAcrossTabs
BY DEF SwitchInv, Misnamed, W!MisfiledOnlyAcrossTabs

LEMMA SwitchInit == W!Init => SwitchInv
BY DEF W!Init, SwitchInv, W!TypeOK, FiledUnderActive, Misnamed, W!CallState, W!Idle

Queued == [at : {"queued"}, kind : {"query", "mutation"}, branch : UserBranch, explicit : BOOLEAN]
Sent ==
  [at : {"sent"}, kind : {"query", "mutation"}, branch : UserBranch, explicit : BOOLEAN, header : UserBranch]

LEMMA CallFields ==
  ASSUME W!TypeOK, NEW t \in Tab, NEW c \in Call
  PROVE  /\ call[t][c] \in W!CallState
         /\ call[t][c].at = "queued" => call[t][c] \in Queued
         /\ call[t][c].at = "sent" => call[t][c] \in Sent
         /\ call[t][c] # W!Idle => call[t][c].branch \in UserBranch
BY DEF W!TypeOK, W!CallState, W!Idle, Queued, Sent

\* One request of a tab moves on.
LEMMA OneCall ==
  ASSUME SwitchInv, NEW t \in Tab, NEW c \in Call, NEW x \in W!CallState, call' = [call EXCEPT ![t][c] = x],
         x # W!Idle => cookie # W!NoBranch /\ (x.kind = "query" => x.branch = active[t]),
         x.at = "sent" /\ x.kind = "query" /\ x.branch # x.header => ~x.explicit /\ t \in moved,
         files' \in [Tab -> SUBSET (UserBranch \X UserBranch \X BOOLEAN)],
         \A s \in Tab : \A f \in files'[s] :
           f \in files[s] \/ (s = t /\ f[1] = active[t] /\ (f[1] # f[2] => ~f[3] /\ t \in moved)),
         UNCHANGED <<loaded, active, cookie, moved>>
  PROVE  SwitchInv'
<1>1. W!TypeOK'
  BY DEF SwitchInv, W!TypeOK
<1>2. \A s \in Tab, d \in Call : call'[s][d] = IF s = t /\ d = c THEN x ELSE call[s][d]
  BY DEF SwitchInv, W!TypeOK
<1>3. ASSUME NEW s \in Tab PROVE FiledUnderActive(s)' /\ Misnamed(s)'
  <2>1. FiledUnderActive(s) /\ Misnamed(s)
    BY DEF SwitchInv
  <2>2. FiledUnderActive(s)'
    BY <1>2, <2>1 DEF FiledUnderActive
  <2>3. Misnamed(s)'
    BY <1>2, <2>1 DEF Misnamed
  <2> QED
    BY <2>2, <2>3
<1> QED
  BY <1>1, <1>3 DEF SwitchInv

LEMMA SwitchBranchStep ==
  ASSUME SwitchInv, NEW t \in Tab, NEW b \in UserBranch, W!SwitchBranch(t, b)
  PROVE  SwitchInv'
<1>1. b # W!NoBranch
  BY BranchAssumption
<1>2. /\ call' = [call EXCEPT ![t] = [c \in Call |-> IF W!Cancelled(call[t][c], active[t]) THEN W!Idle ELSE call[t][c]]]
      /\ files' = [files EXCEPT ![t] = {f \in files[t] : f[1] # active[t]}]
      /\ cookie' = b /\ active' = [active EXCEPT ![t] = b] /\ loaded' = loaded
      /\ moved' = (IF cookie = b THEN moved ELSE Tab) \ {t}
  BY DEF W!SwitchBranch
<1>3. files'[t] = {}
  BY <1>2 DEF SwitchInv, W!TypeOK, FiledUnderActive
<1>4. W!TypeOK'
  <2>1. [c \in Call |-> IF W!Cancelled(call[t][c], active[t]) THEN W!Idle ELSE call[t][c]] \in [Call -> W!CallState]
    BY DEF SwitchInv, W!TypeOK, W!CallState
  <2>2. call' \in [Tab -> [Call -> W!CallState]]
    BY <1>2, <2>1 DEF SwitchInv, W!TypeOK
  <2>3. {f \in files[t] : f[1] # active[t]} \in SUBSET (UserBranch \X UserBranch \X BOOLEAN)
    BY DEF SwitchInv, W!TypeOK
  <2>4. files' \in [Tab -> SUBSET (UserBranch \X UserBranch \X BOOLEAN)]
    BY <1>2, <2>3 DEF SwitchInv, W!TypeOK
  <2> QED
    BY <1>2, <2>2, <2>4 DEF SwitchInv, W!TypeOK
<1>5. FiledUnderActive(t)' /\ Misnamed(t)'
  <2>1. \A c \in Call : call'[t][c] = W!Idle \/ (call'[t][c] = call[t][c] /\ call[t][c].kind # "query")
    BY <1>2 DEF W!Cancelled, SwitchInv, W!TypeOK, FiledUnderActive
  <2>2. active'[t] = b
    BY <1>2 DEF SwitchInv, W!TypeOK
  <2> QED
    BY <1>1, <1>2, <1>3, <2>1, <2>2 DEF FiledUnderActive, Misnamed, W!Idle
<1>6. ASSUME NEW s \in Tab, s # t PROVE FiledUnderActive(s)' /\ Misnamed(s)'
  <2>1. files'[s] = files[s] /\ call'[s] = call[s] /\ active'[s] = active[s]
    BY <1>2, <1>6 DEF SwitchInv, W!TypeOK
  <2>2. FiledUnderActive(s) /\ Misnamed(s)
    BY DEF SwitchInv
  <2>3. s \in moved => s \in moved'
    BY <1>2, <1>6
  <2>4. s \notin moved' => cookie' = cookie
    BY <1>2, <1>6
  <2>5. FiledUnderActive(s)'
    BY <1>1, <1>2, <2>1, <2>2 DEF FiledUnderActive
  <2>6. Misnamed(s)'
    BY <1>1, <1>2, <2>1, <2>2, <2>3, <2>4 DEF Misnamed
  <2> QED
    BY <2>5, <2>6
<1> QED
  BY <1>4, <1>5, <1>6 DEF SwitchInv

LEMMA SwitchStep ==
  ASSUME SwitchInv, [W!Next]_switchVars
  PROVE  SwitchInv'
<1>1. ASSUME NEW t \in Tab, W!Open(t) PROVE SwitchInv'
  <2>1. W!TypeOK'
    BY <1>1 DEF W!Open, SwitchInv, W!TypeOK, W!CallState
  <2>2. FiledUnderActive(t)' /\ Misnamed(t)'
    BY <1>1 DEF W!Open, SwitchInv, W!TypeOK, FiledUnderActive, Misnamed, W!Idle
  <2>3. ASSUME NEW s \in Tab, s # t PROVE FiledUnderActive(s)' /\ Misnamed(s)'
    BY <1>1, <2>3 DEF W!Open, SwitchInv, W!TypeOK, FiledUnderActive, Misnamed
  <2> QED
    BY <2>1, <2>2, <2>3 DEF SwitchInv
<1>2. ASSUME NEW t \in Tab, W!LoadBranches(t) PROVE SwitchInv'
  BY <1>2 DEF W!LoadBranches, SwitchInv, W!TypeOK, FiledUnderActive, Misnamed
<1>3. ASSUME NEW t \in Tab, W!TakeDefault(t) \/ \E b \in UserBranch : W!Choose(t, b) PROVE SwitchInv'
  BY <1>3, SwitchBranchStep, BranchAssumption DEF W!TakeDefault, W!Choose
<1>4. ASSUME NEW t \in Tab, NEW c \in Call, NEW kind \in {"query", "mutation"}, NEW explicit \in BOOLEAN,
             W!Start(t, c, kind, explicit)
      PROVE  SwitchInv'
  <2> PICK x : x = [at |-> "queued", kind |-> kind, branch |-> active[t], explicit |-> explicit]
    OBVIOUS
  <2>1. active[t] \in UserBranch /\ active[t] # W!NoBranch /\ cookie # W!NoBranch
    BY <1>4 DEF W!Start, SwitchInv, W!TypeOK, Misnamed
  <2>2. x \in W!CallState
    BY <2>1 DEF W!CallState
  <2>3. call' = [call EXCEPT ![t][c] = x] /\ UNCHANGED <<loaded, active, cookie, files, moved>>
    BY <1>4 DEF W!Start
  <2>4. files' \in [Tab -> SUBSET (UserBranch \X UserBranch \X BOOLEAN)]
    BY <2>3 DEF SwitchInv, W!TypeOK
  <2> QED
    BY <2>1, <2>2, <2>3, <2>4, OneCall
<1>5. ASSUME NEW t \in Tab, NEW c \in Call, W!Send(t, c) PROVE SwitchInv'
  <2> PICK r : r = call[t][c]
    OBVIOUS
  <2> PICK x : x = [at |-> "sent", kind |-> r.kind, branch |-> r.branch, explicit |-> r.explicit, header |-> W!HeaderOf(r)]
    OBVIOUS
  <2>1. r \in Queued /\ r # W!Idle /\ cookie # W!NoBranch /\ (r.kind = "query" => r.branch = active[t])
    BY <1>5, CallFields DEF W!Send, SwitchInv, FiledUnderActive, W!Idle
  <2>2. W!HeaderOf(r) \in UserBranch
    BY <2>1 DEF W!HeaderOf, Queued, SwitchInv, W!TypeOK
  <2>3. x \in W!CallState
    BY <2>1, <2>2 DEF W!CallState, Queued
  <2>4. r.kind = "query" /\ r.branch # W!HeaderOf(r) => ~r.explicit /\ t \in moved
    <3>1. r.branch \in UserBranch /\ r.branch # W!NoBranch
      BY <2>1, BranchAssumption DEF Queued
    <3> QED
      BY <2>1, <3>1 DEF W!HeaderOf, SwitchInv, Misnamed
  <2>5. call' = [call EXCEPT ![t][c] = x] /\ UNCHANGED <<loaded, active, cookie, files, moved>>
    BY <1>5 DEF W!Send, W!HeaderOf
  <2>6. files' \in [Tab -> SUBSET (UserBranch \X UserBranch \X BOOLEAN)]
    BY <2>5 DEF SwitchInv, W!TypeOK
  <2> QED
    BY <2>1, <2>3, <2>4, <2>5, <2>6, OneCall
<1>6. ASSUME NEW t \in Tab, NEW c \in Call, W!Receive(t, c) PROVE SwitchInv'
  <2> PICK r : r = call[t][c]
    OBVIOUS
  <2>1. r \in Sent /\ r # W!Idle /\ r.at = "sent" /\ (r.kind = "query" => r.branch = active[t])
        /\ (r.kind = "query" /\ r.branch # r.header => ~r.explicit /\ t \in moved)
    BY <1>6, CallFields DEF W!Receive, SwitchInv, FiledUnderActive, Misnamed, W!Idle
  <2>2. files' = IF r.kind = "query" THEN [files EXCEPT ![t] = @ \cup {<<r.branch, r.header, r.explicit>>}] ELSE files
    BY <1>6 DEF W!Receive
  <2>3. <<r.branch, r.header, r.explicit>> \in UserBranch \X UserBranch \X BOOLEAN
    BY <2>1 DEF Sent
  <2>4. files' \in [Tab -> SUBSET (UserBranch \X UserBranch \X BOOLEAN)]
    BY <2>2, <2>3 DEF SwitchInv, W!TypeOK
  <2>5. \A s \in Tab : \A f \in files'[s] :
          f \in files[s] \/ (s = t /\ f[1] = active[t] /\ (f[1] # f[2] => ~f[3] /\ t \in moved))
    BY <2>1, <2>2 DEF SwitchInv, W!TypeOK
  <2>6. call' = [call EXCEPT ![t][c] = W!Idle] /\ UNCHANGED <<loaded, active, cookie, moved>>
    BY <1>6 DEF W!Receive
  <2>7. W!Idle \in W!CallState /\ W!Idle.at # "sent"
    BY DEF W!CallState, W!Idle
  <2> QED
    BY <2>4, <2>5, <2>6, <2>7, OneCall
<1>7. ASSUME NEW t \in Tab, NEW c \in Call, W!Fail(t, c) PROVE SwitchInv'
  <2>1. files' \in [Tab -> SUBSET (UserBranch \X UserBranch \X BOOLEAN)]
    BY <1>7 DEF W!Fail, SwitchInv, W!TypeOK
  <2>2. W!Idle \in W!CallState /\ W!Idle.at # "sent"
    BY DEF W!CallState, W!Idle
  <2> QED
    BY <1>7, <2>1, <2>2, OneCall DEF W!Fail
<1>8. CASE UNCHANGED switchVars
  BY <1>8 DEF switchVars, SwitchInv, W!TypeOK, FiledUnderActive, Misnamed
<1> QED
  BY <1>1, <1>2, <1>3, <1>4, <1>5, <1>6, <1>7, <1>8 DEF W!Next

-----------------------------------------------------------------------------
(* Failures: a pause outlasts the block it answers *)

Waiting == [at : {"waiting"}, tries : {1, 2}, until : Nat, block : Nat]
UnderWay == [at : {"sent"}, tries : {1, 2}, until : Nat, block : Nat]
Response == [status : Nat, code : F!ErrorCodes \cup {"none"}]
Answered == [at : {"answered"}, tries : {1, 2}, block : Nat, response : Response, by : Nat]

\* No block ends later than a pause that begins now.  A call that was sent has outwaited the
\* block that its pause answered.
PauseOutlasts(x) ==
  /\ x.at = "waiting" => x.block <= x.until
  /\ x.at = "sent" => x.block <= now
  /\ x.at = "answered" =>
       /\ x.by <= now + Minute
       /\ x.response.status = 429 => x.by # x.block
       /\ x.response.code = "none" => x.response \in {F!Ok, F!NoResponse, F!NoBackend}

FailureInv ==
  /\ F!TypeOK
  /\ blockedUntil <= now + Minute /\ pause.block <= pause.until
  /\ \A c \in FailingCall : PauseOutlasts(failing[c])

LEMMA FailureInvImplies == FailureInv => F!WaitsOutTheBlock
BY DEF FailureInv, PauseOutlasts, F!WaitsOutTheBlock

LEMMA FailureInit == F!Init => FailureInv
BY ClockAssumption DEF F!Init, FailureInv, F!TypeOK, F!CallState, F!Idle, F!NoPause, PauseOutlasts

LEMMA FailingFields ==
  ASSUME F!TypeOK, NEW c \in FailingCall
  PROVE  /\ failing[c] \in F!CallState
         /\ failing[c].at = "waiting" => failing[c] \in Waiting
         /\ failing[c].at = "sent" => failing[c] \in UnderWay
         /\ failing[c].at = "answered" => failing[c] \in Answered
BY DEF F!TypeOK, F!CallState, F!Idle, Waiting, UnderWay, Answered, Response

LEMMA FailingStates ==
  /\ Waiting \subseteq F!CallState /\ UnderWay \subseteq F!CallState /\ Answered \subseteq F!CallState
  /\ F!Idle \in F!CallState
BY DEF F!CallState, F!Idle, Waiting, UnderWay, Answered, Response

\* What the API makes of an exception has a code, and is no refusal of the rate limit.
LEMMA CaughtIsNoRefusal ==
  ASSUME NEW x \in F!Exception, NEW r \in F!Catch(x)
  PROVE  r \in Response /\ r.status # 429 /\ r.code # "none"
<1>1. CASE x \in F!BusinessException
  BY <1>1 DEF F!Catch, F!BusinessException, F!Answer, Response, F!ErrorCodes
<1>2. CASE x \in F!HttpException
  <2>1. x.kind = "http" /\ x.status \in {400, 401, 409} /\ x.messages \in BOOLEAN
    BY <1>2 DEF F!HttpException
  <2>2. r \in {F!Answer(400, code) : code \in F!ValidationCodes} \cup {F!Answer(x.status, F!CodeOf(x.status))}
    BY <2>1 DEF F!Catch
  <2>3. F!CodeOf(400) \in F!ErrorCodes /\ F!CodeOf(401) \in F!ErrorCodes /\ F!CodeOf(409) \in F!ErrorCodes
    BY DEF F!CodeOf, F!ErrorCodes
  <2> QED
    BY <2>1, <2>2, <2>3 DEF F!Answer, Response, F!ErrorCodes, F!ValidationCodes
<1>3. CASE x = [kind |-> "unknown"]
  BY <1>3 DEF F!Catch, F!Answer, Response, F!ErrorCodes
<1> QED
  BY <1>1, <1>2, <1>3 DEF F!Exception

\* One call moves on, without the clock.
LEMMA OneFailing ==
  ASSUME FailureInv, NEW c \in FailingCall, NEW x \in F!CallState, failing' = [failing EXCEPT ![c] = x], now' = now,
         PauseOutlasts(x),
         hits' \in 0 .. RateLimit, blockedUntil' \in 0 .. MaxTime + Minute, blockedUntil' <= now + Minute,
         pause'.until \in 0 .. MaxTime + Minute, pause'.block \in 0 .. MaxTime + Minute, pause'.block <= pause'.until
  PROVE  FailureInv'
<1>1. \A d \in FailingCall : failing'[d] = IF d = c THEN x ELSE failing[d]
  BY DEF FailureInv, F!TypeOK
<1>2. F!TypeOK'
  BY DEF FailureInv, F!TypeOK
<1>3. \A d \in FailingCall : PauseOutlasts(failing[d])'
  BY <1>1 DEF FailureInv, PauseOutlasts
<1> QED
  BY <1>2, <1>3 DEF FailureInv

LEMMA BeginStep ==
  ASSUME FailureInv, NEW c \in FailingCall, NEW tries \in {1, 2}, F!Begin(c, tries),
         UNCHANGED <<now, hits, blockedUntil, pause>>
  PROVE  FailureInv'
<1>1. now \in Nat /\ pause.until \in Nat /\ pause.block \in Nat /\ pause.block <= pause.until
  BY ClockAssumption DEF FailureInv, F!TypeOK
<1>2. CASE pause.until > now
  <2> PICK x : x = [at |-> "waiting", tries |-> tries, until |-> pause.until, block |-> pause.block]
    OBVIOUS
  <2>1. x \in F!CallState /\ PauseOutlasts(x)
    BY <1>1 DEF F!CallState, PauseOutlasts
  <2>2. failing' = [failing EXCEPT ![c] = x]
    BY <1>2 DEF F!Begin
  <2> QED
    BY <2>1, <2>2, OneFailing DEF FailureInv, F!TypeOK
<1>3. CASE ~(pause.until > now)
  <2> PICK x : x = [at |-> "sent", tries |-> tries, until |-> now, block |-> 0]
    OBVIOUS
  <2>1. x \in F!CallState /\ PauseOutlasts(x)
    BY <1>1 DEF F!CallState, PauseOutlasts
  <2>2. failing' = [failing EXCEPT ![c] = x]
    BY <1>3 DEF F!Begin
  <2> QED
    BY <2>1, <2>2, OneFailing DEF FailureInv, F!TypeOK
<1> QED
  BY <1>2, <1>3

LEMMA CountStep ==
  ASSUME FailureInv, F!Count, now' = now
  PROVE  hits' \in 0 .. RateLimit /\ blockedUntil' \in 0 .. MaxTime + Minute /\ blockedUntil' <= now + Minute
BY ClockAssumption DEF FailureInv, F!TypeOK, F!Count, F!Blocked

\* An answer: a refusal is by a block that the call has not waited for.
LEMMA RespondStep ==
  ASSUME FailureInv, NEW c \in FailingCall, NEW r \in Response, failing[c].at = "sent", F!Respond(c, r),
         r.status = 429 => now < blockedUntil',
         r.code = "none" => r \in {F!Ok, F!NoResponse, F!NoBackend},
         hits' \in 0 .. RateLimit, blockedUntil' \in 0 .. MaxTime + Minute, blockedUntil' <= now + Minute,
         UNCHANGED <<now, pause>>
  PROVE  FailureInv'
<1> PICK y : y = failing[c]
  OBVIOUS
<1> PICK by : by = blockedUntil'
  OBVIOUS
<1> PICK x : x = [at |-> "answered", tries |-> y.tries, block |-> y.block, response |-> r, by |-> by]
  OBVIOUS
<1>1. y \in UnderWay /\ y.block <= now
  BY FailingFields DEF FailureInv, PauseOutlasts
<1>2. by \in Nat /\ now \in Nat /\ Minute \in Nat
  BY ClockAssumption DEF FailureInv, F!TypeOK
<1>3. x \in Answered
  BY <1>1, <1>2 DEF Answered, UnderWay
<1>4. PauseOutlasts(x)
  BY <1>1, <1>2 DEF PauseOutlasts, UnderWay
<1>5. failing' = [failing EXCEPT ![c] = x]
  BY DEF F!Respond
<1>6. /\ pause'.until \in 0 .. MaxTime + Minute /\ pause'.block \in 0 .. MaxTime + Minute
      /\ pause'.block <= pause'.until
  BY DEF FailureInv, F!TypeOK
<1> QED
  BY <1>3, <1>4, <1>5, <1>6, OneFailing, FailingStates

\* The text of any error is one that the user can be told.
LEMMA TextIsTold ==
  ASSUME NEW r \in Response, r # F!Ok, r.code = "none" => r \in {F!Ok, F!NoResponse, F!NoBackend}
  PROVE  F!Text(F!ErrorOf(r)) \in F!ErrorCodes \cup {"network", "unexpected"}
<1>1. CASE r.code = "none"
  <2>1. F!ErrorOf(r) \in {"network", "INTERNAL_ERROR"}
    BY <1>1 DEF F!ErrorOf, F!NoResponse, F!NoBackend, F!Ok
  <2> QED
    BY <2>1 DEF F!Text, F!Unknown, F!ErrorCodes
<1>2. CASE r.code # "none"
  <2>1. r.code \in F!ErrorCodes
    BY <1>2 DEF Response
  <2>2. F!ErrorOf(r) \in {"network", "RATE_LIMIT", "AUTH_UNAUTHORIZED", "INTERNAL_ERROR", r.code}
    BY DEF F!ErrorOf
  <2> QED
    BY <2>1, <2>2 DEF F!Text, F!Unknown, F!ErrorCodes
<1> QED
  BY <1>1, <1>2

LEMMA FailureReceiveStep ==
  ASSUME FailureInv, NEW c \in FailingCall, F!Receive(c)
  PROVE  FailureInv'
<1> PICK y : y = failing[c]
  OBVIOUS
<1>1. /\ y \in Answered /\ y.at = "answered" /\ y.by <= now + Minute
      /\ y.response.code = "none" => y.response \in {F!Ok, F!NoResponse, F!NoBackend}
  BY FailingFields DEF FailureInv, PauseOutlasts, F!Receive
<1>2. y.response \in Response /\ y.by \in Nat
  BY <1>1 DEF Answered
<1> PICK x : x = IF y.response = F!Ok THEN F!Idle
                 ELSE IF F!Retries(c) THEN [at |-> "retry"]
                 ELSE [at |-> "told", text |-> F!Text(F!ErrorOf(y.response))]
  OBVIOUS
<1>3. x \in F!CallState /\ PauseOutlasts(x)
  <2>1. CASE y.response = F!Ok \/ F!Retries(c)
    BY <2>1 DEF F!CallState, F!Idle, PauseOutlasts
  <2>2. CASE y.response # F!Ok /\ ~F!Retries(c)
    <3>1. x = [at |-> "told", text |-> F!Text(F!ErrorOf(y.response))]
      BY <2>2
    <3>2. F!Text(F!ErrorOf(y.response)) \in F!ErrorCodes \cup {"network", "unexpected"}
      BY <1>1, <1>2, <2>2, TextIsTold
    <3> QED
      BY <3>1, <3>2 DEF F!CallState, PauseOutlasts
  <2> QED
    BY <2>1, <2>2
<1>4. failing' = [failing EXCEPT ![c] = x] /\ UNCHANGED <<now, hits, blockedUntil>>
  BY DEF F!Receive
<1>5. /\ pause'.until \in 0 .. MaxTime + Minute /\ pause'.block \in 0 .. MaxTime + Minute
      /\ pause'.block <= pause'.until
  <2>1. CASE y.response.status = 429
    <3>1. pause' = [until |-> now + Minute, block |-> y.by]
      BY <2>1 DEF F!Receive, F!PauseAfter429
    <3>2. now \in 0 .. MaxTime
      BY DEF FailureInv, F!TypeOK
    <3> QED
      BY <1>1, <1>2, <3>1, <3>2, ClockAssumption
  <2>2. CASE y.response.status # 429
    <3>1. pause' = pause
      BY <2>2 DEF F!Receive
    <3> QED
      BY <3>1 DEF FailureInv, F!TypeOK
  <2> QED
    BY <2>1, <2>2
<1>6. hits' \in 0 .. RateLimit /\ blockedUntil' \in 0 .. MaxTime + Minute /\ blockedUntil' <= now + Minute
  BY <1>4 DEF FailureInv, F!TypeOK
<1> QED
  BY <1>3, <1>4, <1>5, <1>6, OneFailing

LEMMA FailureStep ==
  ASSUME FailureInv, [F!Next]_failureVars
  PROVE  FailureInv'
<1>1. ASSUME NEW c \in FailingCall, F!Ask(c) \/ F!Retry(c) PROVE FailureInv'
  BY <1>1, BeginStep DEF F!Ask, F!Retry
<1>2. ASSUME NEW c \in FailingCall, F!Wake(c) PROVE FailureInv'
  <2> PICK y : y = failing[c]
    OBVIOUS
  <2> PICK x : x = [y EXCEPT !.at = "sent"]
    OBVIOUS
  <2>1. y \in Waiting /\ y.until <= now /\ y.block <= y.until
    BY <1>2, FailingFields DEF F!Wake, FailureInv, PauseOutlasts
  <2>2. x \in UnderWay /\ x.block = y.block
    BY <2>1 DEF Waiting, UnderWay
  <2>3. now \in Nat
    BY DEF FailureInv, F!TypeOK
  <2>4. PauseOutlasts(x)
    BY <2>1, <2>2, <2>3 DEF PauseOutlasts, Waiting, UnderWay
  <2>5. failing' = [failing EXCEPT ![c] = x] /\ UNCHANGED <<now, hits, blockedUntil, pause>>
    BY <1>2 DEF F!Wake
  <2> QED
    BY <2>2, <2>4, <2>5, OneFailing, FailingStates DEF FailureInv, F!TypeOK
<1>3. ASSUME NEW c \in FailingCall, F!Arrive(c) PROVE FailureInv'
  <2>1. failing[c].at = "sent" /\ F!Count /\ UNCHANGED <<now, pause>>
    BY <1>3 DEF F!Arrive
  <2>2. hits' \in 0 .. RateLimit /\ blockedUntil' \in 0 .. MaxTime + Minute /\ blockedUntil' <= now + Minute
    BY <2>1, CountStep
  <2>3. CASE now < blockedUntil'
    <3>1. F!Respond(c, F!Answer(429, F!CodeOf(429)))
      BY <1>3, <2>3 DEF F!Arrive, F!Refused
    <3>2. F!Answer(429, F!CodeOf(429)) \in Response /\ F!Answer(429, F!CodeOf(429)).code # "none"
      BY DEF F!Answer, F!CodeOf, Response, F!ErrorCodes
    <3> QED
      BY <2>1, <2>2, <2>3, <3>1, <3>2, RespondStep
  <2>4. CASE ~(now < blockedUntil')
    <3>1. PICK r \in {F!Ok} \cup UNION {F!Catch(e) : e \in F!Exception} : F!Respond(c, r)
      BY <1>3, <2>4 DEF F!Arrive, F!Refused
    <3>2. r \in Response /\ r.status # 429 /\ (r.code = "none" => r \in {F!Ok, F!NoResponse, F!NoBackend})
      BY <3>1, CaughtIsNoRefusal DEF F!Ok, Response
    <3> QED
      BY <2>1, <2>2, <3>1, <3>2, RespondStep
  <2> QED
    BY <2>3, <2>4
<1>4. ASSUME NEW c \in FailingCall, F!Break(c) PROVE FailureInv'
  <2>1. PICK r \in {F!NoBackend, F!NoResponse} : F!Respond(c, r)
    BY <1>4 DEF F!Break
  <2>2. r \in Response /\ r.status # 429
    BY DEF F!NoBackend, F!NoResponse, Response
  <2>3. hits' \in 0 .. RateLimit /\ blockedUntil' \in 0 .. MaxTime + Minute /\ blockedUntil' <= now + Minute
    BY <1>4 DEF F!Break, FailureInv, F!TypeOK
  <2> QED
    BY <1>4, <2>1, <2>2, <2>3, RespondStep DEF F!Break
<1>5. ASSUME NEW c \in FailingCall, F!Receive(c) PROVE FailureInv'
  BY <1>5, FailureReceiveStep
<1>6. ASSUME NEW c \in FailingCall, F!Dismiss(c) PROVE FailureInv'
  <2>1. PauseOutlasts(F!Idle)
    BY DEF PauseOutlasts, F!Idle
  <2> QED
    BY <1>6, <2>1, OneFailing, FailingStates DEF F!Dismiss, FailureInv, F!TypeOK
<1>7. CASE F!OthersArrive
  <2>1. now' = now
    BY <1>7 DEF F!OthersArrive
  <2>2. hits' \in 0 .. RateLimit /\ blockedUntil' \in 0 .. MaxTime + Minute /\ blockedUntil' <= now + Minute
    BY <1>7, <2>1, CountStep DEF F!OthersArrive
  <2> QED
    BY <1>7, <2>2 DEF F!OthersArrive, FailureInv, F!TypeOK, PauseOutlasts
<1>8. CASE F!HitExpires
  BY <1>8, ClockAssumption DEF F!HitExpires, FailureInv, F!TypeOK, PauseOutlasts
<1>9. CASE F!Tick
  <2>1. F!TypeOK' /\ (blockedUntil <= now + Minute /\ pause.block <= pause.until)'
    BY <1>9, ClockAssumption DEF F!Tick, FailureInv, F!TypeOK
  <2>2. ASSUME NEW c \in FailingCall PROVE PauseOutlasts(failing[c])'
    <3>1. /\ failing' = failing /\ now' = now + 1 /\ now \in Nat /\ Minute \in Nat /\ PauseOutlasts(failing[c])
      BY <1>9, ClockAssumption DEF F!Tick, FailureInv, F!TypeOK
    <3>2. /\ failing[c].at = "sent" => failing[c].block \in Nat
          /\ failing[c].at = "answered" => failing[c].by \in Nat
      BY FailingFields DEF FailureInv, UnderWay, Answered
    <3> QED
      BY <3>1, <3>2 DEF PauseOutlasts
  <2> QED
    BY <2>1, <2>2 DEF FailureInv
<1>10. CASE UNCHANGED failureVars
  BY <1>10 DEF failureVars, FailureInv, F!TypeOK, PauseOutlasts
<1> QED
  BY <1>1, <1>2, <1>3, <1>4, <1>5, <1>6, <1>7, <1>8, <1>9, <1>10 DEF F!Next

-----------------------------------------------------------------------------
(* LockPeriods: what the check of a period saw, and what the tab fetched *)

\* The rows that a check saw: they had been created, and end outside the window.
SeenApart(until, seen) == \A p \in seen : periods[p] # None /\ ~D!Overlaps(until, periods[p].until)

\* What was fetched or filed since the last change of this tab has what was confirmed to it.
PeriodsInv ==
  /\ D!TypeOK
  /\ \A p \in Boleto : periods[p] # None => SeenApart(periods[p].until, periods[p].seen)
  /\ \A c \in Request : creating[c].at = "checked" => SeenApart(creating[c].until, creating[c].seen)
  /\ confirmed \subseteq D!Live
  /\ filed # None /\ ~outdated /\ ~filed.late => confirmed \subseteq filed.of
  /\ loading # None /\ loading.at = "read" /\ ~loading.late => confirmed \subseteq loading.of

LEMMA PeriodsInvImplies == PeriodsInv => D!ClosedIsShown /\ D!OverlapsOnlyIfOvertaken
<1> SUFFICES ASSUME PeriodsInv PROVE D!ClosedIsShown /\ D!OverlapsOnlyIfOvertaken
  OBVIOUS
<1>1. D!ClosedIsShown
  BY DEF PeriodsInv, D!ClosedIsShown, D!Listed, D!Greyed, D!Shape, D!TypeOK
<1>2. D!OverlapsOnlyIfOvertaken
  BY DEF PeriodsInv, D!OverlapsOnlyIfOvertaken, D!Live, SeenApart
<1> QED
  BY <1>1, <1>2

LEMMA PeriodsInit == D!Init => PeriodsInv
<1> SUFFICES ASSUME D!Init PROVE PeriodsInv
  OBVIOUS
<1>1. D!TypeOK
  BY DEF D!Init, D!TypeOK, D!CreateState, D!FetchState
<1>2. \A c \in Request : creating[c].at # "checked"
  BY DEF D!Init, D!Idle
<1> QED
  BY <1>1, <1>2 DEF D!Init, PeriodsInv

PeriodFetched == [at : {"read"}, by : {"page", "guard"}, late : BOOLEAN, of : SUBSET Boleto]
PeriodChecked == [at : {"checked"}, until : Day, page : BOOLEAN, seen : SUBSET Boleto]
PeriodAsked == [at : {"asked"}, by : {"page", "guard"}]

LEMMA PeriodFields ==
  ASSUME D!TypeOK
  PROVE  /\ \A c \in Request : creating[c].at = "checked" => creating[c] \in PeriodChecked
         /\ \A c \in Request : creating[c].at = "created" => creating[c].id \in Boleto
         /\ loading # None => loading \in PeriodAsked \cup PeriodFetched
BY DEF D!TypeOK, D!CreateState, D!FetchState, D!Idle, PeriodChecked, PeriodFetched, PeriodAsked

\* What a check saw stays as it was while no row that was created changes its end.
LEMMA StaysApart ==
  ASSUME NEW until, NEW seen \in SUBSET Boleto, SeenApart(until, seen),
         \A p \in Boleto : periods[p] # None => periods'[p] # None /\ periods'[p].until = periods[p].until
  PROVE  \A p \in seen : periods'[p] # None /\ ~D!Overlaps(until, periods'[p].until)
BY DEF SeenApart

LEMMA CheckStep ==
  ASSUME PeriodsInv, NEW c \in Request, NEW until \in Day, NEW page \in BOOLEAN, D!Check(c, until, page)
  PROVE  PeriodsInv'
<1> PICK live : live = D!Live
  OBVIOUS
<1> PICK x : x = [at |-> "checked", until |-> until, page |-> page, seen |-> live]
  OBVIOUS
<1>1. /\ creating' = [creating EXCEPT ![c] = x] /\ periods' = periods
      /\ UNCHANGED <<view, filed, outdated, failed, loading, confirmed>>
  BY DEF D!Check, D!tabVars
<1>2. live \in SUBSET Boleto /\ SeenApart(until, live)
  BY DEF D!Check, D!Live, SeenApart
<1>3. x \in D!CreateState
  BY <1>2 DEF D!CreateState
<1>4. D!TypeOK'
  BY <1>1, <1>3 DEF PeriodsInv, D!TypeOK
<1>5. \A d \in Request : creating'[d] = IF d = c THEN x ELSE creating[d]
  BY <1>1 DEF PeriodsInv, D!TypeOK
<1>6. \A d \in Request : creating'[d].at = "checked" => SeenApart(creating'[d].until, creating'[d].seen)
  BY <1>2, <1>5 DEF PeriodsInv
<1> QED
  BY <1>1, <1>4, <1>6 DEF PeriodsInv, D!Live, SeenApart

LEMMA PeriodInsertStep ==
  ASSUME PeriodsInv, NEW c \in Request, NEW p \in Boleto, D!Insert(c, p)
  PROVE  PeriodsInv'
<1> PICK y : y = creating[c]
  OBVIOUS
<1> PICK new : new = [until |-> y.until, deleted |-> FALSE, seen |-> y.seen]
  OBVIOUS
<1> PICK x : x = IF y.page THEN [at |-> "created", id |-> p] ELSE D!Idle
  OBVIOUS
<1>1. /\ periods[p] = None /\ y \in PeriodChecked /\ SeenApart(y.until, y.seen)
      /\ periods' = [periods EXCEPT ![p] = new] /\ creating' = [creating EXCEPT ![c] = x]
      /\ UNCHANGED <<view, filed, outdated, failed, loading, confirmed>>
  BY PeriodFields DEF D!Insert, D!tabVars, PeriodsInv
<1>2. new \in D!Row
  BY <1>1 DEF PeriodChecked, D!Row
<1>3. x \in D!CreateState /\ x.at # "checked"
  BY DEF D!CreateState, D!Idle
<1>4. D!TypeOK'
  BY <1>1, <1>2, <1>3 DEF PeriodsInv, D!TypeOK
<1>5. new # None
  BY <1>2, RowsAssumption
<1>6. /\ \A q \in Boleto : periods'[q] = IF q = p THEN new ELSE periods[q]
      /\ \A d \in Request : creating'[d] = IF d = c THEN x ELSE creating[d]
  BY <1>1 DEF PeriodsInv, D!TypeOK
<1>7. \A q \in Boleto : periods[q] # None => periods'[q] # None /\ periods'[q].until = periods[q].until
  BY <1>1, <1>6
<1>8. ASSUME NEW q \in Boleto, periods'[q] # None PROVE SeenApart(periods[q].until, periods[q].seen)'
  <2>1. CASE q = p
    <3>1. y.seen \in SUBSET Boleto
      BY <1>1 DEF PeriodChecked
    <3> QED
      BY <1>1, <1>6, <1>7, <2>1, <3>1, StaysApart DEF SeenApart
  <2>2. CASE q # p
    <3>1. periods'[q] = periods[q] /\ periods[q] # None
      BY <1>6, <1>8, <2>2
    <3>2. periods[q].seen \in SUBSET Boleto /\ SeenApart(periods[q].until, periods[q].seen)
      BY <3>1 DEF PeriodsInv, D!TypeOK, D!Row
    <3> QED
      BY <1>7, <3>1, <3>2, StaysApart DEF SeenApart
  <2> QED
    BY <2>1, <2>2
<1>9. ASSUME NEW d \in Request, creating'[d].at = "checked" PROVE SeenApart(creating[d].until, creating[d].seen)'
  <2>1. creating'[d] = creating[d]
    BY <1>3, <1>6, <1>9
  <2>2. creating[d].seen \in SUBSET Boleto /\ SeenApart(creating[d].until, creating[d].seen)
    BY <1>9, <2>1, PeriodFields DEF PeriodsInv, PeriodChecked
  <2> QED
    BY <1>7, <2>1, <2>2, StaysApart DEF SeenApart
<1>10. confirmed' \subseteq D!Live'
  BY <1>1, <1>5, <1>6 DEF PeriodsInv, D!Live
<1> QED
  BY <1>1, <1>4, <1>8, <1>9, <1>10 DEF PeriodsInv

LEMMA PeriodRemoveStep ==
  ASSUME PeriodsInv, NEW p \in Boleto, D!Remove(p)
  PROVE  PeriodsInv'
<1> PICK y : y = periods[p]
  OBVIOUS
<1> PICK new : new = [until |-> y.until, deleted |-> TRUE, seen |-> {}]
  OBVIOUS
<1>1. /\ y \in D!Row
      /\ periods' = [periods EXCEPT ![p] = new] /\ creating' = creating /\ confirmed' = confirmed \ {p}
      /\ UNCHANGED <<view, filed, outdated, failed, loading>>
  BY DEF D!Remove, D!Live, PeriodsInv, D!TypeOK
<1>2. new \in D!Row
  BY <1>1 DEF D!Row
<1>3. D!TypeOK'
  BY <1>1, <1>2 DEF PeriodsInv, D!TypeOK
<1>4. new # None
  BY <1>2, RowsAssumption
<1>5. \A q \in Boleto : periods'[q] = IF q = p THEN new ELSE periods[q]
  BY <1>1 DEF PeriodsInv, D!TypeOK
<1>6. \A q \in Boleto : periods[q] # None => periods'[q] # None /\ periods'[q].until = periods[q].until
  BY <1>4, <1>5
<1>7. ASSUME NEW q \in Boleto, periods'[q] # None PROVE SeenApart(periods[q].until, periods[q].seen)'
  <2>1. CASE q = p
    BY <1>5, <2>1 DEF SeenApart
  <2>2. CASE q # p
    <3>1. periods'[q] = periods[q] /\ periods[q] # None
      BY <1>5, <1>7, <2>2
    <3>2. periods[q].seen \in SUBSET Boleto /\ SeenApart(periods[q].until, periods[q].seen)
      BY <3>1 DEF PeriodsInv, D!TypeOK, D!Row
    <3> QED
      BY <1>6, <3>1, <3>2, StaysApart DEF SeenApart
  <2> QED
    BY <2>1, <2>2
<1>8. ASSUME NEW d \in Request, creating'[d].at = "checked" PROVE SeenApart(creating[d].until, creating[d].seen)'
  <2>1. creating'[d] = creating[d]
    BY <1>1
  <2>2. creating[d].seen \in SUBSET Boleto /\ SeenApart(creating[d].until, creating[d].seen)
    BY <1>8, <2>1, PeriodFields DEF PeriodsInv, PeriodChecked
  <2> QED
    BY <1>6, <2>1, <2>2, StaysApart DEF SeenApart
<1>9. confirmed' \subseteq D!Live'
  BY <1>1, <1>5 DEF PeriodsInv, D!Live
<1> QED
  BY <1>1, <1>3, <1>7, <1>8, <1>9 DEF PeriodsInv

\* The rows stay; the tab moves.
LEMMA TabStep ==
  ASSUME PeriodsInv, UNCHANGED <<periods, creating>>, confirmed' \subseteq D!Live,
         view' \in {"page", "guard", "other"}, outdated' \in BOOLEAN, failed' \in BOOLEAN,
         filed' \in [shape : {"answer", "rows"}, of : SUBSET Boleto, late : BOOLEAN] \cup {None},
         loading' \in D!FetchState,
         filed' # None /\ ~outdated' /\ ~filed'.late => confirmed' \subseteq filed'.of,
         loading' # None /\ loading'.at = "read" /\ ~loading'.late => confirmed' \subseteq loading'.of
  PROVE  PeriodsInv'
<1>1. D!TypeOK'
  BY DEF PeriodsInv, D!TypeOK, D!Live
<1>2. D!Live' = D!Live
  BY DEF D!Live
<1> QED
  BY <1>1, <1>2 DEF PeriodsInv, SeenApart

LEMMA FetchStates ==
  /\ PeriodAsked \subseteq D!FetchState /\ PeriodFetched \subseteq D!FetchState /\ None \in D!FetchState
  /\ \A v \in {"page", "guard"} : D!Asked(v) \in PeriodAsked /\ D!Asked(v).at # "read"
  /\ \A v : D!Shape(v) \in {"answer", "rows"}
BY DEF D!FetchState, PeriodAsked, PeriodFetched, D!Asked, D!Shape

LEMMA PeriodsStep ==
  ASSUME PeriodsInv, [D!Next]_periodsVars
  PROVE  PeriodsInv'
<1>0. /\ view \in {"page", "guard", "other"} /\ outdated \in BOOLEAN /\ failed \in BOOLEAN
      /\ filed \in [shape : {"answer", "rows"}, of : SUBSET Boleto, late : BOOLEAN] \cup {None}
      /\ loading \in D!FetchState /\ confirmed \subseteq D!Live
      /\ filed # None /\ ~outdated /\ ~filed.late => confirmed \subseteq filed.of
      /\ loading # None /\ loading.at = "read" /\ ~loading.late => confirmed \subseteq loading.of
      /\ loading # None => loading \in PeriodAsked \cup PeriodFetched
  BY PeriodFields DEF PeriodsInv, D!TypeOK
<1>1. ASSUME NEW c \in Request, NEW until \in Day, NEW page \in BOOLEAN, D!Check(c, until, page) PROVE PeriodsInv'
  BY <1>1, CheckStep
<1>2. ASSUME NEW c \in Request, D!Succeed(c) PROVE PeriodsInv'
  <2>1. /\ creating' = [creating EXCEPT ![c] = D!Idle] /\ periods' = periods /\ view' = view /\ filed' = filed
        /\ confirmed' = confirmed \cup ({creating[c].id} \cap D!Live)
        /\ loading' = D!Invalidated /\ outdated' = TRUE /\ failed' \in BOOLEAN
    BY <1>0, <1>2 DEF D!Succeed
  <2>2. confirmed' \subseteq D!Live
    BY <1>0, <2>1
  <2>3. loading' \in D!FetchState /\ (loading' # None /\ loading'.at = "read" => loading'.late)
    <3>1. CASE view \in {"page", "guard"}
      BY <2>1, <3>1, FetchStates DEF D!Invalidated
    <3>2. CASE view = "other" /\ loading # None /\ loading.at = "read"
      <4>1. loading' = [loading EXCEPT !.late = TRUE] /\ loading \in PeriodFetched
        BY <1>0, <2>1, <3>2 DEF D!Invalidated, PeriodAsked
      <4>2. loading' \in PeriodFetched /\ loading'.late
        BY <4>1 DEF PeriodFetched
      <4> QED
        BY <4>2, FetchStates
    <3>3. CASE view = "other" /\ ~(loading # None /\ loading.at = "read")
      BY <1>0, <2>1, <3>3 DEF D!Invalidated
    <3> QED
      BY <1>0, <3>1, <3>2, <3>3
  <2>4. D!Idle \in D!CreateState /\ D!Idle.at # "checked"
    BY DEF D!CreateState, D!Idle
  <2>5. D!TypeOK'
    BY <1>0, <2>1, <2>2, <2>3, <2>4 DEF PeriodsInv, D!TypeOK, D!Live
  <2>6. \A d \in Request : creating'[d].at = "checked" => SeenApart(creating'[d].until, creating'[d].seen)
    BY <2>1, <2>4 DEF PeriodsInv, D!TypeOK
  <2> QED
    BY <2>1, <2>2, <2>3, <2>5, <2>6 DEF PeriodsInv, SeenApart, D!Live
<1>3. ASSUME NEW c \in Request, D!Fail(c) PROVE PeriodsInv'
  <2>1. /\ creating' = [creating EXCEPT ![c] = D!Idle]
        /\ UNCHANGED <<periods, view, filed, outdated, failed, loading, confirmed>>
    BY <1>3 DEF D!Fail, D!tabVars
  <2>2. D!Idle \in D!CreateState /\ D!Idle.at # "checked"
    BY DEF D!CreateState, D!Idle
  <2>3. D!TypeOK'
    BY <2>1, <2>2 DEF PeriodsInv, D!TypeOK
  <2>4. \A d \in Request : creating'[d].at = "checked" => SeenApart(creating'[d].until, creating'[d].seen)
    BY <2>1, <2>2 DEF PeriodsInv, D!TypeOK
  <2> QED
    BY <2>1, <2>3, <2>4 DEF PeriodsInv, SeenApart, D!Live
<1>4. ASSUME NEW c \in Request, NEW p \in Boleto, D!Insert(c, p) PROVE PeriodsInv'
  BY <1>4, PeriodInsertStep
<1>5. ASSUME NEW p \in Boleto, D!Remove(p) PROVE PeriodsInv'
  BY <1>5, PeriodRemoveStep
<1>6. ASSUME NEW v \in {"page", "guard", "other"}, D!Open(v) PROVE PeriodsInv'
  <2>1. /\ UNCHANGED <<periods, creating, filed, outdated, confirmed>> /\ view' \in {"page", "guard", "other"}
        /\ failed' \in BOOLEAN
    BY <1>6 DEF D!Open
  <2>2. D!Left \in {None, loading}
    BY DEF D!Left
  <2>3. loading' = D!Left \/ \E w \in {"page", "guard"} : loading' = D!Asked(w)
    BY <1>6 DEF D!Open
  <2>4. loading' \in D!FetchState
        /\ (loading' # None /\ loading'.at = "read" => loading' = loading)
    BY <1>0, <2>2, <2>3, FetchStates
  <2> QED
    BY <1>0, <2>1, <2>4, TabStep
<1>7. CASE D!Age
  BY <1>0, <1>7, TabStep DEF D!Age
<1>8. CASE D!Read
  <2>1. /\ UNCHANGED <<periods, creating, view, filed, outdated, failed, confirmed>>
        /\ loading' = [at |-> "read", by |-> loading.by, late |-> FALSE, of |-> D!Live]
        /\ loading # None /\ loading.at = "asked"
    BY <1>8 DEF D!Read
  <2>2. loading.by \in {"page", "guard"}
    BY <1>0, <2>1 DEF PeriodAsked, PeriodFetched
  <2>3. loading' \in PeriodFetched /\ loading'.of = D!Live
    BY <2>1, <2>2 DEF PeriodFetched, D!Live
  <2> QED
    BY <1>0, <2>1, <2>3, FetchStates, TabStep
<1>9. CASE D!Deliver
  <2>1. /\ loading \in PeriodFetched /\ loading # None /\ loading.at = "read"
        /\ UNCHANGED <<periods, creating, confirmed>> /\ outdated' = FALSE /\ failed' = FALSE /\ loading' = None
        /\ filed' = [shape |-> D!Shape(loading.by), of |-> loading.of, late |-> loading.late]
        /\ view' \in {"page", "guard", "other"}
    BY <1>0, <1>9 DEF D!Deliver, PeriodAsked
  <2>2. filed' \in [shape : {"answer", "rows"}, of : SUBSET Boleto, late : BOOLEAN]
    BY <2>1, FetchStates DEF PeriodFetched
  <2>3. filed'.of = loading.of /\ filed'.late = loading.late
    BY <2>1
  <2> QED
    BY <1>0, <2>1, <2>2, <2>3, FetchStates, TabStep
<1>10. CASE D!FetchFails
  BY <1>0, <1>10, FetchStates, TabStep DEF D!FetchFails
<1>11. CASE UNCHANGED periodsVars
  BY <1>11 DEF periodsVars, PeriodsInv, D!TypeOK, D!Live, SeenApart
<1> QED
  BY <1>1, <1>2, <1>3, <1>4, <1>5, <1>6, <1>7, <1>8, <1>9, <1>10, <1>11 DEF D!Next

-----------------------------------------------------------------------------
(* ApprovalRules: what was written stays, and a form is one rule *)

\* A rule is written once it exists; an update that wrote nothing had found a rule that is
\* deleted by now.
RulesInv ==
  /\ Q!TypeOK /\ Q!ChangesAreKept
  /\ DOMAIN written = Boleto
  /\ \A r \in Boleto : DOMAIN written[r] \subseteq {"min", "active", "deleted"}
  /\ \A r \in Boleto : rules[r] = None => DOMAIN written[r] = {}
  /\ \A e \in Request : edit[e] # Q!Idle => rules[edit[e].rule] # None
  /\ \A e \in Request : edit[e].at = "written" /\ ~edit[e].wrote => rules[edit[e].rule].deleted
  /\ ~lost => made = IF submit = "created" THEN 1 ELSE 0

LEMMA RulesInvImplies == RulesInv => Q!ChangesAreKept /\ Q!CreatedOnceUnlessLost
BY DEF RulesInv, Q!CreatedOnceUnlessLost, Q!TypeOK

LEMMA RulesInit == Q!Init => RulesInv
<1> SUFFICES ASSUME Q!Init PROVE RulesInv
  OBVIOUS
<1>1. \A e \in Request : edit[e] = Q!Idle
  BY DEF Q!Init
<1>2. \A r \in Boleto : rules[r] = None /\ DOMAIN written[r] = {}
  BY DEF Q!Init
<1>3. Q!TypeOK /\ Q!ChangesAreKept
  BY <1>1, <1>2 DEF Q!Init, Q!TypeOK, Q!EditState, Q!ChangesAreKept, Q!Confirmable, Q!Idle
<1> QED
  BY <1>1, <1>2, <1>3 DEF Q!Init, RulesInv, Q!Idle

Found == [at : {"found"}, rule : Boleto, sets : Q!Fields]
Wrote == [at : {"written"}, rule : Boleto, wrote : BOOLEAN]

LEMMA EditFields ==
  ASSUME Q!TypeOK, NEW e \in Request
  PROVE  /\ edit[e] # Q!Idle => edit[e] \in Found \cup Wrote /\ edit[e].rule \in Boleto
         /\ edit[e].at = "found" => edit[e] \in Found /\ edit[e] # Q!Idle
         /\ edit[e].at = "written" => edit[e] \in Wrote /\ edit[e] # Q!Idle
BY DEF Q!TypeOK, Q!EditState, Q!Idle, Found, Wrote

\* The rows stay; a request moves.
LEMMA OneEdit ==
  ASSUME RulesInv, NEW e \in Request, NEW x \in Q!EditState, edit' = [edit EXCEPT ![e] = x],
         UNCHANGED <<rules, written, formEdits, submit, made, lost>>,
         x # Q!Idle => rules[x.rule] # None,
         x.at = "written" => IF x.rule \in Q!Live THEN x.wrote ELSE ~x.wrote => rules[x.rule].deleted
  PROVE  RulesInv'
<1>1. \A d \in Request : edit'[d] = IF d = e THEN x ELSE edit[d]
  BY DEF RulesInv, Q!TypeOK
<1>2. Q!TypeOK'
  BY DEF RulesInv, Q!TypeOK
<1>3. Q!Live' = Q!Live
  BY DEF Q!Live
<1>4. Q!ChangesAreKept'
  BY <1>1, <1>3 DEF RulesInv, Q!ChangesAreKept, Q!Confirmable
<1> QED
  BY <1>1, <1>2, <1>4 DEF RulesInv

\* An UPDATE keeps the fields it is not sent.
LEMMA WithFields ==
  ASSUME NEW was \in Q!Row, NEW sets \in Q!Fields
  PROVE  /\ Q!With(was, sets) \in Q!Row
         /\ DOMAIN sets \subseteq {"min", "active", "deleted"}
         /\ \A f \in {"min", "active", "deleted"} :
              Q!With(was, sets)[f] = IF f \in DOMAIN sets THEN sets[f] ELSE was[f]
         /\ Q!With(was, sets).deleted <=> was.deleted \/ sets = Q!Deletion
<1>1. DOMAIN was = {"min", "active", "deleted"}
  BY DEF Q!Row
<1>2. DOMAIN sets \subseteq {"min", "active", "deleted"}
  BY DEF Q!Fields, Q!Deletion
<1>3. \A f \in {"min", "active", "deleted"} :
        Q!With(was, sets)[f] = IF f \in DOMAIN sets THEN sets[f] ELSE was[f]
  BY <1>1 DEF Q!With
<1>4. /\ "min" \in DOMAIN sets => sets["min"] \in Size
      /\ "active" \in DOMAIN sets => sets["active"] \in BOOLEAN
      /\ "deleted" \in DOMAIN sets => sets["deleted"] = TRUE /\ sets = Q!Deletion
      /\ sets = Q!Deletion => "deleted" \in DOMAIN sets
  <2>1. CASE sets \in [{"min"} -> Size]
    <3>1. DOMAIN sets = {"min"} /\ DOMAIN Q!Deletion = {"deleted", "active"}
      BY <2>1 DEF Q!Deletion
    <3> QED
      BY <2>1, <3>1
  <2>2. CASE sets \in [{"active"} -> BOOLEAN]
    <3>1. DOMAIN sets = {"active"} /\ DOMAIN Q!Deletion = {"deleted", "active"}
      BY <2>2 DEF Q!Deletion
    <3> QED
      BY <2>2, <3>1
  <2>3. CASE sets = Q!Deletion
    <3>1. DOMAIN sets = {"deleted", "active"} /\ sets["deleted"] = TRUE /\ sets["active"] = FALSE
      BY <2>3 DEF Q!Deletion
    <3> QED
      BY <2>3, <3>1
  <2> QED
    BY <2>1, <2>2, <2>3 DEF Q!Fields
<1>5. Q!With(was, sets) = [min |-> Q!With(was, sets)["min"], active |-> Q!With(was, sets)["active"],
                           deleted |-> Q!With(was, sets)["deleted"]]
  BY <1>1 DEF Q!With
<1>6. Q!With(was, sets) \in Q!Row
  BY <1>3, <1>4, <1>5 DEF Q!Row
<1>7. Q!With(was, sets).deleted <=> was.deleted \/ sets = Q!Deletion
  BY <1>3, <1>4 DEF Q!Row
<1> QED
  BY <1>2, <1>3, <1>6, <1>7

LEMMA RuleWriteStep ==
  ASSUME RulesInv, NEW e \in Request, Q!Write(e)
  PROVE  RulesInv'
<1> PICK c : c = edit[e]
  OBVIOUS
<1> PICK x : x = IF c.sets = Q!Deletion THEN Q!Idle
                 ELSE [at |-> "written", rule |-> c.rule, wrote |-> c.rule \in Q!Live]
  OBVIOUS
<1>1. /\ c \in Found /\ c # Q!Idle /\ c.at = "found" /\ rules[c.rule] # None /\ c.rule \in Boleto /\ c.sets \in Q!Fields
      /\ edit' = [edit EXCEPT ![e] = x] /\ UNCHANGED <<formEdits, submit, made, lost>>
  BY EditFields DEF Q!Write, Q!pageVars, RulesInv, Found
<1>2. /\ x \in Q!EditState
      /\ x # Q!Idle => x.rule = c.rule /\ (x.wrote <=> c.rule \in Q!Live)
  <2>1. CASE c.sets = Q!Deletion
    BY <2>1 DEF Q!EditState
  <2>2. CASE c.sets # Q!Deletion
    <3> PICK w \in BOOLEAN : w <=> c.rule \in Q!Live
      OBVIOUS
    <3>1. x = [at |-> "written", rule |-> c.rule, wrote |-> w]
      BY <2>2
    <3>2. x \in Wrote /\ x.rule = c.rule /\ x.wrote = w
      BY <1>1, <3>1 DEF Wrote
    <3> QED
      BY <3>2 DEF Q!EditState, Wrote
  <2> QED
    BY <2>1, <2>2
<1>3. CASE c.rule \notin Q!Live
  <2>1. UNCHANGED <<rules, written>>
    BY <1>3 DEF Q!Write
  <2>2. rules[c.rule].deleted
    BY <1>1, <1>3 DEF Q!Live
  <2>3. x.at = "written" => x # Q!Idle
    BY DEF Q!Idle
  <2> QED
    BY <1>1, <1>2, <1>3, <2>1, <2>2, <2>3, OneEdit
<1>4. CASE c.rule \in Q!Live
  <2> PICK old : old = rules[c.rule]
    OBVIOUS
  <2> PICK new : new = Q!With(old, c.sets)
    OBVIOUS
  <2> PICK w : w = written[c.rule]
    OBVIOUS
  <2> PICK v : v = [f \in DOMAIN w \cup DOMAIN c.sets |-> IF f \in DOMAIN c.sets THEN c.sets[f] ELSE w[f]]
    OBVIOUS
  <2>1. rules' = [rules EXCEPT ![c.rule] = new] /\ written' = [written EXCEPT ![c.rule] = v]
    BY <1>4 DEF Q!Write
  <2>2. old \in Q!Row /\ ~old.deleted
    BY <1>1, <1>4 DEF RulesInv, Q!TypeOK, Q!Live
  <2>3. /\ new \in Q!Row /\ new # None /\ DOMAIN c.sets \subseteq {"min", "active", "deleted"}
        /\ \A f \in {"min", "active", "deleted"} : new[f] = IF f \in DOMAIN c.sets THEN c.sets[f] ELSE old[f]
        /\ new.deleted <=> c.sets = Q!Deletion
    BY <1>1, <2>2, WithFields, RowsAssumption
  <2>4. /\ DOMAIN w \subseteq {"min", "active", "deleted"} /\ \A f \in DOMAIN w : old[f] = w[f]
        /\ DOMAIN v = DOMAIN w \cup DOMAIN c.sets
    BY <1>1 DEF RulesInv, Q!ChangesAreKept
  <2>5. \A f \in DOMAIN v : new[f] = v[f]
    <3>1. ASSUME NEW f \in DOMAIN v PROVE new[f] = v[f]
      <4>1. f \in DOMAIN w \cup DOMAIN c.sets /\ f \in {"min", "active", "deleted"}
        BY <2>3, <2>4
      <4>2. v[f] = IF f \in DOMAIN c.sets THEN c.sets[f] ELSE w[f]
        BY <4>1
      <4> QED
        BY <2>3, <2>4, <4>1, <4>2
    <3> QED
      BY <3>1
  <2>6. /\ \A r \in Boleto : rules'[r] = IF r = c.rule THEN new ELSE rules[r]
        /\ \A d \in Request : edit'[d] = IF d = e THEN x ELSE edit[d]
    BY <1>1, <2>1 DEF RulesInv, Q!TypeOK
  <2>7. \A r \in Boleto : written'[r] = IF r = c.rule THEN v ELSE written[r]
    BY <2>1 DEF RulesInv
  <2>8. DOMAIN written' = Boleto
    BY <2>1 DEF RulesInv
  <2>9. Q!TypeOK'
    BY <1>1, <1>2, <2>1, <2>3 DEF RulesInv, Q!TypeOK
  <2>10. ASSUME NEW r \in Boleto
         PROVE  /\ DOMAIN written'[r] \subseteq {"min", "active", "deleted"}
                /\ rules'[r] = None => DOMAIN written'[r] = {}
                /\ \A f \in DOMAIN written'[r] : rules'[r][f] = written'[r][f]
    <3>1. CASE r = c.rule
      <4>1. written'[r] = v
        BY <2>7, <3>1
      <4>2. rules'[r] = new
        BY <2>6, <3>1
      <4>3. DOMAIN v \subseteq {"min", "active", "deleted"}
        BY <2>3, <2>4
      <4>4. \A f \in DOMAIN written'[r] : rules'[r][f] = written'[r][f]
        BY ONLY <2>5, <4>1, <4>2
      <4> QED
        BY <2>3, <4>1, <4>2, <4>3, <4>4
    <3>2. CASE r # c.rule
      <4>1. written'[r] = written[r] /\ rules'[r] = rules[r]
        BY <2>6, <2>7, <3>2
      <4> QED
        BY <4>1 DEF RulesInv, Q!ChangesAreKept
    <3> QED
      BY <3>1, <3>2
  <2>11. ASSUME NEW d \in Request
         PROVE  /\ edit'[d] # Q!Idle => rules'[edit'[d].rule] # None
                /\ edit'[d].at = "written" /\ ~edit'[d].wrote => rules'[edit'[d].rule].deleted
                /\ edit'[d].at = "written" /\ edit'[d].rule \in Q!Live' => edit'[d].wrote
    <3>1. CASE d = e
      <4>1. edit'[d] = x
        BY <2>6, <3>1
      <4>2. x.at = "written" => x # Q!Idle
        BY DEF Q!Idle
      <4> QED
        BY <1>1, <1>2, <1>4, <2>3, <2>6, <4>1, <4>2
    <3>2. CASE d # e
      <4>1. edit'[d] = edit[d]
        BY <2>6, <3>2
      <4>2. edit[d] # Q!Idle => edit[d].rule \in Boleto /\ rules[edit[d].rule] # None
        BY EditFields DEF RulesInv
      <4>3. edit[d].at = "written" => edit[d] # Q!Idle
        BY DEF Q!Idle
      <4>4. edit[d].at = "written" /\ ~edit[d].wrote => rules[edit[d].rule].deleted
        BY DEF RulesInv
      <4>5. edit[d].at = "written" /\ ~edit[d].wrote => edit[d].rule # c.rule
        BY <2>2, <4>4
      <4>6. edit'[d].at = "written" /\ ~edit'[d].wrote => rules'[edit'[d].rule].deleted
        BY <2>6, <4>1, <4>2, <4>3, <4>4, <4>5
      <4>7. edit'[d] # Q!Idle => rules'[edit'[d].rule] # None
        BY <2>3, <2>6, <4>1, <4>2
      <4> QED
        BY <4>6, <4>7 DEF Q!Live
    <3> QED
      BY <3>1, <3>2
  <2>12. Q!ChangesAreKept'
    BY <2>10, <2>11 DEF Q!ChangesAreKept, Q!Confirmable
  <2> QED
    BY <1>1, <2>8, <2>9, <2>10, <2>11, <2>12 DEF RulesInv
<1> QED
  BY <1>3, <1>4

\* A rule is created; whatever wrote or was under way before names another.
LEMMA RuleInsertStep ==
  ASSUME RulesInv, NEW r \in Boleto, NEW min \in Size, Q!Insert(r, min), UNCHANGED <<edit, written, formEdits, lost>>,
         submit' \in {"no", "sent", "created"}, made' \in Nat,
         ~lost => made' = IF submit' = "created" THEN 1 ELSE 0
  PROVE  RulesInv'
<1> PICK new : new = [min |-> min, active |-> TRUE, deleted |-> FALSE]
  OBVIOUS
<1>1. rules[r] = None /\ rules' = [rules EXCEPT ![r] = new] /\ new \in Q!Row /\ new # None
  <2>1. new \in Q!Row
    BY DEF Q!Row
  <2> QED
    BY <2>1, RowsAssumption DEF Q!Insert
<1>2. \A q \in Boleto : rules'[q] = IF q = r THEN new ELSE rules[q]
  BY <1>1 DEF RulesInv, Q!TypeOK
<1>3. Q!TypeOK'
  BY <1>1 DEF RulesInv, Q!TypeOK
<1>4. ASSUME NEW e \in Request, edit[e] # Q!Idle PROVE edit[e].rule \in Boleto /\ edit[e].rule # r
  BY <1>1, <1>4, EditFields DEF RulesInv
<1>5. \A e \in Request : edit[e].at = "written" => edit[e] # Q!Idle
  BY DEF Q!Idle
<1>6. \A q \in Boleto : \A f \in DOMAIN written[q] : rules'[q][f] = written[q][f]
  BY <1>1, <1>2 DEF RulesInv, Q!ChangesAreKept
<1>7. \A e \in Request : Q!Confirmable(e)' => edit[e].wrote
  BY <1>2, <1>4, <1>5 DEF RulesInv, Q!ChangesAreKept, Q!Confirmable, Q!Live
<1>8. Q!ChangesAreKept'
  BY <1>6, <1>7 DEF Q!ChangesAreKept
<1>9. \A e \in Request : /\ edit[e] # Q!Idle => rules'[edit[e].rule] # None
                         /\ edit[e].at = "written" /\ ~edit[e].wrote => rules'[edit[e].rule].deleted
  BY <1>2, <1>4, <1>5 DEF RulesInv
<1>10. \A q \in Boleto : rules'[q] = None => DOMAIN written[q] = {}
  BY <1>1, <1>2 DEF RulesInv
<1> QED
  BY <1>3, <1>8, <1>9, <1>10 DEF RulesInv

\* The form moves, and no row or request.
LEMMA FormStep ==
  ASSUME RulesInv, UNCHANGED <<rules, edit, written>>, formEdits' \in BOOLEAN, lost' \in BOOLEAN,
         submit' \in {"no", "sent", "created"}, made' \in Nat,
         ~lost' => made' = IF submit' = "created" THEN 1 ELSE 0
  PROVE  RulesInv'
BY DEF RulesInv, Q!TypeOK, Q!ChangesAreKept, Q!Confirmable, Q!Live

LEMMA RulesStep ==
  ASSUME RulesInv, [Q!Next]_rulesVars
  PROVE  RulesInv'
<1>0. /\ formEdits \in BOOLEAN /\ lost \in BOOLEAN /\ submit \in {"no", "sent", "created"} /\ made \in Nat
      /\ ~lost => made = IF submit = "created" THEN 1 ELSE 0
  BY DEF RulesInv, Q!TypeOK
<1>1. ASSUME NEW e \in Request, NEW r \in Boleto, NEW sets \in Q!Fields, Q!Find(e, r, sets) PROVE RulesInv'
  <2> PICK x : x = [at |-> "found", rule |-> r, sets |-> sets]
    OBVIOUS
  <2>1. x \in Q!EditState
    BY DEF Q!EditState
  <2> QED
    BY <1>1, <2>1, OneEdit DEF Q!Find, Q!pageVars, Q!Live
<1>2. ASSUME NEW e \in Request, Q!Write(e) PROVE RulesInv'
  BY <1>2, RuleWriteStep
<1>3. ASSUME NEW e \in Request, Q!Finish(e) PROVE RulesInv'
  <2>1. Q!Idle \in Q!EditState /\ Q!Idle.at # "written"
    BY DEF Q!EditState, Q!Idle
  <2> QED
    BY <1>3, <2>1, OneEdit DEF Q!Finish, Q!pageVars
<1>4. ASSUME NEW r \in Boleto, Q!StartEdit(r) PROVE RulesInv'
  BY <1>0, <1>4, FormStep DEF Q!StartEdit, Q!Fill
<1>5. ASSUME NEW r \in Boleto, NEW min \in Size, Q!CreateElsewhere(r, min) PROVE RulesInv'
  BY <1>0, <1>5, RuleInsertStep DEF Q!CreateElsewhere, Q!pageVars
<1>6. ASSUME NEW r \in Boleto, NEW min \in Size, Q!CreateRule(r, min) PROVE RulesInv'
  BY <1>0, <1>6, RuleInsertStep DEF Q!CreateRule
<1>7. CASE Q!ResetForm
  BY <1>0, <1>7, FormStep DEF Q!ResetForm, Q!Fill
<1>8. CASE Q!SubmitForm
  BY <1>0, <1>8, FormStep DEF Q!SubmitForm
<1>9. CASE Q!Created
  BY <1>0, <1>9, FormStep DEF Q!Created, Q!Fill
<1>10. CASE Q!CreateFails
  BY <1>0, <1>10, FormStep DEF Q!CreateFails
<1>11. CASE UNCHANGED rulesVars
  BY <1>11 DEF rulesVars, RulesInv, Q!TypeOK, Q!ChangesAreKept, Q!Confirmable, Q!Live
<1> QED
  BY <1>1, <1>2, <1>3, <1>4, <1>5, <1>6, <1>7, <1>8, <1>9, <1>10, <1>11 DEF Q!Next

-----------------------------------------------------------------------------
(* NotificationList: what was fetched since a deed shows it *)

Listing == [Notification -> {"none", "unread", "read"}]
ListAsked == [at : {"asked"}, late : BOOLEAN]
ListRead == [at : {"read"}, late : BOOLEAN, rows : Listing]
Changing ==
  [kind : {"mark", "markAll", "delete"}, on : Notification, previous : Listing, at : {"sent", "committed"}]

ShowsDeeds(rows) == \A d \in deeds : rows[d[1]] # "unread" /\ (d[2] = "deleted" => rows[d[1]] = "none")
Exist(rows) == \A n \in Notification : rows[n] # "none" => stored[n] # "none"

\* What becomes of a notification: it is never unread again, and never back.
Later(old, new) ==
  /\ new \in {"none", "unread", "read", "deleted"}
  /\ old # "none" => new # "none"
  /\ old \in {"read", "deleted"} => new \in {"read", "deleted"}
  /\ old = "deleted" => new = "deleted"

\* A change that is committed is stored, and so is every deed.
DoneIsStored(c) ==
  change[c].at = "committed" =>
    /\ change[c].kind = "mark" => stored[change[c].on] \in {"read", "deleted"}
    /\ change[c].kind = "delete" => stored[change[c].on] = "deleted"
DeedsAreStored == \A d \in deeds : stored[d[1]] \in {"read", "deleted"} /\ (d[2] = "deleted" => stored[d[1]] = "deleted")

\* A list that is neither stale nor behind shows the deeds, even with a change under way;
\* so does what was fetched, unless a change settled since.
ListInv ==
  /\ L!TypeOK
  /\ fetch \in ListAsked \cup ListRead \cup {None} /\ change \in [Change -> Changing \cup {None}]
  /\ Exist(shown) /\ (fetch # None /\ fetch.at = "read" => Exist(fetch.rows))
  /\ \A c \in Change : change[c] # None => /\ Exist(change[c].previous) /\ change[c].previous[change[c].on] # "none"
                                         /\ DoneIsStored(c)
  /\ DeedsAreStored
  /\ ~stale /\ ~behind => ShowsDeeds(shown)
  /\ fetch # None /\ fetch.at = "read" /\ ~fetch.late => ShowsDeeds(fetch.rows)

LEMMA ListInvImplies == ListInv => L!DeedsAreShown
BY DEF ListInv, L!DeedsAreShown, ShowsDeeds

LEMMA ListInit == L!Init => ListInv
<1> SUFFICES ASSUME L!Init PROVE ListInv
  OBVIOUS
<1>1. L!TypeOK /\ change \in [Change -> Changing \cup {None}] /\ \A c \in Change : change[c] = None
  BY DEF L!Init, L!TypeOK
<1> QED
  BY <1>1 DEF L!Init, ListInv, Exist, DeedsAreStored

LEMMA ListFields ==
  ASSUME ListInv
  PROVE  /\ fetch # None /\ fetch.at = "asked" => fetch \in ListAsked
         /\ fetch # None /\ fetch.at = "read" => fetch \in ListRead /\ fetch.rows \in Listing /\ fetch.late \in BOOLEAN
         /\ \A c \in Change : change[c] # None => change[c] \in Changing /\ change[c].on \in Notification
BY DEF ListInv, ListAsked, ListRead, Changing

\* The rows move on, in the API.
LEMMA StoredStep ==
  ASSUME ListInv, stored' \in [Notification -> {"none", "unread", "read", "deleted"}],
         \A n \in Notification : Later(stored[n], stored'[n]),
         change' \in [Change -> Changing \cup {None}],
         \A c \in Change : change'[c] # None => /\ change[c] # None
                                             /\ change'[c].previous = change[c].previous /\ change'[c].on = change[c].on,
         \A c \in Change : change'[c] # None => DoneIsStored(c)',
         UNCHANGED <<shown, open, stale, fetch, behind, deeds>>
  PROVE  ListInv'
<1>1. L!TypeOK'
  BY DEF ListInv, L!TypeOK
<1>2. \A rows : Exist(rows) => \A n \in Notification : rows[n] # "none" => stored'[n] # "none"
  BY DEF Exist, Later
<1>3. Exist(shown)' /\ (fetch # None /\ fetch.at = "read" => Exist(fetch.rows))'
      /\ \A c \in Change : change'[c] # None => Exist(change[c].previous)'
  BY <1>2 DEF ListInv, Exist
<1>4. DeedsAreStored'
  BY DEF ListInv, DeedsAreStored, L!TypeOK, Later
<1> QED
  BY <1>1, <1>3, <1>4 DEF ListInv, ShowsDeeds

\* The list is shown or fetched anew; nothing changes in the API.
LEMMA ShownStep ==
  ASSUME ListInv, UNCHANGED <<stored, change, deeds>>, open' \in BOOLEAN, stale' \in BOOLEAN, behind' \in BOOLEAN,
         shown' \in Listing, Exist(shown'), ~stale' /\ ~behind' => ShowsDeeds(shown'),
         fetch' \in ListAsked \cup ListRead \cup {None},
         fetch' # None /\ fetch'.at = "read" => Exist(fetch'.rows) /\ (~fetch'.late => ShowsDeeds(fetch'.rows))
  PROVE  ListInv'
<1>1. L!TypeOK'
  BY DEF ListInv, L!TypeOK, Listing
<1> QED
  BY <1>1 DEF ListInv, ShowsDeeds, Exist, DeedsAreStored, DoneIsStored

\* A change settles: a fetch under way is dropped, or marked as late.
LEMMA SettleStep ==
  ASSUME ListInv, NEW c \in Change, L!Settle(c), UNCHANGED <<stored, open, behind>>,
         deeds' \subseteq Notification \X {"read", "deleted"}, DeedsAreStored',
         shown' \in Listing, Exist(shown')
  PROVE  ListInv'
<1>1. stale' = TRUE /\ change' = [change EXCEPT ![c] = None]
  BY DEF L!Settle
<1>2. fetch' \in ListAsked \cup ListRead \cup {None}
      /\ (fetch' # None /\ fetch'.at = "read" => fetch'.late /\ fetch # None /\ fetch.at = "read" /\ fetch'.rows = fetch.rows)
  <2>1. CASE open \/ fetch = None
    BY <2>1 DEF L!Settle, L!Refetch, L!Asked, ListAsked
  <2>2. CASE ~open /\ fetch # None
    <3>1. fetch' = [fetch EXCEPT !.late = TRUE]
      BY <2>2 DEF L!Settle, L!Refetch
    <3>2. CASE fetch \in ListAsked
      BY <3>1, <3>2 DEF ListAsked
    <3>3. CASE fetch \in ListRead
      BY <2>2, <3>1, <3>3 DEF ListRead
    <3> QED
      BY <2>2, <3>2, <3>3 DEF ListInv
  <2> QED
    BY <2>1, <2>2
<1>3. L!TypeOK'
  BY <1>1 DEF ListInv, L!TypeOK, Listing
<1>4. change' \in [Change -> Changing \cup {None}]
      /\ \A d \in Change : change'[d] # None => change'[d] = change[d]
  BY <1>1 DEF ListInv
<1>5. \A d \in Change : change'[d] # None => Exist(change[d].previous)' /\ DoneIsStored(d)'
  BY <1>4 DEF ListInv, Exist, DoneIsStored
<1>6. fetch' # None /\ fetch'.at = "read" => Exist(fetch.rows)'
  BY <1>2 DEF ListInv, Exist
<1> QED
  BY <1>1, <1>2, <1>3, <1>4, <1>5, <1>6 DEF ListInv, Exist

\* What the API does to the rows.
LEMMA StoredIsLater ==
  ASSUME ListInv, NEW kind \in {"mark", "markAll", "delete"}, NEW n \in Notification
  PROVE  /\ L!Stored(kind, n) \in [Notification -> {"none", "unread", "read", "deleted"}]
         /\ \A x \in Notification : Later(stored[x], L!Stored(kind, n)[x])
         /\ kind = "mark" /\ stored[n] # "none" => L!Stored(kind, n)[n] \in {"read", "deleted"}
         /\ kind = "delete" /\ stored[n] # "none" => L!Stored(kind, n)[n] = "deleted"
<1>1. stored \in [Notification -> {"none", "unread", "read", "deleted"}]
  BY DEF ListInv, L!TypeOK
<1>2. \A x \in Notification : L!Stored(kind, n)[x] =
        IF kind = "mark" /\ x = n /\ stored[x] = "unread" THEN "read"
        ELSE IF kind = "markAll" /\ stored[x] = "unread" THEN "read"
        ELSE IF kind = "delete" /\ x = n /\ stored[x] # "none" THEN "deleted"
        ELSE stored[x]
  BY DEF L!Stored
<1>3. \A x \in Notification : Later(stored[x], L!Stored(kind, n)[x])
  BY <1>1, <1>2 DEF Later
<1>4. L!Stored(kind, n) \in [Notification -> {"none", "unread", "read", "deleted"}]
  BY <1>3 DEF L!Stored, Later
<1> QED
  BY <1>1, <1>2, <1>3, <1>4

LEMMA ListMutateStep ==
  ASSUME ListInv, NEW c \in Change, NEW kind \in {"mark", "markAll", "delete"}, NEW n \in Notification,
         L!Mutate(c, kind, n)
  PROVE  ListInv'
<1> PICK old : old = shown
  OBVIOUS
<1> PICK x : x = [kind |-> kind, on |-> n, previous |-> old, at |-> "sent"]
  OBVIOUS
<1>1. /\ change' = [change EXCEPT ![c] = x] /\ shown' = L!Expected(kind, n) /\ fetch' = None
      /\ UNCHANGED <<stored, open, stale, behind, deeds>>
  BY DEF L!Mutate
<1>2. old \in Listing /\ Exist(old)
  BY DEF ListInv, L!TypeOK, Listing
<1>3. x \in Changing
  BY <1>2 DEF Changing
<1>4. \A y \in Notification :
        shown'[y] = IF kind = "delete" /\ y = n THEN "none"
                    ELSE IF (kind = "markAll" \/ (kind = "mark" /\ y = n)) /\ shown[y] = "unread" THEN "read"
                    ELSE shown[y]
  BY <1>1 DEF L!Expected
<1>5. \A y \in Notification : shown'[y] \in {"none", "unread", "read"} /\ (shown'[y] = "unread" => shown[y] = "unread")
                              /\ (shown[y] = "none" => shown'[y] = "none")
  BY <1>2, <1>4 DEF Listing
<1>6. shown' \in Listing
  BY <1>1, <1>5 DEF L!Expected, Listing
<1>7. Exist(shown)'
  BY <1>1, <1>5 DEF ListInv, Exist
<1>8. ShowsDeeds(shown) => ShowsDeeds(shown)'
  <2>1. \A d \in deeds : d[1] \in Notification
    BY DEF ListInv, L!TypeOK
  <2> QED
    BY <1>1, <1>5, <2>1 DEF ShowsDeeds
<1>9. \A d \in Change : change'[d] = IF d = c THEN x ELSE change[d]
  BY <1>1 DEF ListInv
<1>10. change' \in [Change -> Changing \cup {None}]
  BY <1>1, <1>3 DEF ListInv
<1>11. ASSUME NEW d \in Change, change'[d] # None
       PROVE  Exist(change[d].previous)' /\ change'[d].previous[change'[d].on] # "none" /\ DoneIsStored(d)'
  <2>1. CASE d = c
    <3>1. shown[n] # "none"
      BY DEF L!Mutate
    <3> QED
      BY <3>1, <1>1, <1>2, <1>9, <2>1 DEF Exist, DoneIsStored
  <2>2. CASE d # c
    BY <1>1, <1>9, <1>11, <2>2 DEF ListInv, Exist, DoneIsStored
  <2> QED
    BY <2>1, <2>2
<1>12. L!TypeOK'
  BY <1>1, <1>6 DEF ListInv, L!TypeOK, Listing
<1>13. DeedsAreStored'
  BY <1>1 DEF ListInv, DeedsAreStored
<1> QED
  BY <1>1, <1>7, <1>8, <1>10, <1>11, <1>12, <1>13 DEF ListInv

LEMMA ListStep ==
  ASSUME ListInv, [L!Next]_listVars
  PROVE  ListInv'
<1>0. /\ open \in BOOLEAN /\ stale \in BOOLEAN /\ behind \in BOOLEAN /\ shown \in Listing /\ Exist(shown)
      /\ ~stale /\ ~behind => ShowsDeeds(shown)
      /\ fetch \in ListAsked \cup ListRead \cup {None}
      /\ fetch # None /\ fetch.at = "read" => Exist(fetch.rows) /\ (~fetch.late => ShowsDeeds(fetch.rows))
  BY DEF ListInv, L!TypeOK, Listing
<1>01. L!Asked \in ListAsked /\ L!Asked.at # "read"
  BY DEF L!Asked, ListAsked
<1>1. CASE L!Toggle
  BY <1>0, <1>01, <1>1, ShownStep DEF L!Toggle
<1>2. CASE L!Poll
  BY <1>0, <1>01, <1>2, ShownStep DEF L!Poll
<1>3. CASE L!Read
  <2> PICK rows : rows = [n \in Notification |-> IF stored[n] = "deleted" THEN "none" ELSE stored[n]]
    OBVIOUS
  <2>1. /\ fetch' = [at |-> "read", late |-> fetch.late, rows |-> rows] /\ fetch.late \in BOOLEAN
        /\ UNCHANGED <<stored, shown, open, stale, change, behind, deeds>>
    BY <1>3, ListFields DEF L!Read, ListAsked
  <2>2. rows \in Listing /\ Exist(rows)
    BY DEF ListInv, L!TypeOK, Listing, Exist
  <2>3. ShowsDeeds(rows)
    <3>1. \A d \in deeds : d[1] \in Notification
      BY DEF ListInv, L!TypeOK
    <3> QED
      BY <3>1 DEF ListInv, DeedsAreStored, ShowsDeeds
  <2>4. fetch' \in ListRead /\ fetch'.rows = rows
    BY <2>1, <2>2 DEF ListRead
  <2> QED
    BY <1>0, <2>1, <2>2, <2>3, <2>4, ShownStep
<1>4. CASE L!Deliver
  BY <1>0, <1>4, ListFields, ShownStep DEF L!Deliver
<1>5. CASE L!FetchFails
  BY <1>0, <1>5, ShownStep DEF L!FetchFails
<1>6. ASSUME NEW n \in Notification, L!Arrive(n) PROVE ListInv'
  <2>1. /\ stored' \in [Notification -> {"none", "unread", "read", "deleted"}]
        /\ \A x \in Notification : Later(stored[x], stored'[x]) /\ (stored[x] # "none" => stored'[x] = stored[x])
        /\ UNCHANGED <<shown, open, stale, fetch, change, behind, deeds>>
    BY <1>6 DEF L!Arrive, ListInv, L!TypeOK, Later
  <2>2. \A c \in Change : change[c] # None => DoneIsStored(c)'
    BY <2>1, ListFields DEF ListInv, DoneIsStored
  <2>3. change' \in [Change -> Changing \cup {None}]
    BY <2>1 DEF ListInv
  <2> QED
    BY <2>1, <2>2, <2>3, StoredStep
<1>7. ASSUME NEW n \in Notification, NEW kind \in {"mark", "markAll", "delete"}, L!ChangeElsewhere(kind, n) PROVE ListInv'
  <2>1. /\ stored' \in [Notification -> {"none", "unread", "read", "deleted"}]
        /\ \A x \in Notification : Later(stored[x], stored'[x])
        /\ UNCHANGED <<shown, open, stale, fetch, change, behind, deeds>>
    BY <1>7, StoredIsLater DEF L!ChangeElsewhere
  <2>2. \A c \in Change : change[c] # None => DoneIsStored(c)'
    BY <2>1, ListFields DEF ListInv, DoneIsStored, Later
  <2>3. change' \in [Change -> Changing \cup {None}]
    BY <2>1 DEF ListInv
  <2> QED
    BY <2>1, <2>2, <2>3, StoredStep
<1>8. ASSUME NEW c \in Change, NEW kind \in {"mark", "markAll", "delete"}, NEW n \in Notification, L!Mutate(c, kind, n)
      PROVE  ListInv'
  BY <1>8, ListMutateStep
<1>9. ASSUME NEW c \in Change, L!Commit(c) PROVE ListInv'
  <2> PICK y : y = change[c]
    OBVIOUS
  <2> PICK x : x = [y EXCEPT !.at = "committed"]
    OBVIOUS
  <2>1. /\ y # None /\ y \in Changing /\ stored' = L!Stored(y.kind, y.on) /\ change' = [change EXCEPT ![c] = x]
        /\ UNCHANGED <<shown, open, stale, fetch, behind, deeds>>
    BY <1>9, ListFields DEF L!Commit
  <2>2. /\ x \in Changing /\ x.kind = y.kind /\ x.on = y.on /\ x.previous = y.previous
        /\ y.kind \in {"mark", "markAll", "delete"} /\ y.on \in Notification
    BY <2>1 DEF Changing
  <2>3. /\ stored' \in [Notification -> {"none", "unread", "read", "deleted"}]
        /\ \A n \in Notification : Later(stored[n], stored'[n])
        /\ y.kind = "mark" /\ stored[y.on] # "none" => stored'[y.on] \in {"read", "deleted"}
        /\ y.kind = "delete" /\ stored[y.on] # "none" => stored'[y.on] = "deleted"
    BY <2>1, <2>2, StoredIsLater
  <2>4. \A d \in Change : change'[d] = IF d = c THEN x ELSE change[d]
    BY <2>1 DEF ListInv
  <2>5. stored[y.on] # "none"
    BY <2>1, <2>2 DEF ListInv, Exist
  <2>6. ASSUME NEW d \in Change, change'[d] # None
        PROVE  change[d] # None /\ change'[d].previous = change[d].previous /\ change'[d].on = change[d].on
               /\ DoneIsStored(d)'
    <3>1. CASE d = c
      BY <2>1, <2>2, <2>3, <2>4, <2>5, <3>1 DEF DoneIsStored
    <3>2. CASE d # c
      BY <2>3, <2>4, <2>6, <3>2, ListFields DEF ListInv, DoneIsStored, Later
    <3> QED
      BY <3>1, <3>2
  <2>7. change' \in [Change -> Changing \cup {None}]
    BY <2>1, <2>2 DEF ListInv
  <2> QED
    BY <2>1, <2>3, <2>6, <2>7, StoredStep
<1>10. ASSUME NEW c \in Change, L!Succeed(c) PROVE ListInv'
  <2> PICK y : y = change[c]
    OBVIOUS
  <2> PICK told : told = IF y.kind = "markAll" THEN {} ELSE {<<y.on, IF y.kind = "delete" THEN "deleted" ELSE "read">>}
    OBVIOUS
  <2>1. /\ y # None /\ y \in Changing /\ y.at = "committed" /\ deeds' = deeds \cup told /\ L!Settle(c)
        /\ UNCHANGED <<stored, shown, open, behind>>
    BY <1>10, ListFields DEF L!Succeed
  <2>2. y.kind \in {"mark", "markAll", "delete"} /\ y.on \in Notification
    BY <2>1 DEF Changing
  <2>3. /\ y.kind = "mark" => stored[y.on] \in {"read", "deleted"}
        /\ y.kind = "delete" => stored[y.on] = "deleted"
    BY <2>1 DEF ListInv, DoneIsStored
  <2>4. told \subseteq Notification \X {"read", "deleted"}
    BY <2>2
  <2>5. \A d \in told : stored[d[1]] \in {"read", "deleted"} /\ (d[2] = "deleted" => stored[d[1]] = "deleted")
    BY <2>2, <2>3
  <2>6. DeedsAreStored'
    BY <2>1, <2>5 DEF ListInv, DeedsAreStored
  <2>7. deeds' \subseteq Notification \X {"read", "deleted"}
    BY <2>1, <2>4 DEF ListInv, L!TypeOK
  <2> QED
    BY <1>0, <2>1, <2>6, <2>7, SettleStep
<1>11. ASSUME NEW c \in Change, L!Fail(c) PROVE ListInv'
  <2>1. /\ change[c] # None /\ shown' = change[c].previous /\ L!Settle(c)
        /\ UNCHANGED <<stored, open, behind, deeds>>
    BY <1>11 DEF L!Fail
  <2>2. change[c].previous \in Listing /\ Exist(change[c].previous)
    BY <2>1, ListFields DEF ListInv, Changing
  <2>3. deeds' \subseteq Notification \X {"read", "deleted"} /\ DeedsAreStored'
    BY <2>1 DEF ListInv, L!TypeOK, DeedsAreStored
  <2> QED
    BY <2>1, <2>2, <2>3, SettleStep
<1>12. CASE UNCHANGED listVars
  <2>1. L!TypeOK'
    BY <1>12 DEF listVars, ListInv, L!TypeOK
  <2> QED
    BY <1>12, <2>1 DEF listVars, ListInv, ShowsDeeds, Exist, DeedsAreStored, DoneIsStored
<1> QED
  BY <1>1, <1>2, <1>3, <1>4, <1>5, <1>6, <1>7, <1>8, <1>9, <1>10, <1>11, <1>12 DEF L!Next

-----------------------------------------------------------------------------
(* Attachments: the bytes a tenant is charged *)

AttachedFile == [size : Size, deleted : BOOLEAN]

\* A deletion under way is of a file that has a row, and found it undeleted.
AttachmentInv ==
  /\ A!TypeOK
  /\ IsFiniteSet(A!Attached)
  /\ \A f \in objects : upload[f] # None
  /\ \A d \in Deleter : deleting[d] # None => attachment[deleting[d].file] # None /\ deleting[d].sawIt
  /\ A!ChargedForWhatIsAttached

\* The bytes of finitely many files, as a number.
BytesIn(S, size) == UNION {{f} \X (1 .. size[f]) : f \in S}

LEMMA OwnBytes ==
  ASSUME NEW f, NEW n \in Nat
  PROVE  IsFiniteSet({f} \X (1 .. n)) /\ Cardinality({f} \X (1 .. n)) = n
<1>1. IsFiniteSet(1 .. n) /\ Cardinality(1 .. n) = n
  BY FS_Interval
<1>2. IsFiniteSet({f}) /\ Cardinality({f}) = 1
  BY FS_Singleton
<1>3. IsFiniteSet({f} \X (1 .. n)) /\ Cardinality({f} \X (1 .. n)) = 1 * n
  BY <1>1, <1>2, FS_Product
<1> QED
  BY <1>3

LEMMA BytesFinite ==
  ASSUME NEW S, IsFiniteSet(S), NEW size, \A f \in S : size[f] \in Nat
  PROVE  IsFiniteSet(BytesIn(S, size)) /\ Cardinality(BytesIn(S, size)) \in Nat
<1> DEFINE bytes == [f \in S |-> {f} \X (1 .. size[f])]
           T == {{f} \X (1 .. size[f]) : f \in S}
<1>1. bytes \in Surjection(S, T)
  BY DEF Surjection
<1>2. IsFiniteSet(T)
  BY <1>1, FS_Surjection
<1>3. \A C \in {{f} \X (1 .. size[f]) : f \in S} : IsFiniteSet(C)
  <2>1. ASSUME NEW f \in S PROVE IsFiniteSet({f} \X (1 .. size[f]))
    BY OwnBytes
  <2> QED
    BY <2>1
<1>4. IsFiniteSet(UNION T)
  BY <1>2, <1>3, FS_UNION
<1> QED
  BY <1>4, FS_CardinalityType DEF BytesIn

\* One more file adds its size.
LEMMA BytesAdd ==
  ASSUME NEW S, IsFiniteSet(S), NEW f, f \notin S, NEW size, \A g \in S \cup {f} : size[g] \in Nat
  PROVE  Cardinality(BytesIn(S \cup {f}, size)) = Cardinality(BytesIn(S, size)) + size[f]
<1> PICK own : own = {f} \X (1 .. size[f])
  OBVIOUS
<1> PICK rest : rest = BytesIn(S, size)
  OBVIOUS
<1>1. BytesIn(S \cup {f}, size) = rest \cup own /\ rest \cap own = {}
  BY DEF BytesIn
<1>2. IsFiniteSet(rest) /\ Cardinality(rest) \in Nat
  BY BytesFinite
<1>3. size[f] \in Nat
  OBVIOUS
<1>4. IsFiniteSet(own) /\ Cardinality(own) = size[f]
  BY <1>3, OwnBytes
<1>5. Cardinality(rest \cup own) = Cardinality(rest) + Cardinality(own) - Cardinality({})
  BY <1>1, <1>2, <1>4, FS_Union
<1>6. Cardinality({}) = 0
  BY FS_EmptySet
<1> QED
  BY <1>1, <1>2, <1>3, <1>4, <1>5, <1>6

\* What AttachedBytes counts.
LEMMA AttachedCounts ==
  ASSUME NEW size, \A f \in A!Attached : size[f] = attachment[f].size
  PROVE  A!AttachedBytes = Cardinality(BytesIn(A!Attached, size))
<1>1. \A S : A!Cardinality(S) = Cardinality(S)
  BY DEF A!Cardinality, Cardinality
<1>2. UNION {A!BytesOf(f) : f \in A!Attached} = BytesIn(A!Attached, size)
  BY DEF A!BytesOf, BytesIn
<1> QED
  BY <1>1, <1>2 DEF A!AttachedBytes

LEMMA AttachmentInit == A!Init => AttachmentInv
<1> SUFFICES ASSUME A!Init PROVE AttachmentInv
  OBVIOUS
<1>1. A!Attached = {}
  BY DEF A!Init, A!Attached
<1>2. IsFiniteSet({}) /\ Cardinality({}) = 0
  BY FS_EmptySet
<1>3. A!AttachedBytes = 0
  <2>1. A!AttachedBytes = Cardinality(BytesIn({}, [f \in {} |-> 0]))
    BY <1>1, AttachedCounts
  <2>2. BytesIn({}, [f \in {} |-> 0]) = {}
    BY DEF BytesIn
  <2> QED
    BY <1>2, <2>1, <2>2
<1>4. A!TypeOK
  BY DEF A!Init, A!TypeOK
<1> QED
  BY <1>1, <1>2, <1>3, <1>4 DEF A!Init, AttachmentInv, A!ChargedForWhatIsAttached

LEMMA AttachedCountsNext ==
  ASSUME NEW size, \A f \in A!Attached' : size[f] = attachment'[f].size
  PROVE  A!AttachedBytes' = Cardinality(BytesIn(A!Attached', size))
<1>1. \A S : A!Cardinality(S) = Cardinality(S)
  BY DEF A!Cardinality, Cardinality
<1>2. A!AttachedBytes' = A!Cardinality(UNION {{f} \X (1 .. attachment'[f].size) : f \in A!Attached'})
  BY DEF A!AttachedBytes, A!BytesOf
<1>3. UNION {{f} \X (1 .. attachment'[f].size) : f \in A!Attached'} = BytesIn(A!Attached', size)
  BY DEF BytesIn
<1> QED
  BY <1>1, <1>2, <1>3

\* The files that are attached, and their sizes, as constants of a step.
LEMMA AttachedSizes ==
  ASSUME AttachmentInv
  PROVE  \E S, size :
           /\ S = A!Attached /\ IsFiniteSet(S) /\ size = [f \in File |-> attachment[f].size]
           /\ \A f \in S : f \in File /\ size[f] \in Nat
           /\ A!AttachedBytes = Cardinality(BytesIn(S, size)) /\ Cardinality(BytesIn(S, size)) \in Nat
<1> PICK S : S = A!Attached
  OBVIOUS
<1> PICK size : size = [f \in File |-> attachment[f].size]
  OBVIOUS
<1>1. \A f \in S : f \in File /\ attachment[f] \in AttachedFile
  BY DEF A!Attached, AttachmentInv, A!TypeOK, AttachedFile
<1>2. \A f \in S : f \in File /\ size[f] = attachment[f].size /\ size[f] \in Nat
  BY <1>1, SizeAssumption DEF AttachedFile
<1>3. IsFiniteSet(S)
  BY DEF AttachmentInv
<1> QED
  BY <1>2, <1>3, AttachedCounts, BytesFinite

\* Nothing is attached or taken away.
LEMMA SameAttached ==
  ASSUME AttachmentInv, UNCHANGED <<attachment, usedBytes, overlapped>>, A!TypeOK',
         \A f \in objects' : upload'[f] # None,
         \A d \in Deleter : deleting'[d] # None => attachment[deleting'[d].file] # None /\ deleting'[d].sawIt
  PROVE  AttachmentInv'
<1>1. A!Attached' = A!Attached
  BY DEF A!Attached
<1>2. A!AttachedBytes' = A!AttachedBytes
  BY <1>1 DEF A!AttachedBytes, A!BytesOf
<1> QED
  BY <1>1, <1>2 DEF AttachmentInv, A!ChargedForWhatIsAttached

LEMMA RegisterAttachmentStep ==
  ASSUME AttachmentInv, NEW f \in File, A!Register(f)
  PROVE  AttachmentInv'
<1> PICK n : n = upload[f]
  OBVIOUS
<1> PICK x : x = [size |-> n, deleted |-> FALSE]
  OBVIOUS
<1>1. /\ attachment[f] = None /\ attachment' = [attachment EXCEPT ![f] = x] /\ usedBytes' = usedBytes + n
      /\ UNCHANGED <<entryLive, upload, objects, deleting, overlapped>>
  BY DEF A!Register
<1>2. n \in Size /\ n \in Nat
  BY SizeAssumption DEF A!Register, AttachmentInv, A!TypeOK
<1>3. x \in AttachedFile /\ x # None /\ x.size = n /\ ~x.deleted
  <2>1. x \in AttachedFile
    BY <1>2 DEF AttachedFile
  <2>2. None \notin AttachedFile
    BY SizeAssumption DEF AttachedFile
  <2> QED
    BY <2>1, <2>2
<1>4. PICK S, old : /\ S = A!Attached /\ IsFiniteSet(S) /\ old = [g \in File |-> attachment[g].size]
                    /\ \A g \in S : g \in File /\ old[g] \in Nat
                    /\ A!AttachedBytes = Cardinality(BytesIn(S, old)) /\ Cardinality(BytesIn(S, old)) \in Nat
  BY AttachedSizes
<1> PICK size : size = [old EXCEPT ![f] = n]
  OBVIOUS
<1>5. \A g \in File : attachment'[g] = IF g = f THEN x ELSE attachment[g]
  BY <1>1 DEF AttachmentInv, A!TypeOK
<1>6. A!Attached' = S \cup {f} /\ f \notin S
  BY <1>1, <1>3, <1>4, <1>5 DEF A!Attached
<1>7. \A g \in S : size[g] = old[g] /\ old[g] = attachment[g].size
  BY <1>4, <1>6
<1>8. size[f] = n
  BY <1>4
<1>9. BytesIn(S, size) = BytesIn(S, old)
  BY <1>7 DEF BytesIn
<1>10. Cardinality(BytesIn(S \cup {f}, size)) = Cardinality(BytesIn(S, size)) + n
  BY <1>2, <1>4, <1>6, <1>7, <1>8, BytesAdd
<1>11. A!AttachedBytes' = A!AttachedBytes + n
  <2>1. \A g \in A!Attached' : size[g] = attachment'[g].size
    BY <1>3, <1>4, <1>5, <1>6, <1>7, <1>8
  <2> QED
    BY <1>4, <1>6, <1>9, <1>10, <2>1, AttachedCountsNext
<1>12. IsFiniteSet(A!Attached')
  BY <1>4, <1>6, FS_AddElement
<1>13. A!TypeOK'
  BY <1>1, <1>2, <1>3 DEF AttachmentInv, A!TypeOK, AttachedFile
<1>14. A!ChargedForWhatIsAttached'
  BY <1>1, <1>2, <1>4, <1>11 DEF AttachmentInv, A!ChargedForWhatIsAttached, A!TypeOK
<1>15. \A d \in Deleter : deleting[d] # None => attachment'[deleting[d].file] # None
  BY <1>3, <1>5 DEF AttachmentInv, A!TypeOK
<1> QED
  BY <1>1, <1>12, <1>13, <1>14, <1>15 DEF AttachmentInv

\* What is given back is never below nothing.
LEMMA GivenBack ==
  ASSUME NEW used \in Nat, NEW n \in Nat
  PROVE  A!Max({0, used - n}) = IF used >= n THEN used - n ELSE 0
<1>1. \A m \in {0, used - n} : (\A y \in {0, used - n} : m >= y) <=> m = IF used >= n THEN used - n ELSE 0
  OBVIOUS
<1>2. (IF used >= n THEN used - n ELSE 0) \in {0, used - n}
  OBVIOUS
<1> QED
  BY <1>1, <1>2 DEF A!Max

LEMMA DeleteCommitStep ==
  ASSUME AttachmentInv, NEW d \in Deleter, A!DeleteCommit(d)
  PROVE  AttachmentInv'
<1> PICK f : f = deleting[d].file
  OBVIOUS
<1> PICK y : y = attachment[f]
  OBVIOUS
<1> PICK x : x = [y EXCEPT !.deleted = TRUE]
  OBVIOUS
<1> PICK n : n = y.size
  OBVIOUS
<1>1. /\ attachment' = [attachment EXCEPT ![f] = x] /\ usedBytes' = A!Max({0, usedBytes - n})
      /\ overlapped' = IF y.deleted /\ deleting[d].sawIt THEN overlapped \cup {f} ELSE overlapped
      /\ deleting' = [deleting EXCEPT ![d] = None] /\ UNCHANGED <<entryLive, upload, objects>>
  BY DEF A!DeleteCommit
<1>2. f \in File /\ y \in AttachedFile /\ y # None /\ deleting[d].sawIt
  BY DEF A!DeleteCommit, AttachmentInv, A!TypeOK, AttachedFile
<1>3. n \in Size /\ n \in Nat /\ y.deleted \in BOOLEAN
  BY <1>2, SizeAssumption DEF AttachedFile
<1>4. x \in AttachedFile /\ x # None /\ x.size = n /\ x.deleted
  <2>1. x \in AttachedFile /\ x.size = n /\ x.deleted
    BY <1>2 DEF AttachedFile
  <2>2. None \notin AttachedFile
    BY SizeAssumption DEF AttachedFile
  <2> QED
    BY <2>1, <2>2
<1>5. usedBytes \in Nat /\ usedBytes' \in Nat /\ usedBytes' = IF usedBytes >= n THEN usedBytes - n ELSE 0
  <2>1. usedBytes \in Nat
    BY DEF AttachmentInv, A!TypeOK
  <2>2. usedBytes' = IF usedBytes >= n THEN usedBytes - n ELSE 0
    BY <1>1, <1>3, <2>1, GivenBack
  <2> QED
    BY <1>3, <2>1, <2>2
<1>6. \A g \in File : attachment'[g] = IF g = f THEN x ELSE attachment[g]
  BY <1>1 DEF AttachmentInv, A!TypeOK
<1>7. A!TypeOK'
  <2>1. attachment' \in [File -> AttachedFile \cup {None}]
    BY <1>1, <1>4 DEF AttachmentInv, A!TypeOK, AttachedFile
  <2> QED
    BY <1>1, <1>2, <1>5, <2>1 DEF AttachmentInv, A!TypeOK, AttachedFile
<1>8. \A e \in Deleter : deleting'[e] # None => attachment'[deleting'[e].file] # None /\ deleting'[e].sawIt
  BY <1>1, <1>4, <1>6 DEF AttachmentInv, A!TypeOK
<1>9. PICK S, size : /\ S = A!Attached /\ IsFiniteSet(S) /\ size = [g \in File |-> attachment[g].size]
                     /\ \A g \in S : g \in File /\ size[g] \in Nat
                     /\ A!AttachedBytes = Cardinality(BytesIn(S, size)) /\ Cardinality(BytesIn(S, size)) \in Nat
  BY AttachedSizes
<1>10. \A g \in File : size[g] = attachment'[g].size
  BY <1>4, <1>6, <1>9
<1>11. A!Attached' = S \ {f}
  BY <1>4, <1>6, <1>9 DEF A!Attached
<1>12. IsFiniteSet(S \ {f}) /\ \A g \in S \ {f} : g \in File
  BY <1>9, FS_RemoveElement
<1>13. A!AttachedBytes' = Cardinality(BytesIn(S \ {f}, size)) /\ Cardinality(BytesIn(S \ {f}, size)) \in Nat
  <2>1. \A g \in A!Attached' : size[g] = attachment'[g].size
    BY <1>10, <1>11, <1>12
  <2>2. Cardinality(BytesIn(S \ {f}, size)) \in Nat
    BY <1>9, <1>12, BytesFinite
  <2> QED
    BY <1>11, <2>1, <2>2, AttachedCountsNext
<1>14. A!ChargedForWhatIsAttached'
  <2>1. usedBytes <= A!AttachedBytes /\ (overlapped = {} => usedBytes = A!AttachedBytes)
    BY DEF AttachmentInv, A!ChargedForWhatIsAttached
  <2>2. CASE y.deleted
    <3>1. S \ {f} = S
      BY <1>9, <2>2 DEF A!Attached
    <3>2. overlapped' # {}
      BY <1>1, <1>2, <2>2
    <3>3. usedBytes' <= usedBytes
      BY <1>3, <1>5
    <3>4. A!AttachedBytes' = A!AttachedBytes /\ A!AttachedBytes \in Nat
      BY ONLY <1>9, <1>13, <3>1
    <3> QED
      BY <1>5, <2>1, <3>2, <3>3, <3>4 DEF A!ChargedForWhatIsAttached
  <2>3. CASE ~y.deleted
    <3> PICK T : T = S \ {f}
      OBVIOUS
    <3>1. f \in S /\ (S \ {f}) \cup {f} = S /\ f \notin S \ {f}
      BY <1>2, <1>9, <2>3 DEF A!Attached
    <3>2. size[f] = n
      BY <1>2, <1>9
    <3>3. Cardinality(BytesIn(S, size)) = Cardinality(BytesIn(S \ {f}, size)) + n
      <4>1. IsFiniteSet(T) /\ f \notin T /\ S = T \cup {f} /\ \A g \in T \cup {f} : size[g] \in Nat
        BY <1>9, <1>12, <3>1
      <4>2. Cardinality(BytesIn(T \cup {f}, size)) = Cardinality(BytesIn(T, size)) + size[f]
        BY <4>1, BytesAdd
      <4> QED
        BY <3>2, <4>1, <4>2
    <3>4. overlapped' = overlapped
      BY <1>1, <2>3
    <3> QED
      BY <1>3, <1>5, <1>9, <1>13, <2>1, <3>3, <3>4 DEF A!ChargedForWhatIsAttached
  <2> QED
    BY <2>2, <2>3
<1>15. IsFiniteSet(A!Attached')
  BY <1>11, <1>12
<1> QED
  BY <1>1, <1>7, <1>8, <1>14, <1>15 DEF AttachmentInv

LEMMA AttachmentStep ==
  ASSUME AttachmentInv, [A!Next]_attachmentVars
  PROVE  AttachmentInv'
<1>0. /\ A!TypeOK /\ \A f \in objects : upload[f] # None
      /\ \A d \in Deleter : deleting[d] # None => attachment[deleting[d].file] # None /\ deleting[d].sawIt
  BY DEF AttachmentInv
<1>1. CASE A!ToggleEntry
  BY <1>0, <1>1, SameAttached DEF A!ToggleEntry, A!TypeOK
<1>2. ASSUME NEW f \in File, A!Put(f) PROVE AttachmentInv'
  BY <1>0, <1>2, SameAttached DEF A!Put, A!TypeOK
<1>3. ASSUME NEW f \in File, A!Register(f) PROVE AttachmentInv'
  BY <1>3, RegisterAttachmentStep
<1>4. ASSUME NEW f \in File, NEW size \in Size, A!Presign(f, size) PROVE AttachmentInv'
  <2>1. A!TypeOK' /\ \A g \in objects' : upload'[g] # None
    BY <1>0, <1>4 DEF A!Presign, A!TypeOK
  <2> QED
    BY <1>0, <1>4, <2>1, SameAttached DEF A!Presign
<1>5. ASSUME NEW d \in Deleter, A!DeleteCommit(d) PROVE AttachmentInv'
  BY <1>5, DeleteCommitStep
<1>6. ASSUME NEW d \in Deleter, A!DeleteFails(d) PROVE AttachmentInv'
  BY <1>0, <1>6, SameAttached DEF A!DeleteFails, A!TypeOK
<1>7. ASSUME NEW d \in Deleter, NEW f \in File, A!DeleteCheck(d, f) PROVE AttachmentInv'
  <2> PICK saw : saw = ~attachment[f].deleted
    OBVIOUS
  <2>1. /\ deleting' = [deleting EXCEPT ![d] = [file |-> f, sawIt |-> saw]]
        /\ saw \in BOOLEAN /\ saw /\ attachment[f] # None
        /\ UNCHANGED <<entryLive, upload, objects, attachment, usedBytes, overlapped>>
    BY <1>7 DEF A!DeleteCheck, A!Removable
  <2>2. A!TypeOK'
    BY <1>0, <2>1 DEF A!TypeOK
  <2>3. \A e \in Deleter : deleting'[e] # None => attachment[deleting'[e].file] # None /\ deleting'[e].sawIt
    BY <1>0, <2>1 DEF A!TypeOK
  <2> QED
    BY <1>0, <2>1, <2>2, <2>3, SameAttached
<1>8. CASE UNCHANGED attachmentVars
  BY <1>0, <1>8, SameAttached DEF attachmentVars, A!TypeOK
<1> QED
  BY <1>1, <1>2, <1>3, <1>4, <1>5, <1>6, <1>7, <1>8 DEF A!Next

-----------------------------------------------------------------------------
(* Recurrences: each occurrence once *)

Reads == UNION {[S -> Nat] : S \in SUBSET Recurrence}
JobRow == [rows : SUBSET Recurrence, todo : SUBSET Recurrence, read : Reads, series : SUBSET R!Type]
Occurrence == [on : R!Days, made : R!Days, deleted : BOOLEAN]

\* What a run read of a row it has locked is still so: nobody else moves that row.
AsRead(j, r) ==
  /\ jobRun[j].read[r] = recurrence[r].next
  /\ recurrence[r].next <= today /\ recurrence[r].count < MaxOccurrences

\* No row is locked by two runs.  An occurrence that was displaced is one of those counted.
RecurrenceInv ==
  /\ R!TypeOK
  /\ jobRun \in [Run -> JobRow \cup {None}]
  /\ \A j \in Run : jobRun[j] # None => \A r \in jobRun[j].rows : AsRead(j, r)
  /\ \A j, k \in Run : j # k /\ jobRun[j] # None /\ jobRun[k] # None => jobRun[j].rows \cap jobRun[k].rows = {}
  /\ \A r \in Recurrence : displaced[r] \subseteq 1 .. recurrence[r].count
  /\ R!EachOccurrenceOnce

LEMMA RecurrenceInit == R!Init => RecurrenceInv
<1> SUFFICES ASSUME R!Init PROVE RecurrenceInv
  OBVIOUS
<1>1. \A r \in Recurrence : /\ recurrence[r] \in [type : R!Type, next : {1}, count : {0}, active : {TRUE}]
                            /\ recurrence[r].next = 1 /\ recurrence[r].count = 0 /\ recurrence[r] \in R!Row
  <2>1. 1 \in 1 .. LastDay + 1 /\ 0 \in Nat /\ TRUE \in BOOLEAN
    BY RecurrenceAssumption
  <2>2. \A x \in [type : R!Type, next : {1}, count : {0}, active : {TRUE}] : x.next = 1 /\ x.count = 0 /\ x \in R!Row
    BY <2>1 DEF R!Row
  <2>3. \A r \in Recurrence : recurrence[r] \in [type : R!Type, next : {1}, count : {0}, active : {TRUE}]
    BY DEF R!Init
  <2> QED
    BY <2>2, <2>3
<1>2. R!TypeOK
  <2>1. recurrence \in [Recurrence -> R!Row]
    BY <1>1 DEF R!Init
  <2> QED
    BY <2>1, RecurrenceAssumption DEF R!Init, R!TypeOK, R!Days
<1>3. R!EachOccurrenceOnce
  <2> SUFFICES ASSUME NEW r \in Recurrence
               PROVE  /\ {o.made : o \in occurrences[r]} = (1 .. recurrence[r].count) \ displaced[r]
                      /\ recurrence[r].next = recurrence[r].count + 1
                      /\ recurrence[r].count <= MaxOccurrences
    BY DEF R!EachOccurrenceOnce
  <2>1. {o.made : o \in occurrences[r]} = {}
    <3>1. occurrences[r] = {}
      BY DEF R!Init
    <3> QED
      BY <3>1
  <2>2. recurrence[r].count = 0 /\ recurrence[r].next = 1
    BY <1>1
  <2>3. 1 .. recurrence[r].count = {}
    BY <2>2
  <2>4. (1 .. recurrence[r].count) \ displaced[r] = {}
    BY <2>3
  <2>5. {o.made : o \in occurrences[r]} = (1 .. recurrence[r].count) \ displaced[r]
    BY <2>1, <2>4, Zenon
  <2>6. recurrence[r].next = recurrence[r].count + 1 /\ recurrence[r].count <= MaxOccurrences
    BY <2>2, RecurrenceAssumption
  <2> QED
    BY <2>5, <2>6, Zenon
<1> QED
  BY <1>2, <1>3 DEF R!Init, RecurrenceInv

\* A step that moves no row of recurrences, and no occurrence.
LEMMA SameOccurrences ==
  ASSUME RecurrenceInv, UNCHANGED <<recurrence, displaced, lastSequence>>,
         today' \in R!Days, today' >= today,
         occurrences' \in [Recurrence -> SUBSET Occurrence],
         \A r \in Recurrence : {o.made : o \in occurrences'[r]} = {o.made : o \in occurrences[r]},
         jobRun' \in [Run -> JobRow \cup {None}],
         \A j \in Run : jobRun'[j] # None =>
           /\ jobRun'[j].todo \subseteq jobRun'[j].rows
           /\ \/ jobRun[j] # None /\ jobRun'[j].rows = jobRun[j].rows /\ jobRun'[j].read = jobRun[j].read
              \/ /\ \A r \in jobRun'[j].rows : jobRun'[j].read[r] = recurrence[r].next /\ R!Claimable(r)
                 /\ \A k \in Run : k # j => jobRun'[k] = jobRun[k]
  PROVE  RecurrenceInv'
<1>1. R!TypeOK'
  <2>1. \A j \in Run : jobRun'[j] # None => jobRun'[j].series \subseteq R!Type
    BY DEF JobRow
  <2> QED
    BY <2>1 DEF RecurrenceInv, R!TypeOK, Occurrence
<1>2. \A r \in Recurrence : recurrence[r].next \in Nat /\ today \in Nat
  BY DEF RecurrenceInv, R!TypeOK, R!Row, R!Days
<1>3. \A j \in Run : jobRun'[j] # None => jobRun'[j].rows \subseteq Recurrence
  BY DEF JobRow
<1>4. ASSUME NEW j \in Run, jobRun'[j] # None, NEW r \in jobRun'[j].rows PROVE AsRead(j, r)'
  <2>0. r \in Recurrence /\ today' \in Nat
    BY <1>3, <1>4 DEF R!Days
  <2>1. CASE jobRun[j] # None /\ jobRun'[j].rows = jobRun[j].rows /\ jobRun'[j].read = jobRun[j].read
    BY <1>2, <1>4, <2>0, <2>1 DEF RecurrenceInv, AsRead
  <2>2. CASE jobRun'[j].read[r] = recurrence[r].next /\ R!Claimable(r)
    BY <1>2, <2>0, <2>2 DEF AsRead, R!Claimable
  <2> QED
    BY <1>4, <2>1, <2>2
<1>5. ASSUME NEW j \in Run, NEW k \in Run, j # k, jobRun'[j] # None, jobRun'[k] # None
      PROVE  jobRun'[j].rows \cap jobRun'[k].rows = {}
  <2>1. \A r : \A i \in Run : jobRun[i] # None /\ r \in jobRun[i].rows => r \in R!Claimed
    BY DEF R!Claimed
  <2>2. \A r : R!Claimable(r) => r \notin R!Claimed
    BY DEF R!Claimable
  <2>3. ASSUME NEW i \in Run, jobRun'[i] # None, NEW l \in Run, l # i, jobRun'[l] # None,
               \A r \in jobRun'[i].rows : R!Claimable(r), jobRun'[l] = jobRun[l]
        PROVE  jobRun'[i].rows \cap jobRun'[l].rows = {}
    BY <2>1, <2>2, <2>3
  <2> QED
    BY <1>5, <2>3 DEF RecurrenceInv
<1>6. R!EachOccurrenceOnce'
  BY DEF RecurrenceInv, R!EachOccurrenceOnce
<1> QED
  BY <1>1, <1>4, <1>5, <1>6 DEF RecurrenceInv

\* A row that is done.
LEMMA MovedRow ==
  ASSUME NEW was \in R!Row, NEW day \in R!Days
  PROVE  /\ R!Moved(was, day) \in R!Row
         /\ R!Moved(was, day).count = was.count + 1 /\ R!Moved(was, day).next = day + 1
<1>1. was.count + 1 \in Nat /\ day + 1 \in 1 .. LastDay + 1
  BY RecurrenceAssumption DEF R!Row, R!Days
<1>2. (was.active /\ was.count + 1 < MaxOccurrences) \in BOOLEAN
  OBVIOUS
<1> PICK n : n = was.count + 1
  OBVIOUS
<1> PICK d : d = day + 1
  OBVIOUS
<1> PICK a \in BOOLEAN : a = (was.active /\ was.count + 1 < MaxOccurrences)
  BY <1>2
<1>3. [was EXCEPT !.count = n, !.next = d, !.active = a] \in R!Row
  BY <1>1 DEF R!Row
<1>4. R!Moved(was, day) = [was EXCEPT !.count = n, !.next = d, !.active = a]
  BY DEF R!Moved
<1>5. R!Moved(was, day) \in R!Row
  BY <1>3, <1>4
<1>6. R!Moved(was, day).count = n /\ R!Moved(was, day).next = d
  BY <1>4 DEF R!Row
<1> QED
  BY <1>5, <1>6

\* Occurrences of a row before and after a run did it.
LEMMA OccurrenceMade ==
  ASSUME RecurrenceInv, NEW r \in Recurrence, NEW day \in R!Days, day = recurrence[r].next,
         NEW new, new = IF ~R!Taken(r, day)
                        THEN occurrences[r] \cup {[on |-> day, made |-> day, deleted |-> FALSE]} ELSE occurrences[r],
         NEW gone, gone = IF \E o \in occurrences[r] : o.on = day /\ ~o.deleted /\ o.made # day
                          THEN displaced[r] \cup {day} ELSE displaced[r]
  PROVE  /\ {o.made : o \in new} = (1 .. recurrence[r].count + 1) \ gone
         /\ gone \subseteq 1 .. recurrence[r].count + 1
         /\ new \subseteq Occurrence
<1> PICK n \in Nat : n = recurrence[r].count /\ day = n + 1
  BY DEF RecurrenceInv, R!EachOccurrenceOnce, R!TypeOK, R!Row
<1>1. /\ {o.made : o \in occurrences[r]} = (1 .. n) \ displaced[r] /\ displaced[r] \subseteq 1 .. n
      /\ occurrences[r] \subseteq Occurrence
  BY DEF RecurrenceInv, R!EachOccurrenceOnce, R!TypeOK, Occurrence
<1>2. \A o \in occurrences[r] : o.made \in 1 .. n
  BY <1>1
<1>3. 1 .. n + 1 = (1 .. n) \cup {n + 1} /\ n + 1 \notin 1 .. n
  OBVIOUS
<1>4. CASE R!Taken(r, day)
  <2>1. gone = displaced[r] \cup {day} /\ new = occurrences[r]
    BY <1>2, <1>3, <1>4 DEF R!Taken
  <2> QED
    BY <1>1, <1>3, <2>1
<1>5. CASE ~R!Taken(r, day)
  <2> PICK o : o = [on |-> day, made |-> day, deleted |-> FALSE]
    OBVIOUS
  <2>1. gone = displaced[r] /\ new = occurrences[r] \cup {o}
    BY <1>5 DEF R!Taken
  <2>2. o \in Occurrence /\ o.made = n + 1
    BY DEF Occurrence
  <2>3. {x.made : x \in new} = {x.made : x \in occurrences[r]} \cup {n + 1}
    BY <2>1, <2>2
  <2>4. {x.made : x \in new} = (1 .. n + 1) \ gone
    BY ONLY <1>1, <1>3, <2>1, <2>3
  <2>5. gone \subseteq 1 .. n + 1
    BY ONLY <1>1, <1>3, <2>1
  <2>6. new \subseteq Occurrence
    BY ONLY <1>1, <2>1, <2>2
  <2> QED
    BY <2>4, <2>5, <2>6
<1> QED
  BY <1>4, <1>5

LEMMA RecurrenceCommitStep ==
  ASSUME RecurrenceInv, NEW j \in Run, R!Commit(j)
  PROVE  RecurrenceInv'
<1> PICK rows : rows = jobRun[j].rows
  OBVIOUS
<1> PICK read : read = jobRun[j].read
  OBVIOUS
<1>1. /\ occurrences' = [r \in Recurrence |->
              IF r \in rows /\ ~R!Taken(r, read[r])
              THEN occurrences[r] \cup {[on |-> read[r], made |-> read[r], deleted |-> FALSE]}
              ELSE occurrences[r]]
      /\ displaced' = [r \in Recurrence |->
              IF r \in rows /\ \E o \in occurrences[r] : o.on = read[r] /\ ~o.deleted /\ o.made # read[r]
              THEN displaced[r] \cup {read[r]} ELSE displaced[r]]
      /\ recurrence' = [r \in Recurrence |-> IF r \in rows THEN R!Moved(recurrence[r], read[r]) ELSE recurrence[r]]
      /\ lastSequence' = [t \in R!Type |-> lastSequence[t] + R!Cardinality({r \in rows : recurrence[r].type = t})]
      /\ jobRun' = [jobRun EXCEPT ![j] = None] /\ today' = today
      /\ jobRun[j] # None
  BY DEF R!Commit
<1>2. rows \subseteq Recurrence
  BY <1>1 DEF RecurrenceInv, JobRow
<1>3. ASSUME NEW r \in rows
      PROVE  read[r] = recurrence[r].next /\ read[r] \in R!Days /\ recurrence[r].count < MaxOccurrences
  <2>1. r \in Recurrence /\ read[r] = recurrence[r].next /\ recurrence[r].next <= today
        /\ recurrence[r].count < MaxOccurrences
    BY <1>1, <1>2, <1>3 DEF RecurrenceInv, AsRead
  <2>2. recurrence[r].next \in 1 .. LastDay + 1 /\ today \in 1 .. LastDay
    BY <2>1 DEF RecurrenceInv, R!TypeOK, R!Row, R!Days
  <2> QED
    BY <2>1, <2>2, RecurrenceAssumption DEF R!Days
<1>4. ASSUME NEW r \in Recurrence, r \in rows
      PROVE  /\ {o.made : o \in occurrences'[r]} = (1 .. recurrence'[r].count) \ displaced'[r]
             /\ displaced'[r] \subseteq 1 .. recurrence'[r].count /\ displaced'[r] \subseteq R!Days
             /\ occurrences'[r] \subseteq Occurrence
             /\ recurrence'[r] \in R!Row /\ recurrence'[r].next = recurrence'[r].count + 1
             /\ recurrence'[r].count <= MaxOccurrences
  <2> PICK day \in R!Days : day = read[r] /\ day = recurrence[r].next
    BY <1>3, <1>4
  <2> PICK n \in Nat : n = recurrence[r].count /\ day = n + 1 /\ n < MaxOccurrences
    BY <1>3, <1>4 DEF RecurrenceInv, R!EachOccurrenceOnce, R!TypeOK, R!Row
  <2>1. recurrence'[r] = R!Moved(recurrence[r], day)
    BY <1>1, <1>4
  <2>2. recurrence[r] \in R!Row
    BY DEF RecurrenceInv, R!TypeOK
  <2>3. recurrence'[r] \in R!Row /\ recurrence'[r].count = n + 1 /\ recurrence'[r].next = day + 1
    BY <2>1, <2>2, MovedRow
  <2>4. occurrences'[r] = IF ~R!Taken(r, day)
                          THEN occurrences[r] \cup {[on |-> day, made |-> day, deleted |-> FALSE]} ELSE occurrences[r]
    BY <1>1, <1>4
  <2>5. displaced'[r] = IF \E o \in occurrences[r] : o.on = day /\ ~o.deleted /\ o.made # day
                        THEN displaced[r] \cup {day} ELSE displaced[r]
    BY <1>1, <1>4
  <2>6. /\ {o.made : o \in occurrences'[r]} = (1 .. n + 1) \ displaced'[r]
        /\ displaced'[r] \subseteq 1 .. n + 1 /\ occurrences'[r] \subseteq Occurrence
    <3> PICK new : new = occurrences'[r]
      OBVIOUS
    <3> PICK gone : gone = displaced'[r]
      OBVIOUS
    <3>1. new = IF ~R!Taken(r, day)
                THEN occurrences[r] \cup {[on |-> day, made |-> day, deleted |-> FALSE]} ELSE occurrences[r]
      BY ONLY <2>4, new = occurrences'[r]
    <3>2. gone = IF \E o \in occurrences[r] : o.on = day /\ ~o.deleted /\ o.made # day
                 THEN displaced[r] \cup {day} ELSE displaced[r]
      BY ONLY <2>5, gone = displaced'[r]
    <3>3. /\ {o.made : o \in new} = (1 .. recurrence[r].count + 1) \ gone
          /\ gone \subseteq 1 .. recurrence[r].count + 1 /\ new \subseteq Occurrence
      BY <3>1, <3>2, OccurrenceMade, Zenon
    <3> QED
      BY <3>3
  <2>7. displaced'[r] \subseteq R!Days
    BY <2>5 DEF RecurrenceInv, R!TypeOK
  <2> QED
    BY <2>3, <2>6, <2>7, RecurrenceAssumption
<1>5. ASSUME NEW r \in Recurrence, r \notin rows
      PROVE  occurrences'[r] = occurrences[r] /\ displaced'[r] = displaced[r] /\ recurrence'[r] = recurrence[r]
  BY <1>1, <1>5
<1>6. \A k \in Run : jobRun'[k] # None => k # j /\ jobRun'[k] = jobRun[k] /\ jobRun[k].rows \cap rows = {}
  BY <1>1 DEF RecurrenceInv
<1>7. R!EachOccurrenceOnce' /\ \A r \in Recurrence : displaced'[r] \subseteq 1 .. recurrence'[r].count
  <2>1. ASSUME NEW r \in Recurrence
        PROVE  /\ {o.made : o \in occurrences'[r]} = (1 .. recurrence'[r].count) \ displaced'[r]
               /\ displaced'[r] \subseteq 1 .. recurrence'[r].count
               /\ recurrence'[r].next = recurrence'[r].count + 1
               /\ recurrence'[r].count <= MaxOccurrences
    <3>1. CASE r \in rows
      BY <1>4, <3>1
    <3>2. CASE r \notin rows
      BY <1>5, <3>2 DEF RecurrenceInv, R!EachOccurrenceOnce
    <3> QED
      BY <3>1, <3>2
  <2> QED
    BY <2>1 DEF R!EachOccurrenceOnce
<1>8. \A k \in Run : jobRun'[k] # None => \A r \in jobRun'[k].rows : AsRead(k, r)'
  <2>1. ASSUME NEW k \in Run, jobRun'[k] # None, NEW r \in jobRun'[k].rows PROVE AsRead(k, r)'
    <3>1. jobRun'[k] = jobRun[k] /\ jobRun[k] # None /\ r \in jobRun[k].rows /\ r \notin rows
      BY <1>6, <2>1
    <3>2. r \in Recurrence
      BY <3>1 DEF RecurrenceInv, JobRow
    <3>3. recurrence'[r] = recurrence[r]
      BY <1>5, <3>1, <3>2
    <3> QED
      BY <1>1, <3>1, <3>3 DEF RecurrenceInv, AsRead
  <2> QED
    BY <2>1
<1>9. jobRun' \in [Run -> JobRow \cup {None}]
  BY <1>1 DEF RecurrenceInv
<1>10. R!TypeOK'
  <2>1. recurrence' \in [Recurrence -> R!Row] /\ occurrences' \in [Recurrence -> SUBSET Occurrence]
        /\ displaced' \in [Recurrence -> SUBSET R!Days]
    <3>1. ASSUME NEW r \in Recurrence
          PROVE  recurrence'[r] \in R!Row /\ occurrences'[r] \subseteq Occurrence /\ displaced'[r] \subseteq R!Days
      <4>1. CASE r \in rows
        BY <1>4, <4>1
      <4>2. CASE r \notin rows
        BY <1>5, <4>2 DEF RecurrenceInv, R!TypeOK, Occurrence
      <4> QED
        BY <4>1, <4>2
    <3>2. recurrence' = [r \in Recurrence |-> recurrence'[r]] /\ occurrences' = [r \in Recurrence |-> occurrences'[r]]
          /\ displaced' = [r \in Recurrence |-> displaced'[r]]
      BY <1>1
    <3> QED
      BY <3>1, <3>2
  <2>2. lastSequence' \in [R!Type -> Nat]
    <3>1. \A S \in SUBSET Recurrence : R!Cardinality(S) \in Nat
      <4>1. IsFiniteSet(Recurrence)
        BY RecurrenceAssumption DEF R!IsFiniteSet, IsFiniteSet
      <4>2. \A S : R!Cardinality(S) = Cardinality(S)
        BY DEF R!Cardinality, Cardinality
      <4> QED
        BY <4>1, <4>2, FS_Subset, FS_CardinalityType
    <3>2. \A t \in R!Type : {r \in rows : recurrence[r].type = t} \in SUBSET Recurrence
      BY <1>2
    <3>3. \A t \in R!Type : lastSequence[t] + R!Cardinality({r \in rows : recurrence[r].type = t}) \in Nat
      BY <3>1, <3>2 DEF RecurrenceInv, R!TypeOK
    <3> QED
      BY <1>1, <3>3
  <2>3. \A k \in Run : jobRun'[k] # None => jobRun'[k].todo \subseteq jobRun'[k].rows /\ jobRun'[k].series \subseteq R!Type
    BY <1>6 DEF RecurrenceInv, R!TypeOK
  <2>4. today' \in R!Days
    BY <1>1 DEF RecurrenceInv, R!TypeOK
  <2> QED
    BY <2>1, <2>2, <2>3, <2>4 DEF R!TypeOK, Occurrence
<1>11. \A k, l \in Run : k # l /\ jobRun'[k] # None /\ jobRun'[l] # None => jobRun'[k].rows \cap jobRun'[l].rows = {}
  BY <1>6 DEF RecurrenceInv
<1> QED
  BY <1>7, <1>8, <1>9, <1>10, <1>11 DEF RecurrenceInv

LEMMA RecurrenceStartStep ==
  ASSUME RecurrenceInv, NEW j \in Run, R!Start(j)
  PROVE  RecurrenceInv'
<1>1. PICK rows \in SUBSET {r \in Recurrence : R!Claimable(r)} :
        jobRun' = [jobRun EXCEPT ![j] =
          [rows |-> rows, todo |-> rows, read |-> [r \in rows |-> recurrence[r].next], series |-> {}]]
  BY DEF R!Start
<1> PICK read : read = [r \in rows |-> recurrence[r].next]
  OBVIOUS
<1> PICK x : x = [rows |-> rows, todo |-> rows, read |-> read, series |-> {}]
  OBVIOUS
<1>2. /\ jobRun[j] = None /\ jobRun' = [jobRun EXCEPT ![j] = x]
      /\ UNCHANGED <<today, recurrence, occurrences, lastSequence, displaced>>
  BY <1>1 DEF R!Start
<1>3. rows \in SUBSET Recurrence /\ \A r \in rows : R!Claimable(r)
  BY <1>1
<1>4. read \in Reads
  <2>1. read \in [rows -> Nat]
    BY <1>3 DEF RecurrenceInv, R!TypeOK, R!Row
  <2> QED
    BY <1>3, <2>1 DEF Reads
<1>5. x \in JobRow /\ x.rows = rows /\ x.todo = rows /\ x.read = read
  BY <1>3, <1>4 DEF JobRow
<1>6. jobRun' \in [Run -> JobRow \cup {None}] /\ \A k \in Run : jobRun'[k] = IF k = j THEN x ELSE jobRun[k]
  BY <1>2, <1>5 DEF RecurrenceInv
<1>7. ASSUME NEW k \in Run, jobRun'[k] # None
      PROVE  /\ jobRun'[k].todo \subseteq jobRun'[k].rows
             /\ \/ jobRun[k] # None /\ jobRun'[k].rows = jobRun[k].rows /\ jobRun'[k].read = jobRun[k].read
                \/ /\ \A r \in jobRun'[k].rows : jobRun'[k].read[r] = recurrence[r].next /\ R!Claimable(r)
                   /\ \A l \in Run : l # k => jobRun'[l] = jobRun[l]
  <2>1. CASE k = j
    BY <1>3, <1>5, <1>6, <2>1
  <2>2. CASE k # j
    BY <1>6, <1>7, <2>2 DEF RecurrenceInv, R!TypeOK
  <2> QED
    BY <2>1, <2>2
<1>8. today' \in R!Days /\ today' >= today /\ occurrences' \in [Recurrence -> SUBSET Occurrence]
      /\ \A r \in Recurrence : {o.made : o \in occurrences'[r]} = {o.made : o \in occurrences[r]}
  BY <1>2 DEF RecurrenceInv, R!TypeOK, R!Days, Occurrence
<1> QED
  BY <1>2, <1>6, <1>7, <1>8, SameOccurrences

\* A user moves or deletes an occurrence: on the day it was made for, it stays made.
LEMMA OccurrenceEdited ==
  ASSUME RecurrenceInv, NEW r \in Recurrence, NEW o \in occurrences[r], NEW x \in Occurrence, x.made = o.made,
         occurrences' = [occurrences EXCEPT ![r] = (occurrences[r] \ {o}) \cup {x}],
         UNCHANGED <<today, recurrence, lastSequence, jobRun, displaced>>
  PROVE  RecurrenceInv'
<1> PICK old : old = occurrences[r]
  OBVIOUS
<1> PICK new : new = (old \ {o}) \cup {x}
  OBVIOUS
<1>1. old \subseteq Occurrence /\ new \subseteq Occurrence /\ occurrences' = [occurrences EXCEPT ![r] = new]
  BY DEF RecurrenceInv, R!TypeOK, Occurrence
<1>2. {y.made : y \in new} = {y.made : y \in old}
  BY o \in old, x.made = o.made
<1>3. occurrences' \in [Recurrence -> SUBSET Occurrence]
      /\ \A s \in Recurrence : occurrences'[s] = IF s = r THEN new ELSE occurrences[s]
  BY <1>1 DEF RecurrenceInv, R!TypeOK, Occurrence
<1>4. ASSUME NEW s \in Recurrence
      PROVE  {y.made : y \in occurrences'[s]} = {y.made : y \in occurrences[s]}
  BY <1>2, <1>3
<1>5. today' \in R!Days /\ today' >= today
  BY DEF RecurrenceInv, R!TypeOK, R!Days
<1>6. jobRun' \in [Run -> JobRow \cup {None}]
      /\ \A j \in Run : jobRun'[j] # None =>
           jobRun'[j].todo \subseteq jobRun'[j].rows /\ jobRun[j] # None
           /\ jobRun'[j].rows = jobRun[j].rows /\ jobRun'[j].read = jobRun[j].read
  BY DEF RecurrenceInv, R!TypeOK
<1> QED
  BY <1>3, <1>4, <1>5, <1>6, SameOccurrences

LEMMA RecurrenceStep ==
  ASSUME RecurrenceInv, [R!Next]_recurrenceVars
  PROVE  RecurrenceInv'
<1>0. /\ today \in R!Days /\ today \in Nat /\ occurrences \in [Recurrence -> SUBSET Occurrence]
      /\ jobRun \in [Run -> JobRow \cup {None}] /\ \A j \in Run : jobRun[j] # None => jobRun[j].todo \subseteq jobRun[j].rows
  BY DEF RecurrenceInv, R!TypeOK, R!Days, Occurrence
<1>1. CASE R!NextDay
  <2>1. today' \in R!Days /\ today' >= today
    BY <1>0, <1>1, RecurrenceAssumption DEF R!NextDay, R!Days
  <2> QED
    BY <1>0, <1>1, <2>1, SameOccurrences DEF R!NextDay
<1>2. ASSUME NEW j \in Run, R!Start(j) PROVE RecurrenceInv'
  BY <1>2, RecurrenceStartStep
<1>3. ASSUME NEW j \in Run, R!Commit(j) PROVE RecurrenceInv'
  BY <1>3, RecurrenceCommitStep
<1>4. ASSUME NEW j \in Run, R!RollBack(j) PROVE RecurrenceInv'
  <2>1. jobRun' = [jobRun EXCEPT ![j] = None] /\ UNCHANGED <<today, recurrence, occurrences, lastSequence, displaced>>
    BY <1>4 DEF R!RollBack
  <2>2. jobRun' \in [Run -> JobRow \cup {None}] /\ \A k \in Run : jobRun'[k] # None => jobRun'[k] = jobRun[k]
    BY <1>0, <2>1
  <2> QED
    BY <1>0, <2>1, <2>2, SameOccurrences
<1>5. ASSUME NEW j \in Run, NEW r \in Recurrence, R!TakeNumber(j, r) PROVE RecurrenceInv'
  <2> PICK y : y = jobRun[j]
    OBVIOUS
  <2> PICK t : t = recurrence[r].type
    OBVIOUS
  <2> PICK x : x = [y EXCEPT !.todo = y.todo \ {r}, !.series = y.series \cup {t}]
    OBVIOUS
  <2>1. /\ y # None /\ y \in JobRow /\ jobRun' = [jobRun EXCEPT ![j] = x]
        /\ UNCHANGED <<today, recurrence, occurrences, lastSequence, displaced>>
    <3>1. y # None /\ y \in JobRow /\ UNCHANGED <<today, recurrence, occurrences, lastSequence, displaced>>
      BY <1>0, <1>5 DEF R!TakeNumber
    <3>2. jobRun' = [jobRun EXCEPT ![j] = [jobRun[j] EXCEPT !.todo = jobRun[j].todo \ {r},
                                                            !.series = jobRun[j].series \cup {recurrence[r].type}]]
      BY <1>5, Zenon DEF R!TakeNumber
    <3>3. x = [jobRun[j] EXCEPT !.todo = jobRun[j].todo \ {r},
                                !.series = jobRun[j].series \cup {recurrence[r].type}]
      BY Zenon
    <3>4. jobRun' = [jobRun EXCEPT ![j] = x]
      BY ONLY <3>2, <3>3, Zenon
    <3> QED
      BY <3>1, <3>4
  <2>2. t \in R!Type
    BY DEF RecurrenceInv, R!TypeOK, R!Row
  <2>3. x \in JobRow /\ x.rows = y.rows /\ x.read = y.read /\ x.todo \subseteq y.todo
    BY <2>1, <2>2 DEF JobRow
  <2>4. jobRun' \in [Run -> JobRow \cup {None}] /\ \A k \in Run : jobRun'[k] = IF k = j THEN x ELSE jobRun[k]
    BY <1>0, <2>1, <2>3
  <2>5. ASSUME NEW k \in Run, jobRun'[k] # None
        PROVE  /\ jobRun'[k].todo \subseteq jobRun'[k].rows /\ jobRun[k] # None
               /\ jobRun'[k].rows = jobRun[k].rows /\ jobRun'[k].read = jobRun[k].read
    <3>1. CASE k = j
      BY <1>0, <2>1, <2>3, <2>4, <3>1
    <3>2. CASE k # j
      BY <1>0, <2>4, <2>5, <3>2
    <3> QED
      BY <3>1, <3>2
  <2> QED
    BY <1>0, <2>1, <2>4, <2>5, SameOccurrences
<1>6. ASSUME NEW r \in Recurrence, NEW o \in occurrences[r], R!DeleteEntry(r, o) PROVE RecurrenceInv'
  <2> PICK x : x = [o EXCEPT !.deleted = TRUE]
    OBVIOUS
  <2>0. o \in Occurrence
    BY <1>0
  <2>1. x \in Occurrence /\ x.made = o.made
    BY <2>0 DEF Occurrence
  <2> QED
    BY <1>6, <2>1, OccurrenceEdited DEF R!DeleteEntry
<1>7. ASSUME NEW r \in Recurrence, NEW o \in occurrences[r], NEW day \in R!Days, R!EditDueDate(r, o, day) PROVE RecurrenceInv'
  <2> PICK x : x = [o EXCEPT !.on = day]
    OBVIOUS
  <2>1. x \in Occurrence /\ x.made = o.made
    BY <1>0 DEF Occurrence
  <2> QED
    BY <1>7, <2>1, OccurrenceEdited DEF R!EditDueDate
<1>8. CASE UNCHANGED recurrenceVars
  BY <1>0, <1>8, SameOccurrences DEF recurrenceVars
<1> QED
  BY <1>1, <1>2, <1>3, <1>4, <1>5, <1>6, <1>7, <1>8 DEF R!Next

-----------------------------------------------------------------------------
(* Users: what a page ticked, and what it knew *)

\* A list of a user's branches says what the links say, of the branches in use.
Agrees(bs, u) == \A b \in UserBranch : branches[b] = "active" => (b \in bs <=> b \in U!BranchesOf(u))

\* What a page shows or has read of a user agrees with the links, unless these changed since.
PageKnows(t) ==
  /\ table[t] # None => \A u \in table[t].users : u \notin late[t] => Agrees(table[t].of[u], u)
  /\ load[t] # None /\ load[t].at = "read" =>
       \A u \in load[t].rows.users : u \notin load[t].late => Agrees(load[t].rows.of[u], u)

\* The branches a change sends are those it ticked and, unless the page was late, those there
\* were.
SendsTicks(t) ==
  ticking[t] # None =>
    LET c == ticking[t]
    IN  /\ \A b \in UserBranch : /\ c.ticks[b] = "on" => b \in c.to
                                 /\ c.ticks[b] = "off" => b \notin c.to
                                 /\ c.adds /\ c.to # {} => c.ticks[b] # "none"
        /\ c.at # "committed" /\ c.base = "current" /\ ~c.adds =>
             \A b \in UserBranch : branches[b] = "active" /\ c.ticks[b] = "none" => (b \in c.to <=> b \in U!BranchesOf(c.user))

\* A replacement is under way for a change that was received, and deletes all the links there
\* are, unless another change of the user overlapped with it.
Received(t) == ticking[t] # None /\ ticking[t].at = "received"
ReplacesAll(t) ==
  /\ Received(t) =>
       /\ replacing[t].at = "insert" /\ replacing[t].user = ticking[t].user /\ replacing[t].to = ticking[t].to
       /\ ticking[t].adds => ticking[t].to # {}
       /\ ticking[t].base # "overlapped" => replacing[t].deleted = U!BranchesOf(ticking[t].user)
  /\ ~Received(t) => replacing[t] = U!Idle

UsersInv ==
  /\ U!UsersTypeOK
  /\ \A t \in Tab : PageKnows(t) /\ SendsTicks(t) /\ ReplacesAll(t)
  /\ U!TicksAreKept

LEMMA UsersInit == U!UsersInit => UsersInv
<1> SUFFICES ASSUME U!UsersInit PROVE UsersInv
  OBVIOUS
<1>1. U!UsersTypeOK
  <2>1. U!TypeOK
    BY DEF U!UsersInit, U!TypeOK, U!ReplacerState, U!Page
  <2>2. \A u \in Member : wanted[u] \in [UserBranch -> U!Tick]
    BY DEF U!UsersInit, U!NoTick, U!Tick
  <2>3. wanted \in [Member -> [UserBranch -> U!Tick]]
    BY <2>2 DEF U!UsersInit
  <2> QED
    BY <2>1, <2>3, PagesAssumption DEF U!UsersInit, U!UsersTypeOK, U!Page, U!LoadState
<1>2. U!TicksAreKept
  BY DEF U!UsersInit, U!TicksAreKept, U!NoTick
<1>3. \A t \in Tab : PageKnows(t) /\ SendsTicks(t) /\ ReplacesAll(t)
  BY DEF U!UsersInit, U!Page, PageKnows, SendsTicks, ReplacesAll, Received
<1> QED
  BY <1>1, <1>2, <1>3 DEF UsersInv

Inserting == [at : {"insert"}, user : Member, to : SUBSET UserBranch, deleted : SUBSET UserBranch]
ReadRows == [at : {"read"}, rows : U!Table, late : SUBSET Member]

LEMMA UsersFields ==
  ASSUME UsersInv, NEW t \in Tab
  PROVE  /\ replacing[t] # U!Idle => replacing[t] \in Inserting
         /\ replacing[t].at = "insert" => replacing[t] \in Inserting /\ replacing[t] # U!Idle
         /\ load[t] # None /\ load[t].at = "read" => load[t] \in ReadRows
         /\ ticking[t] # None => ticking[t] \in U!ChangeState
         /\ table[t] # None => table[t] \in U!Table
         /\ U!BranchesOf(ticking[t].user) \subseteq UserBranch
BY DEF UsersInv, U!UsersTypeOK, U!TypeOK, U!Page, U!ReplacerState, U!LoadState, U!Idle, Inserting, ReadRows, U!BranchesOf

\* Nothing that counts for the other facts changes but one change of a page.
LEMMA SameLinks ==
  ASSUME UsersInv, UNCHANGED <<branches, userBranches, wanted>>, U!UsersTypeOK',
         \A t \in Tab : PageKnows(t)' /\ SendsTicks(t)' /\ ReplacesAll(t)'
  PROVE  UsersInv'
BY DEF UsersInv, U!TicksAreKept, U!BranchesOf

\* What a change of the links of one user does to what pages read, and to their changes.
LEMMA LinksChangedPages ==
  ASSUME UsersInv, NEW u \in Member, NEW done, U!LinksChanged(u, done), UNCHANGED <<branches, table>>,
         \A v \in Member : v # u => U!BranchesOf(v)' = U!BranchesOf(v)
  PROVE  /\ late' \in [Tab -> SUBSET Member] /\ load' \in [Tab -> U!LoadState]
         /\ \A t \in Tab : PageKnows(t)'
<1>0. late \in [Tab -> SUBSET Member] /\ load \in [Tab -> U!LoadState]
  BY DEF UsersInv, U!UsersTypeOK, U!Page
<1>1. late' = [t \in Tab |-> late[t] \cup {u}]
  BY DEF U!LinksChanged, U!Page
<1>2. ASSUME NEW t \in Tab, ~(load[t] # None /\ load[t].at = "read") PROVE load'[t] = load[t]
  BY <1>2 DEF U!LinksChanged, U!Page
<1>3. ASSUME NEW t \in Tab, load[t] # None, load[t].at = "read"
      PROVE  /\ load[t] \in ReadRows /\ load'[t] \in ReadRows
             /\ load'[t].rows = load[t].rows /\ load'[t].late = load[t].late \cup {u}
  <2>1. load'[t] = [load[t] EXCEPT !.late = load[t].late \cup {u}]
    BY <1>3 DEF U!LinksChanged, U!Page
  <2>2. load[t] \in ReadRows
    BY <1>3, UsersFields
  <2> QED
    BY <2>1, <2>2 DEF ReadRows
<1>4. load' = [t \in Tab |-> load'[t]]
  <2>1. load' = [t \in Tab |-> IF load[t] # None /\ load[t].at = "read" THEN [load[t] EXCEPT !.late = load[t].late \cup {u}]
                               ELSE load[t]]
    BY DEF U!LinksChanged, U!Page
  <2> QED
    BY <2>1
<1>5. \A t \in Tab : load'[t] \in U!LoadState
  <2> TAKE t \in Tab
  <2>1. CASE load[t] # None /\ load[t].at = "read"
    BY <2>1, <1>3 DEF ReadRows, U!LoadState
  <2>2. CASE ~(load[t] # None /\ load[t].at = "read")
    BY <2>2, <1>0, <1>2
  <2> QED
    BY <2>1, <2>2
<1>6. ASSUME NEW t \in Tab PROVE PageKnows(t)'
  <2>0. PageKnows(t)
    BY DEF UsersInv
  <2>1. ASSUME table[t] # None, NEW v \in table[t].users, v \notin late'[t] PROVE Agrees(table[t].of[v], v)'
    <3>1. v \in Member
      BY <2>1, UsersFields DEF U!Table
    <3>2. v # u /\ v \notin late[t]
      BY <2>1, <1>1
    <3>3. Agrees(table[t].of[v], v) /\ U!BranchesOf(v)' = U!BranchesOf(v)
      BY <2>0, <2>1, <3>1, <3>2 DEF PageKnows
    <3> QED
      BY <3>3 DEF Agrees
  <2>2. ASSUME load'[t] # None, load'[t].at = "read", NEW v \in load'[t].rows.users, v \notin load'[t].late
        PROVE  Agrees(load[t].rows.of[v], v)' /\ load'[t].rows = load[t].rows
    <3>1. load[t] # None /\ load[t].at = "read"
      BY <2>2, <1>2
    <3>2. v \in Member /\ v # u /\ v \in load[t].rows.users /\ v \notin load[t].late /\ load'[t].rows = load[t].rows
      BY <2>2, <3>1, <1>3 DEF ReadRows, U!Table
    <3>3. Agrees(load[t].rows.of[v], v) /\ U!BranchesOf(v)' = U!BranchesOf(v)
      BY <2>0, <3>1, <3>2 DEF PageKnows
    <3> QED
      BY <3>2, <3>3 DEF Agrees
  <2> QED
    BY <2>1, <2>2 DEF PageKnows
<1> QED
  BY <1>0, <1>1, <1>4, <1>5, <1>6

\* The change of a page that the links changed for is now late, or overlapped.
LEMMA LinksChangedChanges ==
  ASSUME UsersInv, NEW u \in Member, NEW done, U!LinksChanged(u, done), NEW t \in Tab, t # done
  PROVE  /\ ticking'[t] \in U!ChangeState \cup {None}
         /\ ticking'[t] = None <=> ticking[t] = None
         /\ ticking[t] # None =>
              /\ ticking'[t].user = ticking[t].user /\ ticking'[t].ticks = ticking[t].ticks
              /\ ticking'[t].to = ticking[t].to /\ ticking'[t].adds = ticking[t].adds /\ ticking'[t].at = ticking[t].at
              /\ ticking[t].user # u \/ ticking[t].at = "committed" => ticking'[t] = ticking[t]
              /\ ticking[t].user = u /\ ticking[t].at = "sent" => ticking'[t].base = "late"
              /\ ticking[t].user = u /\ ticking[t].at = "received" => ticking'[t].base = "overlapped"
<1>0. ticking \in [Tab -> U!ChangeState \cup {None}] /\ None \notin U!ChangeState
  BY PagesAssumption DEF UsersInv, U!UsersTypeOK, U!Page
<1>1. ticking'[t] = IF ticking[t] = None \/ ticking[t].user # u THEN ticking[t]
                    ELSE IF ticking[t].at = "sent" THEN [ticking[t] EXCEPT !.base = "late"]
                    ELSE IF ticking[t].at = "received" THEN [ticking[t] EXCEPT !.base = "overlapped"]
                    ELSE ticking[t]
  BY DEF U!LinksChanged, U!Page
<1>2. CASE ticking[t] = None \/ ticking[t].user # u \/ ticking[t].at = "committed"
  BY <1>0, <1>1, <1>2, UsersFields DEF U!ChangeState
<1>3. ASSUME ticking[t] # None, ticking[t].user = u, NEW base \in {"late", "overlapped"},
             ticking'[t] = [ticking[t] EXCEPT !.base = base]
      PROVE  /\ ticking'[t] \in U!ChangeState /\ ticking'[t].base = base
             /\ ticking'[t].user = ticking[t].user /\ ticking'[t].ticks = ticking[t].ticks
             /\ ticking'[t].to = ticking[t].to /\ ticking'[t].adds = ticking[t].adds /\ ticking'[t].at = ticking[t].at
  BY <1>3, UsersFields DEF U!ChangeState
<1>4. CASE ticking[t] # None /\ ticking[t].user = u /\ ticking[t].at = "sent"
  <2>1. ticking'[t] = [ticking[t] EXCEPT !.base = "late"]
    BY <1>1, <1>4
  <2> QED
    BY <1>0, <1>3, <1>4, <2>1
<1>5. CASE ticking[t] # None /\ ticking[t].user = u /\ ticking[t].at = "received"
  <2>1. ticking'[t] = [ticking[t] EXCEPT !.base = "overlapped"]
    BY <1>1, <1>5
  <2> QED
    BY <1>0, <1>3, <1>5, <2>1
<1> QED
  BY <1>2, <1>4, <1>5, UsersFields DEF U!ChangeState

\* What another page is changing agrees with its replacement still.
LEMMA OtherPages ==
  ASSUME UsersInv, NEW u \in Member, NEW done, U!LinksChanged(u, done), NEW t \in Tab, t # done, UNCHANGED branches,
         \A v \in Member : v # u => U!BranchesOf(v)' = U!BranchesOf(v),
         \/ replacing'[t] = replacing[t]
         \/ /\ Received(t) /\ ticking[t].user = u
            /\ replacing'[t].at = "insert" /\ replacing'[t].user = u /\ replacing'[t].to = replacing[t].to
  PROVE  SendsTicks(t)' /\ ReplacesAll(t)'
<1>0. SendsTicks(t) /\ ReplacesAll(t)
  BY DEF UsersInv
<1>1. CASE ticking[t] = None
  <2>1. ticking'[t] = None
    BY <1>1, LinksChangedChanges
  <2> QED
    BY <1>0, <1>1, <2>1 DEF SendsTicks, ReplacesAll, Received, U!Idle
<1>2. CASE ticking[t] # None
  <2> PICK c : c = ticking[t]
    OBVIOUS
  <2>0. ticking'[t] # None /\ ticking'[t] \in U!ChangeState /\ ticking[t] \in U!ChangeState
    BY <1>2, LinksChangedChanges, UsersFields
  <2>1. /\ ticking'[t].user = ticking[t].user /\ ticking'[t].ticks = ticking[t].ticks
        /\ ticking'[t].to = ticking[t].to /\ ticking'[t].adds = ticking[t].adds /\ ticking'[t].at = ticking[t].at
    BY <1>2, LinksChangedChanges
  <2>2. CASE ticking[t].user # u \/ ticking[t].at = "committed"
    <3>1. ticking'[t] = ticking[t]
      BY <1>2, <2>2, LinksChangedChanges
    <3>2. CASE ticking[t].at = "committed"
      <4>1. ~Received(t) /\ ~Received(t)'
        BY <3>1, <3>2 DEF Received
      <4>2. replacing'[t] = replacing[t]
        BY <4>1
      <4>3. SendsTicks(t)'
        BY <1>0, <1>2, <3>1, <3>2 DEF SendsTicks
      <4> QED
        BY <1>0, <4>1, <4>2, <4>3 DEF ReplacesAll, U!Idle
    <3>3. CASE ticking[t].user # u
      <4>1. U!BranchesOf(c.user)' = U!BranchesOf(c.user) /\ c.user \in Member
        BY <2>0, <3>3 DEF U!ChangeState
      <4>2. replacing'[t] = replacing[t] /\ (Received(t)' <=> Received(t))
        BY <3>1, <3>3 DEF Received
      <4>3. U!BranchesOf(ticking[t].user)' = U!BranchesOf(ticking[t].user)
        BY <3>1, <4>1 DEF U!BranchesOf
      <4>4. SendsTicks(t)'
        BY <1>0, <1>2, <3>1, <4>3 DEF SendsTicks
      <4> QED
        BY <1>0, <3>1, <4>2, <4>3, <4>4 DEF ReplacesAll, U!Idle
    <3> QED
      BY <2>2, <3>2, <3>3
  <2>3. CASE ticking[t].user = u /\ ticking[t].at # "committed"
    <3>1. ticking'[t].base # "current"
      BY <1>2, <2>0, <2>3, LinksChangedChanges DEF U!ChangeState
    <3>2. SendsTicks(t)'
      BY <1>0, <1>2, <2>1, <3>1 DEF SendsTicks
    <3>3. CASE ticking[t].at = "received"
      <4>1. ticking'[t].base = "overlapped"
        BY <1>2, <2>3, <3>3, LinksChangedChanges
      <4>2. Received(t) /\ Received(t)'
        BY <1>2, <2>0, <2>1, <3>3 DEF Received
      <4>3. /\ replacing[t].at = "insert" /\ replacing[t].user = ticking[t].user /\ replacing[t].to = ticking[t].to
            /\ ticking[t].adds => ticking[t].to # {}
        BY <1>0, <4>2 DEF ReplacesAll
      <4>4. replacing'[t].at = "insert" /\ replacing'[t].user = ticking[t].user /\ replacing'[t].to = ticking[t].to
        BY <2>3, <4>3
      <4> QED
        BY <2>1, <3>2, <4>1, <4>2, <4>3, <4>4 DEF ReplacesAll
    <3>4. CASE ticking[t].at # "received"
      <4>1. ~Received(t) /\ ~Received(t)'
        BY <2>1, <3>4 DEF Received
      <4>2. replacing'[t] = replacing[t]
        BY <4>1
      <4> QED
        BY <1>0, <3>2, <4>1, <4>2 DEF ReplacesAll, U!Idle
    <3> QED
      BY <3>3, <3>4
  <2> QED
    BY <2>2, <2>3
<1> QED
  BY <1>1, <1>2

LEMMA PageAsItWas ==
  ASSUME UsersInv, NEW t \in Tab, UNCHANGED <<branches, userBranches>>
  PROVE  /\ table'[t] = table[t] /\ load'[t] = load[t] /\ late'[t] = late[t] => PageKnows(t)'
         /\ ticking'[t] = ticking[t] => SendsTicks(t)'
         /\ ticking'[t] = ticking[t] /\ replacing'[t] = replacing[t] => ReplacesAll(t)'
<1>0. PageKnows(t) /\ SendsTicks(t) /\ ReplacesAll(t)
  BY DEF UsersInv
<1>1. table'[t] = table[t] /\ load'[t] = load[t] /\ late'[t] = late[t] => PageKnows(t)'
  BY <1>0 DEF PageKnows, Agrees, U!BranchesOf
<1>2. ticking'[t] = ticking[t] => SendsTicks(t)'
  BY <1>0 DEF SendsTicks, U!BranchesOf
<1>3. ticking'[t] = ticking[t] /\ replacing'[t] = replacing[t] => ReplacesAll(t)'
  BY <1>0 DEF ReplacesAll, Received, U!BranchesOf, U!Idle
<1> QED
  BY <1>1, <1>2, <1>3

\* A step of one page that leaves the links alone.
LEMMA OnePage ==
  ASSUME UsersInv, NEW t \in Tab, UNCHANGED <<branches, onboarded, userBranches, wanted>>,
         members' \subseteq Member, changes' \in 0 .. MaxChanges,
         table' \in [Tab -> U!Table \cup {None}], load' \in [Tab -> U!LoadState], late' \in [Tab -> SUBSET Member],
         ticking' \in [Tab -> U!ChangeState \cup {None}], replacing' \in [Tab -> U!ReplacerState],
         \A s \in Tab : s # t => /\ table'[s] = table[s] /\ load'[s] = load[s] /\ late'[s] = late[s]
                                 /\ ticking'[s] = ticking[s] /\ replacing'[s] = replacing[s],
         PageKnows(t)', SendsTicks(t)', ReplacesAll(t)'
  PROVE  UsersInv'
<1>1. U!UsersTypeOK'
  BY DEF UsersInv, U!UsersTypeOK, U!TypeOK, U!Page
<1>2. ASSUME NEW s \in Tab PROVE PageKnows(s)' /\ SendsTicks(s)' /\ ReplacesAll(s)'
  <2>1. CASE s = t
    BY <2>1
  <2>2. CASE s # t
    BY <2>2, PageAsItWas
  <2> QED
    BY <2>1, <2>2
<1> QED
  BY <1>1, <1>2, SameLinks

LEMMA UsersTypes ==
  ASSUME UsersInv
  PROVE  /\ branches \in [UserBranch -> {"absent", "active", "deleted"}] /\ userBranches \subseteq Member \X UserBranch
         /\ members \subseteq Member /\ changes \in 0 .. MaxChanges
         /\ table \in [Tab -> U!Table \cup {None}] /\ load \in [Tab -> U!LoadState] /\ late \in [Tab -> SUBSET Member]
         /\ ticking \in [Tab -> U!ChangeState \cup {None}] /\ replacing \in [Tab -> U!ReplacerState]
         /\ wanted \in [Member -> [UserBranch -> U!Tick]]
         /\ None \notin U!ChangeState /\ MaxChanges \in Nat
BY PagesAssumption DEF UsersInv, U!UsersTypeOK, U!TypeOK, U!Page

\* A fetch of the table, of one page.
LEMMA UsersFetch ==
  ASSUME UsersInv, NEW t \in Tab, U!ReadUsers(t) \/ U!ReadBranches(t) \/ U!Show(t) \/ U!LoadFails(t)
  PROVE  UsersInv'
<1>0. UsersInv /\ PageKnows(t)
  BY DEF UsersInv
<1>1. /\ UNCHANGED <<branches, onboarded, userBranches, replacing, wanted, members, changes, ticking>>
      /\ load[t] # None \/ U!ReadUsers(t)
  BY DEF U!ReadUsers, U!ReadBranches, U!Show, U!LoadFails, U!vars
<1>2. SUFFICES /\ table' \in [Tab -> U!Table \cup {None}] /\ load' \in [Tab -> U!LoadState] /\ late' \in [Tab -> SUBSET Member]
               /\ \A s \in Tab : s # t => table'[s] = table[s] /\ load'[s] = load[s] /\ late'[s] = late[s]
               /\ PageKnows(t)'
  BY <1>1, UsersTypes, PageAsItWas, OnePage
<1>3. CASE U!ReadUsers(t)
  <2> PICK l : l = [at |-> "users", users |-> members]
    OBVIOUS
  <2>1. load' = [load EXCEPT ![t] = l] /\ UNCHANGED <<table, late>>
    BY <1>3, Zenon DEF U!ReadUsers
  <2>2. l \in U!LoadState /\ l.at = "users"
    BY UsersTypes DEF U!LoadState
  <2> QED
    BY <1>0, <1>1, <2>1, <2>2, UsersTypes DEF PageKnows, Agrees, U!BranchesOf
<1>4. CASE U!ReadBranches(t)
  <2> PICK rows : rows = [users |-> load[t].users,
                          of |-> [u \in Member |-> IF u \in load[t].users THEN U!BranchesShown(u) ELSE {}]]
    OBVIOUS
  <2> PICK l : l = [at |-> "read", rows |-> rows, late |-> {}]
    OBVIOUS
  <2>0. load[t] \in U!LoadState /\ load[t] # None /\ load[t].at = "users"
    BY <1>4, UsersTypes DEF U!ReadBranches
  <2>1. load[t].users \subseteq Member
    BY <2>0 DEF U!LoadState
  <2>2. load' = [load EXCEPT ![t] = l] /\ UNCHANGED <<table, late>>
    BY <1>4, Zenon DEF U!ReadBranches
  <2>3. rows \in U!Table
    <3>1. \A u \in Member : U!BranchesShown(u) \subseteq UserBranch
      BY DEF U!BranchesShown, U!BranchesOf
    <3> QED
      BY <2>1, <3>1 DEF U!Table
  <2>4. l \in U!LoadState /\ l.rows = rows /\ l.late = {}
    BY <2>3 DEF U!LoadState
  <2>5. ASSUME NEW u \in rows.users PROVE Agrees(rows.of[u], u)
    BY <2>1, <2>5 DEF Agrees, U!BranchesShown
  <2>6. ASSUME NEW u \in rows.users PROVE Agrees(rows.of[u], u)'
    BY <1>1, <2>5, <2>6 DEF Agrees, U!BranchesOf
  <2>7. load'[t] = l /\ load' \in [Tab -> U!LoadState]
    BY <2>2, <2>4, UsersTypes
  <2>8. table'[t] # None => \A u \in table'[t].users : u \notin late'[t] => Agrees(table[t].of[u], u)'
    BY <1>0, <1>1, <2>2 DEF PageKnows, Agrees, U!BranchesOf
  <2>9. PageKnows(t)'
    BY <2>2, <2>4, <2>6, <2>7, <2>8 DEF PageKnows, Agrees, U!BranchesOf
  <2> QED
    BY <2>2, <2>7, <2>9, UsersTypes
<1>5. CASE U!Show(t)
  <2>1. load[t] \in ReadRows
    BY <1>5, UsersFields DEF U!Show
  <2>2. load[t] # None /\ load[t].at = "read" /\ table' = [table EXCEPT ![t] = load[t].rows]
        /\ late' = [late EXCEPT ![t] = load[t].late] /\ load' = [load EXCEPT ![t] = None]
    BY <1>5 DEF U!Show
  <2>3. /\ table' \in [Tab -> U!Table \cup {None}] /\ load' \in [Tab -> U!LoadState] /\ late' \in [Tab -> SUBSET Member]
        /\ \A s \in Tab : s # t => table'[s] = table[s] /\ load'[s] = load[s] /\ late'[s] = late[s]
    BY <2>1, <2>2, UsersTypes DEF ReadRows, U!LoadState
  <2>4. table'[t] = load[t].rows /\ late'[t] = load[t].late /\ load'[t] = None
    BY <2>2, UsersTypes
  <2>5. \A u \in load[t].rows.users : u \notin load[t].late => Agrees(load[t].rows.of[u], u)
    BY <1>0, <2>2 DEF PageKnows
  <2>6. PageKnows(t)'
    BY <1>1, <2>4, <2>5 DEF PageKnows, Agrees, U!BranchesOf
  <2> QED
    BY <2>3, <2>6
<1>6. CASE U!LoadFails(t)
  <2>1. load' = [load EXCEPT ![t] = None] /\ table' = [table EXCEPT ![t] = None] /\ late' = late
    BY <1>6 DEF U!LoadFails
  <2> QED
    BY <2>1, UsersTypes DEF PageKnows, U!LoadState
<1> QED
  BY <1>3, <1>4, <1>5, <1>6

\* A step of one page that changes what it sends, and the replacement of it.
LEMMA OneChange ==
  ASSUME UsersInv, NEW t \in Tab, UNCHANGED <<branches, onboarded, userBranches, wanted, table, late>>,
         members' \subseteq Member, changes' \in 0 .. MaxChanges,
         load' = load \/ load' = [load EXCEPT ![t] = None],
         NEW c \in U!ChangeState \cup {None}, ticking' = [ticking EXCEPT ![t] = c],
         NEW y \in U!ReplacerState,
         (replacing' = replacing /\ replacing[t] = y) \/ replacing' = [replacing EXCEPT ![t] = y],
         SendsTicks(t)', ReplacesAll(t)'
  PROVE  UsersInv'
<1>1. /\ table' \in [Tab -> U!Table \cup {None}] /\ load' \in [Tab -> U!LoadState] /\ late' \in [Tab -> SUBSET Member]
      /\ ticking' \in [Tab -> U!ChangeState \cup {None}] /\ replacing' \in [Tab -> U!ReplacerState]
  BY UsersTypes DEF U!LoadState
<1>2. \A s \in Tab : s # t => /\ table'[s] = table[s] /\ load'[s] = load[s] /\ late'[s] = late[s]
                              /\ ticking'[s] = ticking[s] /\ replacing'[s] = replacing[s]
  BY UsersTypes
<1>3. PageKnows(t)'
  <2>1. PageKnows(t) /\ (load' = load \/ load'[t] = None)
    BY UsersTypes DEF UsersInv
  <2> QED
    BY <2>1 DEF PageKnows, Agrees, U!BranchesOf
<1> QED
  BY <1>1, <1>2, <1>3, OnePage

\* What SendsTicks says of a change that begins.
SentAs(u, ticks, to, adds, base) ==
  \A b \in UserBranch : /\ ticks[b] = "on" => b \in to
                        /\ ticks[b] = "off" => b \notin to
                        /\ adds /\ to # {} => ticks[b] # "none"
                        /\ base = "current" /\ ~adds /\ branches[b] = "active" /\ ticks[b] = "none" =>
                             (b \in to <=> b \in U!BranchesOf(u))

\* A change that is sent is not yet carried out.
LEMMA UsersSend ==
  ASSUME UsersInv, NEW t \in Tab, NEW u \in Member, NEW ticks \in [UserBranch -> U!Tick], NEW to \in SUBSET UserBranch,
         NEW adds \in BOOLEAN, NEW base \in {"current", "late"}, U!Send(t, u, ticks, to, adds, base),
         SentAs(u, ticks, to, adds, base)
  PROVE  UsersInv'
<1> PICK c : c = [user |-> u, ticks |-> ticks, to |-> to, adds |-> adds, at |-> "sent", base |-> base]
  OBVIOUS
<1>1. /\ ticking' = [ticking EXCEPT ![t] = c] /\ replacing[t] = U!Idle
      /\ UNCHANGED <<branches, onboarded, userBranches, replacing, wanted, table, late, load, members>>
      /\ changes < MaxChanges /\ changes' = changes + 1
  BY DEF U!Send, U!Counts, U!vars
<1>2. c \in U!ChangeState
  BY DEF U!ChangeState
<1>3. ticking'[t] = c /\ changes' \in 0 .. MaxChanges /\ c # None
  BY <1>1, <1>2, UsersTypes
<1>4. SendsTicks(t)'
  <2>1. /\ c.user = u /\ c.ticks = ticks /\ c.to = to /\ c.adds = adds /\ c.base = base
    OBVIOUS
  <2>2. U!BranchesOf(u)' = U!BranchesOf(u)
    BY <1>1 DEF U!BranchesOf
  <2>3. U!BranchesOf(ticking[t].user)' = U!BranchesOf(u)'
    BY <1>3, <2>1 DEF U!BranchesOf
  <2> QED
    BY <1>1, <1>3, <2>1, <2>2, <2>3 DEF SendsTicks, SentAs
<1>5. ReplacesAll(t)'
  BY <1>1, <1>3 DEF ReplacesAll, Received, U!Idle
<1>6. U!Idle \in U!ReplacerState
  BY DEF U!ReplacerState
<1> QED
  BY <1>1, <1>2, <1>3, <1>4, <1>5, <1>6, UsersTypes, OneChange

LEMMA UsersTick ==
  ASSUME UsersInv, NEW t \in Tab, NEW u \in Member, NEW b \in UserBranch, U!TickBox(t, u, b)
  PROVE  UsersInv'
<1> PICK current : current = table[t].of[u]
  OBVIOUS
<1> PICK x \in {"on", "off"} : x = IF b \in current THEN "off" ELSE "on"
  OBVIOUS
<1> PICK ticks : ticks = [U!NoTick EXCEPT ![b] = x]
  OBVIOUS
<1> PICK to : to = U!Ticked(current, b)
  OBVIOUS
<1> PICK base \in {"current", "late"} : base = IF u \in late[t] THEN "late" ELSE "current"
  OBVIOUS
<1> PICK adds \in BOOLEAN : adds = FALSE
  OBVIOUS
<1>1. table[t] # None /\ u \in table[t].users /\ U!Send(t, u, ticks, to, adds, base)
  BY DEF U!TickBox
<1>2. current \subseteq UserBranch
  BY <1>1, UsersFields DEF U!Table
<1>3. ticks \in [UserBranch -> U!Tick] /\ ticks[b] = x /\ \A v \in UserBranch : v # b => ticks[v] = "none"
  BY DEF U!NoTick, U!Tick
<1>4. to \subseteq UserBranch /\ (b \in to <=> x = "on") /\ \A v \in UserBranch : v # b => (v \in to <=> v \in current)
  BY <1>2 DEF U!Ticked
<1>5. base = "current" => Agrees(current, u)
  BY <1>1 DEF UsersInv, PageKnows
<1>6. ASSUME NEW v \in UserBranch
      PROVE  /\ ticks[v] = "on" => v \in to
             /\ ticks[v] = "off" => v \notin to
             /\ adds /\ to # {} => ticks[v] # "none"
             /\ base = "current" /\ ~adds /\ branches[v] = "active" /\ ticks[v] = "none" =>
                  (v \in to <=> v \in U!BranchesOf(u))
  <2>1. CASE v = b
    BY <1>3, <1>4, <2>1
  <2>2. CASE v # b
    BY <1>3, <1>4, <1>5, <2>2 DEF Agrees
  <2> QED
    BY <2>1, <2>2
<1>7. SentAs(u, ticks, to, adds, base)
  BY <1>6 DEF SentAs
<1> QED
  BY <1>1, <1>3, <1>4, <1>7, UsersSend

LEMMA UsersAdd ==
  ASSUME UsersInv, NEW t \in Tab, NEW u \in Member, NEW bs \in SUBSET UserBranch, U!Add(t, u, bs)
  PROVE  UsersInv'
<1> PICK ticks : ticks = [b \in UserBranch |-> IF bs = {} THEN "none" ELSE IF b \in bs THEN "on" ELSE "off"]
  OBVIOUS
<1> PICK adds \in BOOLEAN : adds = TRUE
  OBVIOUS
<1> PICK base \in {"current", "late"} : base = "current"
  OBVIOUS
<1>1. U!Send(t, u, ticks, bs, adds, base)
  BY DEF U!Add
<1>2. ticks \in [UserBranch -> U!Tick]
  BY DEF U!Tick
<1>3. ASSUME NEW v \in UserBranch
      PROVE  /\ ticks[v] = "on" => v \in bs
             /\ ticks[v] = "off" => v \notin bs
             /\ adds /\ bs # {} => ticks[v] # "none"
             /\ base = "current" /\ ~adds /\ branches[v] = "active" /\ ticks[v] = "none" =>
                  (v \in bs <=> v \in U!BranchesOf(u))
  OBVIOUS
<1>4. SentAs(u, ticks, bs, adds, base)
  BY <1>3 DEF SentAs
<1> QED
  BY <1>1, <1>2, <1>4, UsersSend

\* A change ends, or is answered, before its replacement or after it.
LEMMA UsersAnswer ==
  ASSUME UsersInv, NEW t \in Tab, U!Refuse(t) \/ U!RollBack(t) \/ U!Succeed(t) \/ U!Fail(t)
  PROVE  UsersInv'
<1>1. /\ ticking' = [ticking EXCEPT ![t] = None]
      /\ UNCHANGED <<branches, onboarded, userBranches, wanted, table, late, members, changes>>
      /\ load' = load \/ load' = [load EXCEPT ![t] = None]
      /\ ticking[t] # None
      /\ \/ ticking[t].at # "received" /\ replacing' = replacing
         \/ replacing' = [replacing EXCEPT ![t] = U!Idle]
  BY DEF U!Refuse, U!RollBack, U!Succeed, U!Fail, U!vars, U!RollBackReplace
<1>2. ticking'[t] = None /\ U!Idle \in U!ReplacerState
  BY <1>1, UsersTypes DEF U!ReplacerState
<1>3. (replacing' = replacing /\ replacing[t] = U!Idle) \/ replacing' = [replacing EXCEPT ![t] = U!Idle]
  BY <1>1 DEF UsersInv, ReplacesAll, Received
<1>4. replacing'[t] = U!Idle
  BY <1>3, UsersTypes
<1>5. SendsTicks(t)' /\ ReplacesAll(t)'
  BY <1>2, <1>4 DEF SendsTicks, ReplacesAll, Received, U!Idle
<1> QED
  BY <1>1, <1>2, <1>3, <1>5, UsersTypes, OneChange

LEMMA UsersReceive ==
  ASSUME UsersInv, NEW t \in Tab, U!Receive(t)
  PROVE  UsersInv'
<1> PICK c : c = [ticking[t] EXCEPT !.at = "received"]
  OBVIOUS
<1> PICK y : y = [at |-> "insert", user |-> ticking[t].user, to |-> ticking[t].to, deleted |-> U!BranchesOf(ticking[t].user)]
  OBVIOUS
<1>1. /\ ticking' = [ticking EXCEPT ![t] = c] /\ replacing' = [replacing EXCEPT ![t] = y]
      /\ UNCHANGED <<branches, onboarded, userBranches, wanted, table, late, load, members, changes>>
      /\ ticking[t] # None /\ ticking[t].at = "sent" /\ (ticking[t].adds => ticking[t].to # {})
  BY DEF U!Receive, U!StartReplace, U!AfterDelete
<1>2. ticking[t] \in U!ChangeState
  BY <1>1, UsersTypes
<1>3. /\ c \in U!ChangeState /\ c.user = ticking[t].user /\ c.ticks = ticking[t].ticks /\ c.to = ticking[t].to
      /\ c.adds = ticking[t].adds /\ c.at = "received" /\ c.base = ticking[t].base
  BY <1>2 DEF U!ChangeState
<1>4. y \in U!ReplacerState
  BY <1>2 DEF U!ChangeState, U!ReplacerState, U!BranchesOf
<1>5. ticking'[t] = c /\ replacing'[t] = y /\ c # None
  BY <1>1, <1>3, UsersTypes
<1>6. SendsTicks(t)'
  <2>1. SendsTicks(t)
    BY DEF UsersInv
  <2> QED
    BY <1>1, <1>3, <1>5, <2>1 DEF SendsTicks, U!BranchesOf
<1>7. ReplacesAll(t)'
  <2> PICK u : u = ticking[t].user
    OBVIOUS
  <2>1. U!BranchesOf(u)' = U!BranchesOf(u) /\ y.deleted = U!BranchesOf(u)
    BY <1>1 DEF U!BranchesOf
  <2>2. U!BranchesOf(ticking[t].user)' = U!BranchesOf(u)'
    BY <1>3, <1>5 DEF U!BranchesOf
  <2>3. y.at = "insert" /\ y.user = c.user /\ y.to = c.to
    BY <1>3
  <2> QED
    BY <1>1, <1>3, <1>5, <2>1, <2>2, <2>3 DEF ReplacesAll, Received
<1> QED
  BY <1>1, <1>3, <1>4, <1>6, <1>7, UsersTypes, OneChange

LEMMA UsersAddAlone ==
  ASSUME UsersInv, NEW t \in Tab, U!AddWithoutBranches(t)
  PROVE  UsersInv'
<1> PICK c : c = [ticking[t] EXCEPT !.at = "committed"]
  OBVIOUS
<1>1. /\ ticking' = [ticking EXCEPT ![t] = c] /\ members' = members \cup {ticking[t].user}
      /\ UNCHANGED <<branches, onboarded, userBranches, replacing, wanted, table, late, load, changes>>
      /\ ticking[t] # None /\ ticking[t].at = "sent"
  BY DEF U!AddWithoutBranches, U!vars
<1>2. ticking[t] \in U!ChangeState
  BY <1>1, UsersTypes
<1>3. /\ c \in U!ChangeState /\ c.user = ticking[t].user /\ c.ticks = ticking[t].ticks /\ c.to = ticking[t].to
      /\ c.adds = ticking[t].adds /\ c.at = "committed"
  BY <1>2 DEF U!ChangeState
<1>4. ticking'[t] = c /\ c # None /\ members' \subseteq Member
  BY <1>1, <1>2, <1>3, UsersTypes DEF U!ChangeState
<1>5. replacing[t] = U!Idle /\ U!Idle \in U!ReplacerState
  BY <1>1 DEF UsersInv, ReplacesAll, Received, U!ReplacerState
<1>6. SendsTicks(t)'
  <2>1. SendsTicks(t)
    BY DEF UsersInv
  <2> QED
    BY <1>1, <1>2, <1>3, <1>4, <2>1 DEF SendsTicks, U!ChangeState
<1>7. ReplacesAll(t)'
  BY <1>1, <1>3, <1>4, <1>5 DEF ReplacesAll, Received, U!Idle
<1> QED
  BY <1>1, <1>3, <1>4, <1>5, <1>6, <1>7, UsersTypes, OneChange

\* A step that changes the links of one user, for a page or for another client.
LEMMA LinksStep ==
  ASSUME UsersInv, NEW u \in Member, NEW done \in Tab \cup {None}, U!LinksChanged(u, done),
         UNCHANGED <<branches, onboarded, table>>,
         userBranches' \subseteq Member \X UserBranch, members' \subseteq Member, changes' \in 0 .. MaxChanges,
         replacing' \in [Tab -> U!ReplacerState], wanted' \in [Member -> [UserBranch -> U!Tick]],
         \A v \in Member : v # u => U!BranchesOf(v)' = U!BranchesOf(v) /\ wanted'[v] = wanted[v],
         \A b \in UserBranch : branches[b] = "active" /\ wanted'[u][b] # "none" =>
                                 (b \in U!BranchesOf(u)' <=> wanted'[u][b] = "on"),
         \A t \in Tab : t # done =>
           \/ replacing'[t] = replacing[t]
           \/ /\ Received(t) /\ ticking[t].user = u
              /\ replacing'[t].at = "insert" /\ replacing'[t].user = u /\ replacing'[t].to = replacing[t].to,
         done \in Tab => ticking'[done] \in U!ChangeState /\ SendsTicks(done)' /\ ReplacesAll(done)'
  PROVE  UsersInv'
<1>1. ASSUME NEW t \in Tab PROVE PageKnows(t)' /\ SendsTicks(t)' /\ ReplacesAll(t)' /\ ticking'[t] \in U!ChangeState \cup {None}
  <2>1. PageKnows(t)'
    BY LinksChangedPages
  <2>2. CASE t = done
    BY <2>1, <2>2
  <2>3. CASE t # done
    <3>1. \/ replacing'[t] = replacing[t]
          \/ /\ Received(t) /\ ticking[t].user = u
             /\ replacing'[t].at = "insert" /\ replacing'[t].user = u /\ replacing'[t].to = replacing[t].to
      BY <2>3
    <3>2. SendsTicks(t)' /\ ReplacesAll(t)'
      BY <2>3, <3>1, OtherPages
    <3> QED
      BY <2>1, <2>3, <3>2, LinksChangedChanges
  <2> QED
    BY <2>2, <2>3
<1>2. ticking' = [t \in Tab |-> ticking'[t]]
  BY DEF U!LinksChanged, U!Page
<1>3. ticking' \in [Tab -> U!ChangeState \cup {None}]
  BY <1>1, <1>2
<1>4. late' \in [Tab -> SUBSET Member] /\ load' \in [Tab -> U!LoadState]
  BY LinksChangedPages
<1>5. U!UsersTypeOK'
  BY <1>3, <1>4 DEF UsersInv, U!UsersTypeOK, U!TypeOK, U!Page
<1>6. U!TicksAreKept'
  <2>1. ASSUME NEW v \in Member, NEW b \in UserBranch, branches[b] = "active", wanted'[v][b] # "none"
        PROVE  <<v, b>> \in userBranches' <=> wanted'[v][b] = "on"
    <3>1. CASE v = u
      BY <2>1, <3>1 DEF U!BranchesOf
    <3>2. CASE v # u
      <4>1. b \in U!BranchesOf(v) <=> wanted[v][b] = "on"
        BY <2>1, <3>2 DEF UsersInv, U!TicksAreKept
      <4> QED
        BY <3>2, <4>1 DEF U!BranchesOf
    <3> QED
      BY <3>1, <3>2
  <2> QED
    BY <2>1 DEF U!TicksAreKept, U!BranchesOf
<1> QED
  BY <1>1, <1>5, <1>6 DEF UsersInv

LEMMA UsersElsewhere ==
  ASSUME UsersInv, NEW u \in Member, NEW b \in UserBranch, U!LinkUser(u, b) \/ U!Unlink(u, b)
  PROVE  UsersInv'
<1> PICK w : w = [wanted[u] EXCEPT ![b] = "none"]
  OBVIOUS
<1>1. /\ U!LinksChanged(u, None) /\ UNCHANGED <<branches, onboarded, replacing, members, table>>
      /\ changes < MaxChanges /\ changes' = changes + 1
      /\ wanted' = [wanted EXCEPT ![u] = w]
      /\ userBranches' = userBranches \cup {<<u, b>>} \/ userBranches' = userBranches \ {<<u, b>>}
  BY DEF U!LinkUser, U!Unlink, U!LinkElsewhere, U!Counts, U!AssignUser, U!UnlinkUser
<1>2. w \in [UserBranch -> U!Tick] /\ w[b] = "none" /\ \A a \in UserBranch : a # b => w[a] = wanted[u][a]
  BY UsersTypes DEF U!Tick
<1>3. wanted' \in [Member -> [UserBranch -> U!Tick]] /\ wanted'[u] = w /\ \A v \in Member : v # u => wanted'[v] = wanted[v]
  BY <1>1, <1>2, UsersTypes
<1>4. changes' \in 0 .. MaxChanges /\ userBranches' \subseteq Member \X UserBranch
  BY <1>1, UsersTypes
<1>5. \A v \in Member, a \in UserBranch : v # u \/ a # b => (<<v, a>> \in userBranches' <=> <<v, a>> \in userBranches)
  BY <1>1
<1>6. \A v \in Member : v # u => U!BranchesOf(v)' = U!BranchesOf(v)
  BY <1>5 DEF U!BranchesOf
<1>7. ASSUME NEW a \in UserBranch, branches[a] = "active", wanted'[u][a] # "none"
      PROVE  a \in U!BranchesOf(u)' <=> wanted'[u][a] = "on"
  <2>1. a # b /\ wanted'[u][a] = wanted[u][a]
    BY <1>2, <1>3, <1>7
  <2>2. a \in U!BranchesOf(u) <=> wanted[u][a] = "on"
    BY <1>7, <2>1 DEF UsersInv, U!TicksAreKept
  <2> QED
    BY <1>5, <2>1, <2>2 DEF U!BranchesOf
<1>8. None \in Tab \cup {None} /\ None \notin Tab
  BY PagesAssumption
<1>9. \A t \in Tab : replacing'[t] = replacing[t]
  BY <1>1
<1> QED
  BY <1>1, <1>3, <1>4, <1>6, <1>7, <1>8, <1>9, UsersTypes, LinksStep

\* The links of a user once a replacement was committed.
LEMMA Replaced ==
  ASSUME UsersInv, NEW u \in Member, NEW gone \in SUBSET UserBranch, NEW to \in SUBSET UserBranch,
         userBranches' = (userBranches \ U!LinksTo(u, gone)) \cup U!LinksTo(u, to)
  PROVE  /\ userBranches' \subseteq Member \X UserBranch
         /\ \A v \in Member : v # u => U!BranchesOf(v)' = U!BranchesOf(v)
         /\ \A b \in UserBranch : b \in U!BranchesOf(u)' <=> (b \in U!BranchesOf(u) /\ b \notin gone) \/ b \in to
<1>1. \A v \in Member, b \in UserBranch, bs \in SUBSET UserBranch : <<v, b>> \in U!LinksTo(u, bs) <=> v = u /\ b \in bs
  BY DEF U!LinksTo
<1>2. \A v \in Member, b \in UserBranch :
        <<v, b>> \in userBranches' <=> (<<v, b>> \in userBranches /\ ~(v = u /\ b \in gone)) \/ (v = u /\ b \in to)
  BY <1>1
<1>3. userBranches' \subseteq Member \X UserBranch
  BY UsersTypes DEF U!LinksTo
<1> QED
  BY <1>2, <1>3 DEF U!BranchesOf

LEMMA UsersCommit ==
  ASSUME UsersInv, NEW t \in Tab, U!Commit(t)
  PROVE  UsersInv'
<1> PICK c : c = ticking[t]
  OBVIOUS
<1> PICK u : u = c.user
  OBVIOUS
<1> PICK gone : gone = replacing[t].deleted
  OBVIOUS
<1> PICK w : w = CASE c.base = "current" -> [b \in UserBranch |-> IF c.ticks[b] = "none" THEN wanted[u][b] ELSE c.ticks[b]]
                   [] c.base = "late" -> c.ticks
                   [] c.base = "overlapped" -> U!NoTick
  OBVIOUS
<1>0. ticking[t] # None /\ ticking[t].at = "received" /\ c \in U!ChangeState /\ Received(t)
  BY UsersTypes DEF U!Commit, Received
<1>1. /\ replacing[t].at = "insert" /\ replacing[t].user = u /\ replacing[t].to = c.to
      /\ c.adds => c.to # {}
      /\ c.base # "overlapped" => gone = U!BranchesOf(u)
  <2>1. ReplacesAll(t)
    BY DEF UsersInv
  <2> QED
    BY <1>0, <2>1 DEF ReplacesAll
<1>2. u \in Member /\ c.to \subseteq UserBranch /\ c.ticks \in [UserBranch -> U!Tick] /\ c.adds \in BOOLEAN
      /\ c.base \in {"current", "late", "overlapped"} /\ gone \subseteq UserBranch
  BY <1>0, <1>1, UsersFields DEF U!ChangeState, Inserting
<1>3. /\ UNCHANGED <<branches, onboarded, table, changes>> /\ U!LinksChanged(u, t)
      /\ members' = members \/ members' = members \cup {u}
      /\ userBranches' = (userBranches \ U!LinksTo(u, gone)) \cup U!LinksTo(u, c.to)
      /\ U!CommitReplace(t)
  BY <1>1 DEF U!Commit, U!CommitReplace
<1>4. wanted' = [wanted EXCEPT ![u] = w]
  BY DEF U!Commit
<1>5. /\ replacing'[t] = U!Idle /\ replacing' \in [Tab -> U!ReplacerState]
      /\ \A s \in Tab : s # t =>
           \/ replacing'[s] = replacing[s]
           \/ /\ Received(s) /\ ticking[s].user = u
              /\ replacing'[s].at = "insert" /\ replacing'[s].user = u /\ replacing'[s].to = replacing[s].to
  <2>1. replacing' = [o \in Tab |-> IF o = t THEN U!Idle
                                    ELSE IF o \in U!Waiters(t) THEN [replacing[o] EXCEPT !.deleted = replacing[o].deleted \ gone]
                                    ELSE replacing[o]]
    BY <1>3 DEF U!CommitReplace
  <2>2. ASSUME NEW s \in Tab, s # t, s \in U!Waiters(t)
        PROVE  /\ replacing'[s] \in Inserting /\ replacing'[s].at = "insert" /\ replacing'[s].user = u
               /\ replacing'[s].to = replacing[s].to /\ Received(s) /\ ticking[s].user = u
    <3>1. replacing[s].at = "insert" /\ replacing[s].user = u
      BY <1>1, <2>2 DEF U!Waiters
    <3>2. replacing[s] \in Inserting /\ replacing[s] # U!Idle
      BY <3>1, UsersFields
    <3>3. Received(s) /\ ticking[s].user = u
      BY <3>1, <3>2 DEF UsersInv, ReplacesAll
    <3>4. replacing'[s] = [replacing[s] EXCEPT !.deleted = replacing[s].deleted \ gone]
      BY <2>1, <2>2
    <3> QED
      BY <3>1, <3>2, <3>3, <3>4 DEF Inserting
  <2>3. \A s \in Tab : replacing'[s] \in U!ReplacerState
    <3> TAKE s \in Tab
    <3>1. CASE s = t
      BY <2>1, <3>1 DEF U!ReplacerState
    <3>2. CASE s # t /\ s \in U!Waiters(t)
      BY <2>2, <3>2 DEF U!ReplacerState, Inserting
    <3>3. CASE s # t /\ s \notin U!Waiters(t)
      BY <2>1, <3>3, UsersTypes
    <3> QED
      BY <3>1, <3>2, <3>3
  <2>4. \A s \in Tab : s # t /\ s \notin U!Waiters(t) => replacing'[s] = replacing[s]
    BY <2>1
  <2>5. replacing'[t] = U!Idle /\ replacing' = [s \in Tab |-> replacing'[s]]
    BY <2>1
  <2> QED
    BY <2>2, <2>3, <2>4, <2>5
<1>6. /\ userBranches' \subseteq Member \X UserBranch
      /\ \A v \in Member : v # u => U!BranchesOf(v)' = U!BranchesOf(v)
      /\ \A b \in UserBranch : b \in U!BranchesOf(u)' <=> (b \in U!BranchesOf(u) /\ b \notin gone) \/ b \in c.to
  BY <1>2, <1>3, Replaced
<1>7. w \in [UserBranch -> U!Tick]
  <2>1. CASE c.base = "current"
    BY <1>2, <2>1, UsersTypes
  <2>2. CASE c.base = "late"
    BY <1>2, <2>2
  <2>3. CASE c.base = "overlapped"
    BY <2>3 DEF U!NoTick, U!Tick
  <2> QED
    BY <1>2, <2>1, <2>2, <2>3
<1>8. wanted' \in [Member -> [UserBranch -> U!Tick]] /\ wanted'[u] = w /\ \A v \in Member : v # u => wanted'[v] = wanted[v]
  BY <1>2, <1>4, <1>7, UsersTypes
<1>9. ASSUME NEW b \in UserBranch, branches[b] = "active", wanted'[u][b] # "none"
      PROVE  b \in U!BranchesOf(u)' <=> wanted'[u][b] = "on"
  <2>0. SendsTicks(t)
    BY DEF UsersInv
  <2>1. /\ c.ticks[b] = "on" => b \in c.to
        /\ c.ticks[b] = "off" => b \notin c.to
        /\ c.adds => c.ticks[b] # "none"
        /\ c.ticks[b] \in {"on", "off", "none"}
    BY <1>0, <1>1, <1>2, <2>0 DEF SendsTicks, U!Tick
  <2>2. CASE c.base = "overlapped"
    <3>1. w = U!NoTick
      BY <2>2
    <3> QED
      BY <1>8, <1>9, <3>1 DEF U!NoTick
  <2>3. CASE c.base # "overlapped"
    <3>1. b \in U!BranchesOf(u)' <=> b \in c.to
      BY <1>1, <1>6, <2>3
    <3>2. CASE c.ticks[b] # "none"
      <4>1. w[b] = c.ticks[b]
        BY <1>2, <2>3, <3>2
      <4> QED
        BY <1>8, <2>1, <3>1, <3>2, <4>1
    <3>3. CASE c.ticks[b] = "none" /\ c.base = "late"
      <4>1. w = c.ticks
        BY <3>3
      <4> QED
        BY <1>8, <1>9, <3>3, <4>1
    <3>4. CASE c.ticks[b] = "none" /\ c.base = "current"
      <4>1. w[b] = wanted[u][b]
        BY <3>4
      <4>2. b \in c.to <=> b \in U!BranchesOf(ticking[t].user)
        BY <1>0, <1>9, <2>0, <2>1, <3>4 DEF SendsTicks
      <4>3. b \in U!BranchesOf(u) <=> wanted[u][b] = "on"
        BY <1>2, <1>8, <1>9, <4>1 DEF UsersInv, U!TicksAreKept
      <4> QED
        BY <1>8, <3>1, <4>1, <4>2, <4>3
    <3> QED
      BY <1>2, <2>3, <3>2, <3>3, <3>4
  <2> QED
    BY <2>2, <2>3
<1>10. ticking'[t] \in U!ChangeState /\ SendsTicks(t)' /\ ReplacesAll(t)'
  <2> PICK d : d = [c EXCEPT !.at = "committed"]
    OBVIOUS
  <2>1. ticking'[t] = d
    BY <1>3 DEF U!LinksChanged, U!Page
  <2>2. /\ d \in U!ChangeState /\ d.ticks = c.ticks /\ d.to = c.to /\ d.adds = c.adds /\ d.at = "committed"
    BY <1>0 DEF U!ChangeState
  <2>3. SendsTicks(t)
    BY DEF UsersInv
  <2>4. SendsTicks(t)'
    BY <1>0, <2>1, <2>2, <2>3 DEF SendsTicks
  <2>5. ReplacesAll(t)'
    BY <1>5, <2>1, <2>2 DEF ReplacesAll, Received, U!Idle
  <2> QED
    BY <2>1, <2>2, <2>4, <2>5
<1>11. members' \subseteq Member /\ changes' \in 0 .. MaxChanges
  BY <1>2, <1>3, UsersTypes
<1> QED
  BY <1>2, <1>3, <1>5, <1>6, <1>8, <1>9, <1>10, <1>11, LinksStep

LEMMA UsersStep ==
  ASSUME UsersInv, [U!UsersNext]_usersVars
  PROVE  UsersInv'
<1>1. ASSUME NEW t \in Tab, U!ReadUsers(t) \/ U!ReadBranches(t) \/ U!Show(t) \/ U!LoadFails(t) PROVE UsersInv'
  BY <1>1, UsersFetch
<1>2. ASSUME NEW t \in Tab, NEW u \in Member, NEW b \in UserBranch, U!TickBox(t, u, b) PROVE UsersInv'
  BY <1>2, UsersTick
<1>3. ASSUME NEW t \in Tab, NEW u \in Member, NEW bs \in SUBSET UserBranch, U!Add(t, u, bs) PROVE UsersInv'
  BY <1>3, UsersAdd
<1>4. ASSUME NEW t \in Tab, U!Refuse(t) \/ U!RollBack(t) \/ U!Succeed(t) \/ U!Fail(t) PROVE UsersInv'
  BY <1>4, UsersAnswer
<1>5. ASSUME NEW t \in Tab, U!Receive(t) PROVE UsersInv'
  BY <1>5, UsersReceive
<1>6. ASSUME NEW t \in Tab, U!AddWithoutBranches(t) PROVE UsersInv'
  BY <1>6, UsersAddAlone
<1>7. ASSUME NEW t \in Tab, U!Commit(t) PROVE UsersInv'
  BY <1>7, UsersCommit
<1>8. ASSUME NEW u \in Member, NEW b \in UserBranch, U!LinkUser(u, b) \/ U!Unlink(u, b) PROVE UsersInv'
  BY <1>8, UsersElsewhere
<1>9. ASSUME NEW b \in UserBranch, U!DeleteBranch(b) PROVE UsersInv'
  <2>1. /\ branches' = [branches EXCEPT ![b] = "deleted"] /\ changes < MaxChanges /\ changes' = changes + 1
        /\ UNCHANGED <<onboarded, userBranches, replacing, members, table, load, ticking, late, wanted>>
    BY <1>9 DEF U!DeleteBranch, U!SoftDelete, U!Counts
  <2>2. branches' \in [UserBranch -> {"absent", "active", "deleted"}] /\ changes' \in 0 .. MaxChanges
    BY <2>1, UsersTypes
  <2>3. \A a \in UserBranch : branches'[a] = "active" => branches[a] = "active"
    BY <2>1, UsersTypes
  <2>4. U!UsersTypeOK'
    BY <2>1, <2>2 DEF UsersInv, U!UsersTypeOK, U!TypeOK
  <2>5. ASSUME NEW t \in Tab PROVE PageKnows(t)' /\ SendsTicks(t)' /\ ReplacesAll(t)'
    <3>0. PageKnows(t) /\ SendsTicks(t) /\ ReplacesAll(t)
      BY DEF UsersInv
    <3>1. PageKnows(t)'
      BY <2>1, <2>3, <3>0 DEF PageKnows, Agrees, U!BranchesOf
    <3>2. SendsTicks(t)'
      BY <2>1, <2>3, <3>0 DEF SendsTicks, U!BranchesOf
    <3>3. ReplacesAll(t)'
      BY <2>1, <3>0 DEF ReplacesAll, Received, U!BranchesOf, U!Idle
    <3> QED
      BY <3>1, <3>2, <3>3
  <2>6. U!TicksAreKept'
    BY <2>1, <2>3 DEF UsersInv, U!TicksAreKept, U!BranchesOf
  <2> QED
    BY <2>4, <2>5, <2>6 DEF UsersInv
<1>10. ASSUME NEW u \in Member, U!LoseRole(u) PROVE UsersInv'
  <2>1. /\ UNCHANGED <<branches, onboarded, userBranches, replacing, table, load, ticking, late, wanted>>
        /\ members' \subseteq members /\ changes < MaxChanges /\ changes' = changes + 1
    BY <1>10 DEF U!LoseRole, U!Counts, U!vars
  <2>2. U!UsersTypeOK'
    BY <2>1, UsersTypes DEF UsersInv, U!UsersTypeOK, U!TypeOK
  <2> QED
    BY <2>1, <2>2, PageAsItWas, SameLinks
<1>11. CASE UNCHANGED usersVars
  <2>1. UNCHANGED <<branches, onboarded, userBranches, replacing, members, table, load, ticking, late, changes, wanted>>
    BY <1>11 DEF usersVars
  <2>2. U!UsersTypeOK'
    BY <2>1 DEF UsersInv, U!UsersTypeOK, U!TypeOK
  <2> QED
    BY <2>1, <2>2, PageAsItWas, SameLinks
<1> QED
  BY <1>1, <1>2, <1>3, <1>4, <1>5, <1>6, <1>7, <1>8, <1>9, <1>10, <1>11 DEF U!UsersNext, U!Page

-----------------------------------------------------------------------------
(* Reports: one story of the ledger *)

\* SUM over the rows of a table, as a sum of Money.
SumOver(a, S) == P!Sum([x \in S |-> a[x]])
Lines(a, S) == {[id |-> x, amount |-> a[x]] : x \in S}

LEMMA SumOverLines ==
  ASSUME NEW a, NEW S
  PROVE  SumOver(a, S) = SumAmount(Lines(a, S))
<1>1. {[id |-> x, amount |-> [y \in S |-> a[y]][x]] : x \in DOMAIN [y \in S |-> a[y]]} = Lines(a, S)
  BY DEF Lines
<1>2. \A T : P!SumAmount(T) = SumAmount(T)
  BY DEF P!SumAmount, SumAmount, P!Cents, Cents, P!Cardinality, Cardinality
<1> QED
  BY <1>1, <1>2 DEF SumOver, P!Sum

LEMMA LinesFinite ==
  ASSUME NEW a, NEW S, IsFiniteSet(S), \A x \in S : a[x] \in Nat
  PROVE  IsFiniteSet(Lines(a, S)) /\ \A l \in Lines(a, S) : l.amount \in Nat
<1> DEFINE f == [x \in S |-> [id |-> x, amount |-> a[x]]]
<1>1. f \in Surjection(S, Lines(a, S))
  BY DEF Surjection, Lines
<1>2. IsFiniteSet(Lines(a, S))
  BY <1>1, FS_Surjection
<1> QED
  BY <1>2 DEF Lines

LEMMA SumOverType ==
  ASSUME NEW a, NEW S, IsFiniteSet(S), \A x \in S : a[x] \in Nat
  PROVE  SumOver(a, S) \in Nat
BY LinesFinite, SumOverLines, SumAmountType

LEMMA SumOverParts ==
  ASSUME NEW a, NEW S, NEW T, IsFiniteSet(S), IsFiniteSet(T), S \cap T = {}, \A x \in S \cup T : a[x] \in Nat
  PROVE  SumOver(a, S \cup T) = SumOver(a, S) + SumOver(a, T)
<1>1. Lines(a, S \cup T) = Lines(a, S) \cup Lines(a, T) /\ Lines(a, S) \cap Lines(a, T) = {}
  BY DEF Lines
<1>2. IsFiniteSet(Lines(a, S)) /\ \A l \in Lines(a, S) : l.amount \in Nat
  BY LinesFinite
<1>3. IsFiniteSet(Lines(a, T)) /\ \A l \in Lines(a, T) : l.amount \in Nat
  BY LinesFinite
<1>4. SumAmount(Lines(a, S) \cup Lines(a, T)) = SumAmount(Lines(a, S)) + SumAmount(Lines(a, T))
  BY <1>1, <1>2, <1>3, SumAmountUnion
<1> QED
  BY <1>1, <1>4, SumOverLines

LEMMA SumOverOne ==
  ASSUME NEW a, NEW x, a[x] \in Nat
  PROVE  SumOver(a, {x}) = a[x]
<1> PICK l : l = [id |-> x, amount |-> a[x]]
  OBVIOUS
<1>1. Lines(a, {x}) = {l} /\ l.amount = a[x]
  BY DEF Lines
<1>2. SumAmount({} \cup {l}) = SumAmount({}) + l.amount
  BY <1>1, FS_EmptySet, SumAmountAdd
<1>3. {} \cup {l} = {l} /\ SumAmount({}) = 0
  BY SumAmountType
<1>4. SumOver(a, {x}) = SumAmount(Lines(a, {x}))
  BY SumOverLines
<1>5. SumAmount({l}) = a[x]
  BY ONLY a[x] \in Nat, <1>1, <1>2, <1>3
<1> QED
  BY <1>1, <1>4, <1>5

LEMMA SumOverSame ==
  ASSUME NEW a, NEW b, NEW S, \A x \in S : a[x] = b[x]
  PROVE  SumOver(a, S) = SumOver(b, S)
<1>1. [x \in S |-> a[x]] = [x \in S |-> b[x]]
  OBVIOUS
<1> QED
  BY <1>1 DEF SumOver

SumsOfGroups(a, S, groups, f, g) == \A r \in groups : g[r] = SumOver(a, {x \in S : f[x] = r})

\* The sums of finitely many groups sum to the sum of all.
LEMMA SumOverGroups ==
  ASSUME NEW a, NEW S, IsFiniteSet(S), \A x \in S : a[x] \in Nat,
         NEW groups, IsFiniteSet(groups), NEW f \in [S -> groups],
         NEW g, SumsOfGroups(a, S, groups, f, g)
  PROVE  SumOver(g, groups) = SumOver(a, S)
<1> DEFINE group == [l \in Lines(a, S) |-> f[l.id]]
<1>1. \A l \in Lines(a, S) : l.id \in S /\ l = [id |-> l.id, amount |-> a[l.id]]
  BY DEF Lines
<1>2. group \in [Lines(a, S) -> groups]
  BY <1>1
<1>3. ASSUME NEW r \in groups PROVE g[r] = SumAmount({l \in Lines(a, S) : group[l] = r})
  <2>1. {l \in Lines(a, S) : group[l] = r} = Lines(a, {x \in S : f[x] = r})
    BY DEF Lines
  <2> QED
    BY <2>1, SumOverLines DEF SumsOfGroups
<1>4. IsFiniteSet(Lines(a, S)) /\ \A l \in Lines(a, S) : l.amount \in Nat
  BY LinesFinite
<1> HIDE DEF group
<1>5. GroupSums(Lines(a, S), groups, group, g)
  BY <1>3 DEF GroupSums
<1>6. SumAmount({[id |-> r, amount |-> g[r]] : r \in groups}) = SumAmount(Lines(a, S))
  BY <1>2, <1>4, <1>5, SumAmountPartition
<1> QED
  BY <1>6, SumOverLines DEF Lines

EntryRow ==
  [type : P!Type, status : P!Status, amount : Price, paid : Nat, due : Day, live : BOOLEAN]
PaymentRow == [entry : ReportedEntry, date : Day, amount : Amount]
TransferRow == [from : Account, to : Account, amount : Amount]

\* What was paid of an entry.
PaymentAmounts(rows) == [p \in ReportedPayment |-> IF rows[p] = None THEN 0 ELSE rows[p].amount]
PaymentsFor(rows, e) == {p \in ReportedPayment : rows[p] # None /\ rows[p].entry = e}
PaidFor(rows, e) == SumOver(PaymentAmounts(rows), PaymentsFor(rows, e))

\* paid_amount is the sum of the payments, and never exceeds the amount.
LedgerInv ==
  /\ currentDate \in Day /\ account \subseteq Account
  /\ entry \in [ReportedEntry -> EntryRow] /\ payment \in [ReportedPayment -> PaymentRow \cup {None}]
  /\ transfer = None \/ transfer \in TransferRow
  /\ \A e \in ReportedEntry : entry[e].paid = PaidFor(payment, e) /\ entry[e].paid <= entry[e].amount

\* While a cash flow is computed, its opening balance with the payments there are now gives what
\* the books said at some moment, unless payments of both kinds changed.
RequestInv ==
  /\ request = None \/ request \in P!RequestState
  /\ P!At("forecast") \/ P!At("actual") =>
       /\ P!BooksAtClose \in request.books
       /\ ~request.opened => request.opening = P!Opening
       /\ ~request.moved => request.opening + P!Actual \in request.books

ReportsInv == LedgerInv /\ RequestInv /\ report \in P!Reports

LEMMA LedgerTypes ==
  /\ Price \subseteq Nat /\ Amount \subseteq Nat /\ Initial \in Int /\ First \in Int /\ Last \in Int /\ First <= Last
  /\ Day \subseteq Int /\ First \in Day /\ None \notin PaymentRow /\ None \notin P!RequestState
  /\ \A S : S \subseteq ReportedEntry \/ S \subseteq ReportedPayment \/ S \subseteq Account => IsFiniteSet(S)
<1>1. IsFiniteSet(ReportedEntry) /\ IsFiniteSet(ReportedPayment) /\ IsFiniteSet(Account)
  BY LedgerAssumption DEF R!IsFiniteSet, IsFiniteSet
<1>2. \A S : S \subseteq ReportedEntry \/ S \subseteq ReportedPayment \/ S \subseteq Account => IsFiniteSet(S)
  BY <1>1, FS_Subset
<1> QED
  BY <1>2, LedgerAssumption DEF PaymentRow

LEMMA PaymentAmountsType ==
  ASSUME NEW rows \in [ReportedPayment -> PaymentRow \cup {None}]
  PROVE  /\ \A p \in ReportedPayment : PaymentAmounts(rows)[p] \in Nat /\ (rows[p] # None => PaymentAmounts(rows)[p] = rows[p].amount)
         /\ \A e : IsFiniteSet(PaymentsFor(rows, e)) /\ PaidFor(rows, e) \in Nat
<1>1. \A p \in ReportedPayment : PaymentAmounts(rows)[p] \in Nat /\ (rows[p] # None => PaymentAmounts(rows)[p] = rows[p].amount)
  BY LedgerTypes DEF PaymentAmounts, PaymentRow
<1>2. ASSUME NEW e PROVE IsFiniteSet(PaymentsFor(rows, e)) /\ PaidFor(rows, e) \in Nat
  <2>1. PaymentsFor(rows, e) \subseteq ReportedPayment
    BY DEF PaymentsFor
  <2>2. IsFiniteSet(PaymentsFor(rows, e))
    BY <2>1, LedgerTypes
  <2>3. \A p \in PaymentsFor(rows, e) : PaymentAmounts(rows)[p] \in Nat
    BY <1>1, <2>1
  <2> QED
    BY <2>2, <2>3, SumOverType DEF PaidFor
<1> QED
  BY <1>1, <1>2

Added(new, rows, p, paying) == rows[p] = None /\ new = [rows EXCEPT ![p] = paying]

\* A payment adds its amount to what was paid of its entry, and of no other.
LEMMA PaidForChanges ==
  ASSUME NEW rows \in [ReportedPayment -> PaymentRow \cup {None}], NEW p \in ReportedPayment, NEW paying \in PaymentRow,
         NEW new, Added(new, rows, p, paying), NEW e \in ReportedEntry
  PROVE  PaidFor(new, e) = IF e = paying.entry THEN PaidFor(rows, e) + paying.amount ELSE PaidFor(rows, e)
<1> PICK a : a = PaymentAmounts(rows)
  OBVIOUS
<1> PICK b : b = PaymentAmounts(new)
  OBVIOUS
<1> PICK S : S = PaymentsFor(rows, e)
  OBVIOUS
<1>0. paying # None /\ new \in [ReportedPayment -> PaymentRow \cup {None}] /\ new[p] = paying
      /\ \A q \in ReportedPayment : q # p => new[q] = rows[q]
  BY LedgerTypes DEF Added
<1>6. rows[p] = None
  BY DEF Added
<1>1. /\ \A q \in ReportedPayment : a[q] \in Nat /\ b[q] \in Nat
      /\ \A q \in ReportedPayment : q # p => a[q] = b[q]
      /\ b[p] = paying.amount
  BY <1>0, LedgerTypes DEF PaymentAmounts, PaymentRow
<1>2. S \subseteq ReportedPayment /\ p \notin S /\ IsFiniteSet(S) /\ IsFiniteSet({p})
  BY <1>6, LedgerTypes DEF PaymentsFor
<1>3. SumOver(a, S) = SumOver(b, S)
  <2>1. [q \in S |-> a[q]] = [q \in S |-> b[q]]
    BY <1>1, <1>2
  <2> QED
    BY <2>1 DEF SumOver
<1>4. CASE e = paying.entry
  <2>1. PaymentsFor(new, e) = S \cup {p}
    BY <1>0, <1>4 DEF PaymentsFor
  <2>2. SumOver(b, S \cup {p}) = SumOver(b, S) + SumOver(b, {p})
    <3>1. S \cap {p} = {} /\ \A q \in S \cup {p} : b[q] \in Nat
      BY <1>1, <1>2
    <3> QED
      BY <1>2, <3>1, SumOverParts
  <2>3. SumOver(b, {p}) = paying.amount
    BY <1>1, SumOverOne
  <2> QED
    BY <1>3, <1>4, <2>1, <2>2, <2>3 DEF PaidFor
<1>5. CASE e # paying.entry
  <2>1. PaymentsFor(new, e) = S
    BY <1>0, <1>5, <1>6 DEF PaymentsFor
  <2> QED
    BY <1>3, <1>5, <2>1 DEF PaidFor
<1> QED
  BY <1>4, <1>5

\* The figures of the reports, as sums over sets of rows.
Figures == [e \in ReportedEntry |-> entry[e].amount]

LEMMA PaidIsSum ==
  ASSUME LedgerInv, NEW S, S \subseteq P!PaymentsOf(ReportedEntry)
  PROVE  P!Paid(S) = SumOver(PaymentAmounts(payment), S) /\ P!Paid(S) \in Nat
<1>1. S \subseteq ReportedPayment /\ \A p \in S : payment[p] # None
  BY DEF P!PaymentsOf
<1>2. payment \in [ReportedPayment -> PaymentRow \cup {None}]
  BY DEF LedgerInv
<1>3. \A p \in S : PaymentAmounts(payment)[p] \in Nat /\ PaymentAmounts(payment)[p] = payment[p].amount
  BY <1>1, <1>2, PaymentAmountsType
<1>4. [p \in S |-> payment[p].amount] = [p \in S |-> PaymentAmounts(payment)[p]]
  BY <1>3
<1>5. P!Paid(S) = SumOver(PaymentAmounts(payment), S)
  BY <1>4 DEF P!Paid, SumOver
<1>6. SumOver(PaymentAmounts(payment), S) \in Nat
  BY <1>1, <1>3, LedgerTypes, SumOverType
<1> QED
  BY <1>5, <1>6

LEMMA PaidParts ==
  ASSUME LedgerInv, NEW S, NEW T, S \subseteq P!PaymentsOf(ReportedEntry), T \subseteq P!PaymentsOf(ReportedEntry),
         S \cap T = {}
  PROVE  P!Paid(S \cup T) = P!Paid(S) + P!Paid(T)
<1>1. S \subseteq ReportedPayment /\ T \subseteq ReportedPayment /\ IsFiniteSet(S) /\ IsFiniteSet(T)
  BY LedgerTypes DEF P!PaymentsOf
<1>2. \A p \in S \cup T : PaymentAmounts(payment)[p] \in Nat
  BY <1>1, PaymentAmountsType DEF LedgerInv
<1>3. SumOver(PaymentAmounts(payment), S \cup T) = SumOver(PaymentAmounts(payment), S) + SumOver(PaymentAmounts(payment), T)
  BY <1>1, <1>2, SumOverParts
<1>4. P!Paid(S \cup T) = SumOver(PaymentAmounts(payment), S \cup T)
  <2>1. S \cup T \subseteq P!PaymentsOf(ReportedEntry)
    OBVIOUS
  <2> QED
    BY <2>1, PaidIsSum
<1>5. P!Paid(S) = SumOver(PaymentAmounts(payment), S) /\ P!Paid(T) = SumOver(PaymentAmounts(payment), T)
  BY PaidIsSum
<1> QED
  BY <1>3, <1>4, <1>5

OfType(t, S) == {p \in S : entry[payment[p].entry].type = t}

LEMMA PaidNetParts ==
  ASSUME LedgerInv, NEW S, NEW T, S \subseteq P!PaymentsOf(ReportedEntry), T \subseteq P!PaymentsOf(ReportedEntry),
         S \cap T = {}
  PROVE  /\ P!PaidNet(S) \in Int /\ P!PaidNet(T) \in Int
         /\ P!PaidNet(S \cup T) = P!PaidNet(S) + P!PaidNet(T)
<1>1. ASSUME NEW t PROVE /\ P!Paid(OfType(t, S)) \in Nat /\ P!Paid(OfType(t, T)) \in Nat
                         /\ P!Paid(OfType(t, S \cup T)) = P!Paid(OfType(t, S)) + P!Paid(OfType(t, T))
  <2>1. /\ OfType(t, S) \subseteq P!PaymentsOf(ReportedEntry) /\ OfType(t, T) \subseteq P!PaymentsOf(ReportedEntry)
        /\ OfType(t, S) \cap OfType(t, T) = {} /\ OfType(t, S \cup T) = OfType(t, S) \cup OfType(t, T)
    BY DEF OfType
  <2> QED
    BY <2>1, PaidIsSum, PaidParts
<1>2. \A V : P!PaidNet(V) = P!Paid(OfType("RECEIVABLE", V)) - P!Paid(OfType("PAYABLE", V))
  BY DEF P!PaidNet, OfType
<1>3. /\ P!PaidNet(S) = P!Paid(OfType("RECEIVABLE", S)) - P!Paid(OfType("PAYABLE", S))
      /\ P!PaidNet(T) = P!Paid(OfType("RECEIVABLE", T)) - P!Paid(OfType("PAYABLE", T))
      /\ P!PaidNet(S \cup T) = P!Paid(OfType("RECEIVABLE", S \cup T)) - P!Paid(OfType("PAYABLE", S \cup T))
  BY <1>2
<1>4. /\ P!Paid(OfType("RECEIVABLE", S)) \in Nat /\ P!Paid(OfType("RECEIVABLE", T)) \in Nat
      /\ P!Paid(OfType("RECEIVABLE", S \cup T)) = P!Paid(OfType("RECEIVABLE", S)) + P!Paid(OfType("RECEIVABLE", T))
  BY <1>1
<1>5. /\ P!Paid(OfType("PAYABLE", S)) \in Nat /\ P!Paid(OfType("PAYABLE", T)) \in Nat
      /\ P!Paid(OfType("PAYABLE", S \cup T)) = P!Paid(OfType("PAYABLE", S)) + P!Paid(OfType("PAYABLE", T))
  BY <1>1
<1> QED
  BY <1>3, <1>4, <1>5

\* The opening balance and the payments of the period share no payment and miss none: together
\* they are what the books say at its end.
BooksAddUp == P!Opening \in Int /\ P!Actual \in Int /\ P!BooksAtClose = P!Opening + P!Actual

LEMMA BooksClose == LedgerInv => BooksAddUp
<1> SUFFICES ASSUME LedgerInv PROVE BooksAddUp
  OBVIOUS
<1> PICK all : all = P!PaymentsOf(P!Live)
  OBVIOUS
<1> PICK settled : settled = P!PaymentsOf({e \in P!Live : entry[e].status = "PAID"})
  OBVIOUS
<1> PICK others : others = P!PaymentsOf({e \in P!Live : entry[e].status # "PAID"})
  OBVIOUS
<1> PICK before : before = {p \in all : payment[p].date < First}
  OBVIOUS
<1> PICK during : during = {p \in all : P!InPeriod(payment[p].date)}
  OBVIOUS
<1> PICK after : after = {p \in all : payment[p].date > Last}
  OBVIOUS
<1> PICK opened : opened = Initial * P!Cardinality(account)
  OBVIOUS
<1> PICK sent : sent = P!Transferred(account, account)
  OBVIOUS
<1>1. all \subseteq P!PaymentsOf(ReportedEntry)
  BY DEF P!PaymentsOf, P!Live
<1>2. settled \cap others = {} /\ all = settled \cup others
  BY DEF P!PaymentsOf, P!Live
<1>3. \A p \in all : payment[p].date \in Int
  BY <1>1, LedgerTypes DEF LedgerInv, P!PaymentsOf, PaymentRow
<1>4. /\ before \cap during = {} /\ (before \cup during) \cap after = {}
      /\ all = (before \cup during) \cup after
  BY <1>3, LedgerTypes DEF P!InPeriod
<1>5. opened \in Int
  <2>1. IsFiniteSet(account)
    BY LedgerTypes DEF LedgerInv
  <2>2. Cardinality(account) \in Nat
    BY <2>1, FS_CardinalityType
  <2>3. P!Cardinality(account) = Cardinality(account)
    BY DEF P!Cardinality, Cardinality
  <2> QED
    BY <2>2, <2>3, LedgerTypes
<1>6. sent \in Int
  BY LedgerTypes DEF P!Transferred, LedgerInv, TransferRow
<1>7. P!PaidNet(all) = P!PaidNet(settled) + P!PaidNet(others) /\ P!PaidNet(settled) \in Int /\ P!PaidNet(others) \in Int
  BY <1>1, <1>2, PaidNetParts
<1>8. P!PaidNet(before \cup during) = P!PaidNet(before) + P!PaidNet(during) /\ P!PaidNet(before) \in Int /\ P!PaidNet(during) \in Int
  BY <1>1, <1>4, PaidNetParts
<1>9. P!PaidNet(all) = P!PaidNet(before \cup during) + P!PaidNet(after) /\ P!PaidNet(after) \in Int
  <2>1. before \cup during \subseteq P!PaymentsOf(ReportedEntry) /\ after \subseteq P!PaymentsOf(ReportedEntry)
    BY <1>1, <1>4
  <2> QED
    BY <1>4, <2>1, PaidNetParts
<1>10. P!Opening = opened + P!PaidNet(before) /\ P!Actual = P!PaidNet(during)
  BY DEF P!Opening, P!Actual
<1>11. P!BooksAtClose = ((opened + P!PaidNet(settled) + sent) - sent) + P!PaidNet(others) - P!PaidNet(after)
  BY DEF P!BooksAtClose, P!CurrentBalance
<1> QED
  BY <1>5, <1>6, <1>7, <1>8, <1>9, <1>10, <1>11 DEF BooksAddUp

LEMMA BooksCloseLater == LedgerInv' => BooksAddUp'
BY BooksClose, PTL

\* The DRE is the balance sheet with the drafts and the cancelled entries.
LEMMA TotalParts ==
  ASSUME LedgerInv, NEW t, NEW S, NEW T, S \subseteq ReportedEntry, T \subseteq ReportedEntry, S \cap T = {}
  PROVE  /\ P!Total(t, S) \in Nat /\ P!Total(t, T) \in Nat
         /\ P!Total(t, S \cup T) = P!Total(t, S) + P!Total(t, T)
<1> DEFINE Rows(V) == {e \in V : entry[e].type = t}
<1>1. \A e \in ReportedEntry : Figures[e] \in Nat /\ Figures[e] = entry[e].amount
  BY LedgerTypes DEF Figures, LedgerInv, EntryRow
<1>2. ASSUME NEW V, V \subseteq ReportedEntry
      PROVE  /\ P!Total(t, V) = SumOver(Figures, Rows(V)) /\ Rows(V) \subseteq ReportedEntry
             /\ IsFiniteSet(Rows(V)) /\ P!Total(t, V) \in Nat
  <2>1. [e \in Rows(V) |-> entry[e].amount] = [e \in Rows(V) |-> Figures[e]]
    BY <1>1, <1>2
  <2>2. P!Total(t, V) = SumOver(Figures, Rows(V))
    BY <2>1 DEF P!Total, SumOver
  <2>3. Rows(V) \subseteq ReportedEntry
    BY <1>2
  <2>4. IsFiniteSet(Rows(V)) /\ \A e \in Rows(V) : Figures[e] \in Nat
    BY <1>1, <2>3, LedgerTypes
  <2>5. SumOver(Figures, Rows(V)) \in Nat
    BY <2>4, SumOverType
  <2> QED
    BY <2>2, <2>3, <2>4, <2>5
<1>3. Rows(S \cup T) = Rows(S) \cup Rows(T) /\ Rows(S) \cap Rows(T) = {}
  OBVIOUS
<1>4. /\ P!Total(t, S) = SumOver(Figures, Rows(S)) /\ Rows(S) \subseteq ReportedEntry
      /\ IsFiniteSet(Rows(S)) /\ P!Total(t, S) \in Nat
  BY <1>2
<1>5. /\ P!Total(t, T) = SumOver(Figures, Rows(T)) /\ Rows(T) \subseteq ReportedEntry
      /\ IsFiniteSet(Rows(T)) /\ P!Total(t, T) \in Nat
  BY <1>2
<1>6. P!Total(t, S \cup T) = SumOver(Figures, Rows(S) \cup Rows(T))
  <2>1. S \cup T \subseteq ReportedEntry
    OBVIOUS
  <2> QED
    BY <1>2, <1>3, <2>1
<1> HIDE DEF Rows
<1>7. SumOver(Figures, Rows(S) \cup Rows(T)) = SumOver(Figures, Rows(S)) + SumOver(Figures, Rows(T))
  <2>1. \A e \in Rows(S) \cup Rows(T) : Figures[e] \in Nat
    BY <1>1, <1>4, <1>5
  <2> QED
    BY <1>3, <1>4, <1>5, <2>1, SumOverParts
<1> QED
  BY <1>4, <1>5, <1>6, <1>7

LEMMA DraftsDiffer == LedgerInv => P!ResultsDifferByDrafts
<1> SUFFICES ASSUME LedgerInv PROVE P!ResultsDifferByDrafts
  OBVIOUS
<1> PICK due : due = P!Due
  OBVIOUS
<1> PICK counted : counted = P!Counted(P!Due)
  OBVIOUS
<1> PICK drafts : drafts = {e \in P!Due : entry[e].status \in {"DRAFT", "CANCELLED"}}
  OBVIOUS
<1>1. /\ counted \subseteq ReportedEntry /\ drafts \subseteq ReportedEntry /\ counted \cap drafts = {}
      /\ due = counted \cup drafts
  BY DEF P!Counted, P!Due, P!Live
<1>2. /\ P!Total("RECEIVABLE", counted) \in Nat /\ P!Total("RECEIVABLE", drafts) \in Nat
      /\ P!Total("RECEIVABLE", counted \cup drafts) = P!Total("RECEIVABLE", counted) + P!Total("RECEIVABLE", drafts)
  BY <1>1, TotalParts
<1>3. /\ P!Total("PAYABLE", counted) \in Nat /\ P!Total("PAYABLE", drafts) \in Nat
      /\ P!Total("PAYABLE", counted \cup drafts) = P!Total("PAYABLE", counted) + P!Total("PAYABLE", drafts)
  BY <1>1, TotalParts
<1>4. P!Net(due) = P!Net(counted) + P!Net(drafts)
  <2>1. due = counted \cup drafts
    BY <1>1
  <2>2. P!Net(due) = P!Net(counted \cup drafts)
    BY <2>1, Zenon
  <2> QED
    BY <1>2, <1>3, <2>2 DEF P!Net
<1>5. P!Dre.netResult = P!Net(due) /\ P!BalanceSheet.net = P!Net(counted)
  BY DEF P!Dre, P!BalanceSheet
<1>6. P!Chart.forecastInflow - P!Chart.forecastOutflow = P!Net(counted)
  BY DEF P!Chart, P!Net
<1> QED
  BY <1>4, <1>5, <1>6 DEF P!ResultsDifferByDrafts

\* The ranges of the aging, one for every limit and one beyond.
AgingRange == 1 .. P!Cardinality(AgeLimits) + 1
Ranged(r) == {e \in P!Receivable : P!RangeOf(e) = r}
Ranges == [e \in P!Receivable |-> P!RangeOf(e)]
Owed == [e \in ReportedEntry |-> entry[e].amount - entry[e].paid]
One == [e \in ReportedEntry |-> 1]
Totals == [r \in AgingRange |-> P!Aging[r].total]
Counts == [r \in AgingRange |-> P!Aging[r].count]

LEMMA SumOverOnes ==
  ASSUME NEW S, S \subseteq ReportedEntry
  PROVE  SumOver(One, S) = Cardinality(S)
<1>1. IsFiniteSet(S)
  BY LedgerTypes
<1>2. Lines(One, S) = {[id |-> x, amount |-> 1] : x \in S}
  BY DEF Lines, One
<1> QED
  BY <1>1, <1>2, SumOverLines, SumOfOnes

\* Every open receivable falls into one range, and the aging has the sum and the number of
\* those of each range.
LEMMA AgingRanges ==
  ASSUME LedgerInv
  PROVE  /\ DOMAIN P!Aging = AgingRange /\ IsFiniteSet(AgingRange)
         /\ Ranges \in [P!Receivable -> AgingRange]
         /\ \A r \in AgingRange : Totals[r] = SumOver(Owed, Ranged(r)) /\ Counts[r] = Cardinality(Ranged(r))
         /\ P!Receivable \subseteq ReportedEntry
         /\ \A e \in ReportedEntry : Owed[e] \in Nat
<1>1. P!Receivable \subseteq ReportedEntry
  BY DEF P!Receivable, P!Due, P!Live
<1>2. \A e \in ReportedEntry : entry[e].amount \in Nat /\ entry[e].paid \in Nat
  BY LedgerTypes DEF LedgerInv, EntryRow
<1>3. \A e \in ReportedEntry : Owed[e] \in Nat
  BY <1>2 DEF Owed, LedgerInv
<1>4. \A S : P!Cardinality(S) = Cardinality(S) /\ (P!IsFiniteSet(S) <=> IsFiniteSet(S))
  BY DEF P!Cardinality, Cardinality, P!IsFiniteSet, IsFiniteSet
<1>5. IsFiniteSet(AgeLimits) /\ Cardinality(AgeLimits) \in Nat
  BY FS_CardinalityType, LedgerAssumption DEF R!IsFiniteSet, IsFiniteSet
<1>6. ASSUME NEW e \in P!Receivable PROVE P!RangeOf(e) \in AgingRange
  <2> PICK beyond : beyond = {limit \in AgeLimits : currentDate - entry[e].due > limit}
    OBVIOUS
  <2>1. P!RangeOf(e) = Cardinality(beyond) + 1
    BY <1>4 DEF P!RangeOf
  <2>2. IsFiniteSet(beyond) /\ Cardinality(beyond) <= Cardinality(AgeLimits)
    BY <1>5, FS_Subset
  <2>3. Cardinality(beyond) \in Nat
    BY <2>2, FS_CardinalityType
  <2>4. AgingRange = 1 .. Cardinality(AgeLimits) + 1
    BY <1>4 DEF AgingRange
  <2> QED
    BY <1>5, <2>1, <2>2, <2>3, <2>4
<1>7. IsFiniteSet(AgingRange)
  <2>1. Cardinality(AgeLimits) + 1 \in Int
    BY <1>5
  <2>2. IsFiniteSet(1 .. Cardinality(AgeLimits) + 1)
    BY <2>1, FS_Interval
  <2> QED
    BY <1>4, <2>2 DEF AgingRange
<1>8. DOMAIN P!Aging = AgingRange
  BY DEF P!Aging, AgingRange
<1>9. ASSUME NEW r \in AgingRange PROVE Totals[r] = SumOver(Owed, Ranged(r)) /\ Counts[r] = Cardinality(Ranged(r))
  <2>1. ASSUME NEW e \in Ranged(r) PROVE entry[e].amount - P!Paid(P!PaymentsOf({e})) = Owed[e]
    <3>1. e \in ReportedEntry
      BY <1>1 DEF Ranged
    <3>2. P!PaymentsOf({e}) = PaymentsFor(payment, e) /\ P!PaymentsOf({e}) \subseteq P!PaymentsOf(ReportedEntry)
      BY <3>1 DEF P!PaymentsOf, PaymentsFor
    <3>3. P!Paid(P!PaymentsOf({e})) = SumOver(PaymentAmounts(payment), P!PaymentsOf({e}))
      BY <3>2, PaidIsSum
    <3>4. entry[e].paid = SumOver(PaymentAmounts(payment), P!PaymentsOf({e}))
      BY <3>1, <3>2 DEF LedgerInv, PaidFor
    <3> QED
      BY <3>1, <3>3, <3>4 DEF Owed
  <2>2. [e \in Ranged(r) |-> entry[e].amount - P!Paid(P!PaymentsOf({e}))] = [e \in Ranged(r) |-> Owed[e]]
    BY <2>1
  <2>3. P!Aging[r].total = P!Sum([e \in Ranged(r) |-> entry[e].amount - P!Paid(P!PaymentsOf({e}))])
        /\ P!Aging[r].count = P!Cardinality(Ranged(r))
    BY DEF P!Aging, Ranged, AgingRange
  <2>4. Totals[r] = P!Aging[r].total /\ Counts[r] = P!Aging[r].count
    BY DEF Totals, Counts
  <2> QED
    BY <1>4, <2>2, <2>3, <2>4 DEF SumOver
<1>10. Ranges \in [P!Receivable -> AgingRange]
  BY <1>6 DEF Ranges
<1> QED
  BY <1>1, <1>3, <1>7, <1>8, <1>9, <1>10

LEMMA AgingAddsUp == LedgerInv => P!AgingIsWhatIsOwed
<1> SUFFICES ASSUME LedgerInv PROVE P!AgingIsWhatIsOwed
  OBVIOUS
<1> PICK all : all = P!Receivable
  OBVIOUS
<1> PICK ranges : ranges = Ranges
  OBVIOUS
<1> PICK reached : reached = {e \in all : entry[e].due <= currentDate}
  OBVIOUS
<1> PICK later : later = {e \in all : entry[e].due > currentDate}
  OBVIOUS
<1>1. all \subseteq ReportedEntry /\ (\A e \in ReportedEntry : Owed[e] \in Nat) /\ ranges \in [all -> AgingRange] /\ IsFiniteSet(AgingRange)
  BY AgingRanges
<1>2. \A r \in AgingRange : Ranged(r) = {e \in all : ranges[e] = r}
  BY DEF Ranged, Ranges
<1>3. reached \cap later = {} /\ all = reached \cup later
  <2>1. \A e \in all : entry[e].due \in Int /\ currentDate \in Int
    BY <1>1, LedgerTypes DEF LedgerInv, EntryRow
  <2> QED
    BY <2>1
<1>4. IsFiniteSet(all) /\ IsFiniteSet(reached) /\ IsFiniteSet(later)
  BY <1>1, <1>3, LedgerTypes
<1>5. Cardinality(all) = Cardinality(reached) + Cardinality(later)
  <2>1. Cardinality(reached \cup later) = Cardinality(reached) + Cardinality(later) - Cardinality(reached \cap later)
    BY <1>4, FS_Union
  <2>2. Cardinality(reached) \in Nat /\ Cardinality(later) \in Nat /\ Cardinality({}) = 0
    BY <1>4, FS_CardinalityType, FS_EmptySet
  <2>3. reached \cap later = {} /\ all = reached \cup later
    BY <1>3
  <2>4. Cardinality(reached \cap later) = Cardinality({}) /\ Cardinality(all) = Cardinality(reached \cup later)
    BY <2>3, Zenon
  <2> QED
    BY <2>1, <2>2, <2>4
<1>6. SumsOfGroups(Owed, all, AgingRange, ranges, Totals)
  BY <1>2, AgingRanges DEF SumsOfGroups
<1>9. \A e \in all : One[e] \in Nat /\ Owed[e] \in Nat
  BY <1>1 DEF One
<1>7. SumOver(Totals, AgingRange) = SumOver(Owed, all)
  BY <1>1, <1>4, <1>6, <1>9, SumOverGroups
<1>8. SumsOfGroups(One, all, AgingRange, ranges, Counts)
  <2> SUFFICES ASSUME NEW r \in AgingRange PROVE Counts[r] = SumOver(One, {e \in all : ranges[e] = r})
    BY DEF SumsOfGroups
  <2>1. Counts[r] = Cardinality(Ranged(r)) /\ Ranged(r) = {e \in all : ranges[e] = r} /\ Ranged(r) \subseteq ReportedEntry
    BY <1>1, <1>2, AgingRanges
  <2> QED
    BY <2>1, SumOverOnes
<1>10. SumOver(Counts, AgingRange) = SumOver(One, all)
  BY <1>1, <1>4, <1>8, <1>9, SumOverGroups
<1>11. SumOver(One, all) = Cardinality(all)
  BY <1>1, SumOverOnes
<1>12. P!Sum([r \in DOMAIN P!Aging |-> P!Aging[r].total]) = SumOver(Totals, AgingRange)
  <2>1. [r \in DOMAIN P!Aging |-> P!Aging[r].total] = [r \in AgingRange |-> Totals[r]]
    BY AgingRanges DEF Totals
  <2> QED
    BY <2>1 DEF SumOver
<1>13. P!Sum([r \in DOMAIN P!Aging |-> P!Aging[r].count]) = SumOver(Counts, AgingRange)
  <2>1. [r \in DOMAIN P!Aging |-> P!Aging[r].count] = [r \in AgingRange |-> Counts[r]]
    BY AgingRanges DEF Counts
  <2> QED
    BY <2>1 DEF SumOver
<1>14. P!Sum([e \in P!Receivable |-> entry[e].amount - entry[e].paid]) = SumOver(Owed, all)
  <2>1. [e \in P!Receivable |-> entry[e].amount - entry[e].paid] = [e \in all |-> Owed[e]]
    BY <1>1 DEF Owed
  <2> QED
    BY <2>1 DEF SumOver
<1>15. P!Overdue \cap P!Receivable = reached /\ {e \in P!Receivable : entry[e].due > currentDate} = later
  BY DEF P!Overdue, P!Receivable, P!Due
<1>16. P!Cardinality(reached) = Cardinality(reached) /\ P!Cardinality(later) = Cardinality(later)
  BY DEF P!Cardinality, Cardinality
<1> QED
  BY <1>5, <1>7, <1>10, <1>11, <1>12, <1>13, <1>14, <1>15, <1>16 DEF P!AgingIsWhatIsOwed

LEMMA ReportsInvImplies == ReportsInv => P!TypeOK /\ P!ReportsAgree
<1> SUFFICES ASSUME ReportsInv PROVE P!TypeOK /\ P!ReportsAgree
  OBVIOUS
<1>1. P!TypeOK
  <2>1. \A e \in ReportedEntry : entry[e] \in EntryRow /\ entry[e].paid \in 0 .. entry[e].amount
    BY LedgerTypes DEF ReportsInv, LedgerInv, EntryRow
  <2>2. \A p \in P!PaymentsOf(ReportedEntry) : payment[p] \in PaymentRow
    BY DEF ReportsInv, LedgerInv, P!PaymentsOf
  <2> QED
    BY <2>1, <2>2 DEF ReportsInv, LedgerInv, RequestInv, EntryRow, PaymentRow, P!RequestState, P!TypeOK
<1>2. P!ClosesWithTheBooks
  <2> SUFFICES ASSUME P!At("actual"), ~(request.opened /\ request.moved)
               PROVE  request.opening + P!Actual \in request.books
    BY DEF P!ClosesWithTheBooks, P!Accumulated
  <2>1. CASE ~request.moved
    BY <2>1 DEF ReportsInv, RequestInv
  <2>2. CASE ~request.opened
    <3>1. request.opening = P!Opening /\ P!BooksAtClose \in request.books
      BY <2>2 DEF ReportsInv, RequestInv
    <3>2. P!BooksAtClose = P!Opening + P!Actual
      BY BooksClose DEF ReportsInv, BooksAddUp
    <3> QED
      BY <3>1, <3>2
  <2> QED
    BY <2>1, <2>2
<1> QED
  BY <1>1, <1>2, DraftsDiffer, AgingAddsUp DEF ReportsInv, P!ReportsAgree

LEMMA ReportsInit == P!Init => ReportsInv
<1> SUFFICES ASSUME P!Init PROVE ReportsInv
  OBVIOUS
<1>1. payment \in [ReportedPayment -> PaymentRow \cup {None}] /\ \A p \in ReportedPayment : payment[p] = None
  BY DEF P!Init
<1>2. \A e \in ReportedEntry : entry[e] \in EntryRow /\ entry[e].paid = 0 /\ entry[e].amount \in Nat
  <2> TAKE e \in ReportedEntry
  <2>1. entry[e] \in P!NewRow
    BY DEF P!Init
  <2>2. entry[e].paid = 0 /\ entry[e].amount \in Price
    BY <2>1 DEF P!NewRow
  <2>3. entry[e] \in EntryRow
    <3> PICK x : x = entry[e]
      OBVIOUS
    <3>1. x = [type |-> x.type, status |-> x.status, amount |-> x.amount, paid |-> x.paid, due |-> x.due, live |-> x.live]
      BY <2>1 DEF P!NewRow
    <3>2. x.type \in P!Type /\ x.amount \in Price /\ x.paid \in {0} /\ x.due \in Day
          /\ x.status \in {"DRAFT", "PENDING_APPROVAL", "PENDING"}
      BY <2>1 DEF P!NewRow
    <3>4. x.status \in P!Status
      BY <3>2 DEF P!Status
    <3>3. x.live \in BOOLEAN
      BY <2>1 DEF P!NewRow
    <3> QED
      BY <3>1, <3>2, <3>3, <3>4 DEF EntryRow
  <2> QED
    BY <2>2, <2>3, LedgerTypes
<1>3. ASSUME NEW e \in ReportedEntry PROVE PaidFor(payment, e) = 0
  <2>1. PaymentsFor(payment, e) = {}
    BY <1>1 DEF PaymentsFor
  <2>2. Lines(PaymentAmounts(payment), {}) = {}
    BY DEF Lines
  <2>3. SumOver(PaymentAmounts(payment), {}) = SumAmount({})
    BY <2>2, SumOverLines
  <2> QED
    BY <2>1, <2>3, SumAmountType DEF PaidFor
<1>4. entry \in [ReportedEntry -> EntryRow]
  BY <1>2 DEF P!Init
<1>5. LedgerInv
  BY <1>1, <1>2, <1>3, <1>4, LedgerTypes DEF P!Init, LedgerInv
<1> QED
  BY <1>5 DEF P!Init, ReportsInv, RequestInv, P!At

\* A change of one entry, and what was paid of it.
LEMMA EntryChanged ==
  ASSUME LedgerInv, NEW e \in ReportedEntry, NEW x \in EntryRow, entry' = [entry EXCEPT ![e] = x],
         UNCHANGED <<currentDate, account, transfer>>, payment' \in [ReportedPayment -> PaymentRow \cup {None}],
         x.paid = PaidFor(payment', e), x.paid <= x.amount,
         \A f \in ReportedEntry : f # e => PaidFor(payment', f) = PaidFor(payment, f)
  PROVE  LedgerInv'
<1>1. entry' \in [ReportedEntry -> EntryRow] /\ entry'[e] = x /\ \A f \in ReportedEntry : f # e => entry'[f] = entry[f]
  BY DEF LedgerInv
<1>2. ASSUME NEW f \in ReportedEntry PROVE entry'[f].paid = PaidFor(payment', f) /\ entry'[f].paid <= entry'[f].amount
  <2>1. CASE f = e
    BY <1>1, <2>1
  <2>2. CASE f # e
    BY <1>1, <2>2 DEF LedgerInv
  <2> QED
    BY <2>1, <2>2
<1> QED
  BY <1>1, <1>2 DEF LedgerInv

\* A change of one entry that moves no payment.
LEMMA EntryMarked ==
  ASSUME LedgerInv, NEW e \in ReportedEntry, NEW x, P!Row(e, x), UNCHANGED payment,
         x \in EntryRow, x.paid = entry[e].paid, x.amount = entry[e].amount
  PROVE  LedgerInv'
<1>1. /\ entry' = [entry EXCEPT ![e] = x] /\ UNCHANGED <<currentDate, account, transfer>>
      /\ payment' \in [ReportedPayment -> PaymentRow \cup {None}]
  BY DEF P!Row, LedgerInv
<1>2. x.paid = PaidFor(payment', e) /\ x.paid <= x.amount
  BY DEF LedgerInv
<1>3. \A f \in ReportedEntry : f # e => PaidFor(payment', f) = PaidFor(payment, f)
  OBVIOUS
<1> QED
  BY <1>1, <1>2, <1>3, EntryChanged

LEMMA SettledRow ==
  ASSUME NEW y \in EntryRow, NEW paid2 \in Nat
  PROVE  /\ P!Settled(y, paid2) \in EntryRow
         /\ P!Settled(y, paid2).paid = paid2 /\ P!Settled(y, paid2).amount = y.amount
<1> PICK s : s = P!DetermineStatus(y.amount, paid2)
  OBVIOUS
<1>1. s \in P!Status
  BY DEF P!DetermineStatus, P!Status
<1>2. P!Settled(y, paid2) = [y EXCEPT !.paid = paid2, !.status = s]
  BY DEF P!Settled
<1>3. [y EXCEPT !.paid = paid2, !.status = s] \in EntryRow
  BY <1>1 DEF EntryRow
<1>4. [y EXCEPT !.paid = paid2, !.status = s].paid = paid2 /\ [y EXCEPT !.paid = paid2, !.status = s].amount = y.amount
  BY DEF EntryRow
<1> QED
  BY <1>2, <1>3, <1>4

LEMMA PayStep ==
  ASSUME LedgerInv, NEW e \in ReportedEntry, NEW p \in ReportedPayment, NEW date \in Day, NEW amount \in Amount,
         P!Pay(e, p, date, amount)
  PROVE  LedgerInv'
<1> PICK y : y = entry[e]
  OBVIOUS
<1> PICK x : x = P!Settled(y, y.paid + amount)
  OBVIOUS
<1> PICK paying : paying = [entry |-> e, date |-> date, amount |-> amount]
  OBVIOUS
<1> PICK before : before = payment
  OBVIOUS
<1> PICK after : after = payment'
  OBVIOUS
<1>0. y \in EntryRow /\ y.paid = PaidFor(before, e) /\ y.paid + amount \in Nat
  BY LedgerTypes DEF LedgerInv, EntryRow
<1>1. /\ entry' = [entry EXCEPT ![e] = x] /\ UNCHANGED <<currentDate, account, transfer>>
      /\ before[p] = None /\ y.paid + amount <= y.amount /\ after = [before EXCEPT ![p] = paying]
  BY DEF P!Pay, P!Row
<1>2. x \in EntryRow /\ x.paid = y.paid + amount /\ x.amount = y.amount
  BY <1>0, SettledRow
<1>3. before \in [ReportedPayment -> PaymentRow \cup {None}] /\ paying \in PaymentRow
  BY DEF LedgerInv, PaymentRow
<1>4. after \in [ReportedPayment -> PaymentRow \cup {None}]
  BY <1>1, <1>3
<1>7. Added(after, before, p, paying)
  BY <1>1 DEF Added
<1>5. \A f \in ReportedEntry : PaidFor(after, f) = IF f = e THEN PaidFor(before, f) + amount ELSE PaidFor(before, f)
  <2> TAKE f \in ReportedEntry
  <2>1. PaidFor(after, f) = IF f = paying.entry THEN PaidFor(before, f) + paying.amount ELSE PaidFor(before, f)
    BY <1>1, <1>3, <1>7, PaidForChanges
  <2> QED
    BY <2>1
<1>6. x.paid = PaidFor(after, e) /\ x.paid <= x.amount
  BY <1>0, <1>1, <1>2, <1>5
<1> QED
  BY <1>1, <1>2, <1>4, <1>5, <1>6, EntryChanged

LEMMA RefundStep ==
  ASSUME LedgerInv, NEW p \in ReportedPayment, P!Refund(p)
  PROVE  LedgerInv'
<1> PICK paying : paying = payment[p]
  OBVIOUS
<1> PICK e : e = paying.entry
  OBVIOUS
<1> PICK y : y = entry[e]
  OBVIOUS
<1> PICK x : x = P!Settled(y, y.paid - paying.amount)
  OBVIOUS
<1> PICK before : before = payment
  OBVIOUS
<1> PICK after : after = payment'
  OBVIOUS
<1>1. /\ entry' = [entry EXCEPT ![e] = x] /\ UNCHANGED <<currentDate, account, transfer>>
      /\ paying # None /\ after = [before EXCEPT ![p] = None]
  BY DEF P!Refund, P!Row
<1>2. before \in [ReportedPayment -> PaymentRow \cup {None}] /\ paying \in PaymentRow /\ e \in ReportedEntry
  BY <1>1 DEF LedgerInv, PaymentRow
<1>3. after \in [ReportedPayment -> PaymentRow \cup {None}] /\ after[p] = None /\ before = [after EXCEPT ![p] = paying]
  BY <1>1, <1>2
<1>9. Added(before, after, p, paying)
  BY <1>3 DEF Added
<1>4. \A f \in ReportedEntry : PaidFor(before, f) = IF f = e THEN PaidFor(after, f) + paying.amount ELSE PaidFor(after, f)
  <2> TAKE f \in ReportedEntry
  <2>1. PaidFor(before, f) = IF f = paying.entry THEN PaidFor(after, f) + paying.amount ELSE PaidFor(after, f)
    BY <1>2, <1>3, <1>9, PaidForChanges
  <2> QED
    BY <2>1
<1>5. y \in EntryRow /\ y.paid = PaidFor(before, e) /\ y.paid <= y.amount /\ PaidFor(after, e) \in Nat /\ paying.amount \in Nat
      /\ y.amount \in Nat
  BY <1>2, <1>3, LedgerTypes, PaymentAmountsType DEF LedgerInv, EntryRow, PaymentRow
<1>6. y.paid - paying.amount = PaidFor(after, e)
  BY <1>2, <1>4, <1>5
<1>7. x \in EntryRow /\ x.paid = PaidFor(after, e) /\ x.amount = y.amount
  <2> PICK rest \in Nat : rest = y.paid - paying.amount
    BY <1>5, <1>6
  <2>1. P!Settled(y, rest) \in EntryRow /\ P!Settled(y, rest).paid = rest /\ P!Settled(y, rest).amount = y.amount
    BY <1>5, SettledRow
  <2> QED
    BY <1>6, <2>1
<1>8. x.paid <= x.amount
  BY <1>2, <1>4, <1>5, <1>7
<1> QED
  BY <1>1, <1>2, <1>3, <1>4, <1>7, <1>8, EntryChanged

LEMMA LedgerStep ==
  ASSUME LedgerInv, P!Ledger
  PROVE  LedgerInv'
<1>0. /\ currentDate \in Day /\ account \subseteq Account
      /\ entry \in [ReportedEntry -> EntryRow] /\ payment \in [ReportedPayment -> PaymentRow \cup {None}]
      /\ transfer = None \/ transfer \in TransferRow
  BY DEF LedgerInv
<1>1. ASSUME NEW e \in ReportedEntry, NEW s \in {"PENDING", "CANCELLED"}, P!Row(e, [entry[e] EXCEPT !.status = s]), UNCHANGED payment
      PROVE  LedgerInv'
  <2> PICK x : x = [entry[e] EXCEPT !.status = s]
    OBVIOUS
  <2>1. x \in EntryRow /\ x.paid = entry[e].paid /\ x.amount = entry[e].amount
    BY <1>0 DEF EntryRow, P!Status
  <2> QED
    BY <1>1, <2>1, EntryMarked
<1>2. ASSUME NEW e \in ReportedEntry, P!Approve(e) \/ P!Cancel(e) PROVE LedgerInv'
  BY <1>1, <1>2 DEF P!Approve, P!Cancel
<1>3. ASSUME NEW e \in ReportedEntry, P!DeleteOrRestore(e) PROVE LedgerInv'
  <2> PICK x : x = [entry[e] EXCEPT !.live = ~entry[e].live]
    OBVIOUS
  <2>1. x \in EntryRow /\ x.paid = entry[e].paid /\ x.amount = entry[e].amount
    BY <1>0 DEF EntryRow
  <2>2. P!Row(e, x) /\ UNCHANGED payment
    BY <1>3 DEF P!DeleteOrRestore
  <2> QED
    BY <2>1, <2>2, EntryMarked
<1>4. ASSUME NEW e \in ReportedEntry, NEW p \in ReportedPayment, NEW date \in Day, NEW amount \in Amount, P!Pay(e, p, date, amount)
      PROVE  LedgerInv'
  BY <1>4, PayStep
<1>5. ASSUME NEW p \in ReportedPayment, P!Refund(p) PROVE LedgerInv'
  BY <1>5, RefundStep
<1>6. CASE P!MarkOverdue
  <2>1. UNCHANGED <<currentDate, payment, account, transfer>>
    BY <1>6 DEF P!MarkOverdue
  <2>2. entry' = [e \in ReportedEntry |-> entry'[e]]
    BY <1>6 DEF P!MarkOverdue
  <2>3. ASSUME NEW e \in ReportedEntry
        PROVE  entry'[e] \in EntryRow /\ entry'[e].paid = entry[e].paid /\ entry'[e].amount = entry[e].amount
    <3>1. entry'[e] = entry[e] \/ entry'[e] = [entry[e] EXCEPT !.status = "OVERDUE"]
      BY <1>6 DEF P!MarkOverdue
    <3> QED
      BY <1>0, <3>1 DEF EntryRow, P!Status
  <2>4. entry' \in [ReportedEntry -> EntryRow]
    BY <2>2, <2>3
  <2>5. \A e \in ReportedEntry : entry'[e].paid = PaidFor(payment', e) /\ entry'[e].paid <= entry'[e].amount
    BY <2>1, <2>3 DEF LedgerInv
  <2> QED
    BY <1>0, <2>1, <2>4, <2>5 DEF LedgerInv
<1>7. ASSUME UNCHANGED <<entry, payment>>, currentDate' \in Day, account' \subseteq Account, transfer' = None \/ transfer' \in TransferRow
      PROVE  LedgerInv'
  BY <1>7 DEF LedgerInv
<1>8. ASSUME NEW from \in account, NEW to \in account, NEW amount \in Amount, P!MakeTransfer(from, to, amount) PROVE LedgerInv'
  <2>1. /\ UNCHANGED <<currentDate, entry, payment, account>>
        /\ transfer' = [from |-> from, to |-> to, amount |-> amount]
    BY <1>8 DEF P!MakeTransfer
  <2>2. transfer' \in TransferRow
    BY <1>0, <2>1 DEF TransferRow
  <2> QED
    BY <1>0, <1>7, <2>1, <2>2
<1>9. ASSUME NEW a \in account, P!CloseAccount(a) PROVE LedgerInv'
  BY <1>0, <1>7, <1>9 DEF P!CloseAccount
<1>10. CASE P!NextDay
  BY <1>0, <1>7, <1>10 DEF P!NextDay
<1> QED
  BY <1>2, <1>3, <1>4, <1>5, <1>6, <1>8, <1>9, <1>10 DEF P!Ledger

LEMMA WatchStep ==
  ASSUME ReportsInv, LedgerInv', P!Watch, UNCHANGED report
  PROVE  ReportsInv'
<1>1. CASE request = None \/ request.at = "opening" \/ request.at = "store"
  <2>1. request' = request
    BY <1>1 DEF P!Watch
  <2> QED
    BY <1>1, <2>1 DEF ReportsInv, RequestInv, P!At
<1>2. CASE ~(request = None \/ request.at = "opening" \/ request.at = "store")
  <2> PICK b : b = P!BooksAtClose'
    OBVIOUS
  <2> PICK o : o = P!Opening'
    OBVIOUS
  <2> PICK a : a = P!Actual'
    OBVIOUS
  <2> PICK opened \in BOOLEAN : opened = (request.opened \/ o # P!Opening)
    OBVIOUS
  <2> PICK shifted \in BOOLEAN : shifted = (request.moved \/ a # P!Actual)
    OBVIOUS
  <2> PICK books : books = request.books \cup {b}
    OBVIOUS
  <2>0. request # None /\ request \in P!RequestState /\ (P!At("forecast") \/ P!At("actual"))
    BY <1>2 DEF ReportsInv, RequestInv, P!At, P!RequestState
  <2>1. request' = [request EXCEPT !.books = books, !.opened = opened, !.moved = shifted]
    BY <1>2 DEF P!Watch
  <2>2. o \in Int /\ a \in Int /\ b = o + a
    BY BooksCloseLater DEF BooksAddUp
  <2>3. request' \in P!RequestState
    <3>1. books \subseteq Int
      BY <2>0, <2>2 DEF P!RequestState
    <3> QED
      BY <2>0, <2>1, <3>1 DEF P!RequestState
  <2>4. /\ request'.books = books /\ request'.opened = opened /\ request'.moved = shifted
        /\ request'.opening = request.opening /\ request'.at = request.at
    BY <2>0, <2>1 DEF P!RequestState
  <2>5. /\ P!BooksAtClose \in request.books /\ (~request.opened => request.opening = P!Opening)
        /\ (~request.moved => request.opening + P!Actual \in request.books)
    BY <2>0 DEF ReportsInv, RequestInv
  <2>6. b \in books /\ (~opened => request.opening = o) /\ (~shifted => request.opening + a \in books)
    BY <2>5
  <2> QED
    BY <2>3, <2>4, <2>6 DEF ReportsInv, RequestInv
<1> QED
  BY <1>1, <1>2

\* The ledger is the same after a step that leaves it alone, and so are its figures.
LEMMA SameBooks ==
  ASSUME UNCHANGED <<currentDate, entry, payment, account, transfer>>
  PROVE  P!Opening' = P!Opening /\ P!Actual' = P!Actual /\ P!BooksAtClose' = P!BooksAtClose
BY DEF P!Opening, P!Actual, P!BooksAtClose, P!CurrentBalance, P!PaidNet, P!Paid, P!PaymentsOf, P!Live, P!InPeriod, P!Transferred

LEMMA ReportsStep ==
  ASSUME ReportsInv, [P!Next]_reportVars
  PROVE  ReportsInv'
<1>0. LedgerInv /\ RequestInv /\ report \in P!Reports
  BY DEF ReportsInv
<1>1. ASSUME UNCHANGED <<currentDate, entry, payment, account, transfer, report>>, RequestInv' PROVE ReportsInv'
  BY <1>0, <1>1 DEF ReportsInv, LedgerInv
<1>2. ASSUME UNCHANGED <<currentDate, entry, payment, account, transfer, report, request>> PROVE ReportsInv'
  BY <1>0, <1>1, <1>2, SameBooks DEF RequestInv, P!At
<1>3. CASE P!Compute \/ P!Expire
  BY <1>2, <1>3 DEF P!Compute, P!Expire, P!ledger
<1>4. CASE P!AskCashflow
  <2>1. UNCHANGED <<currentDate, entry, payment, account, transfer, report>>
    BY <1>4 DEF P!AskCashflow, P!ledger
  <2>2. request' = [at |-> "opening", opening |-> 0, actual |-> 0, books |-> {}, opened |-> FALSE, moved |-> FALSE]
    BY <1>4 DEF P!AskCashflow
  <2>3. request' \in P!RequestState /\ request'.at = "opening"
    BY <2>2 DEF P!RequestState
  <2> QED
    BY <1>1, <2>1, <2>3 DEF RequestInv, P!At
<1>5. CASE P!ReadOpening
  <2> PICK o : o = P!Opening
    OBVIOUS
  <2> PICK books : books = {P!BooksAtClose}
    OBVIOUS
  <2>1. UNCHANGED <<currentDate, entry, payment, account, transfer, report>> /\ request \in P!RequestState
        /\ request' = [request EXCEPT !.at = "forecast", !.opening = o, !.books = books]
    BY <1>0, <1>5 DEF P!ReadOpening, P!ledger, P!At, RequestInv
  <2>2. o \in Int /\ P!BooksAtClose \in Int /\ P!BooksAtClose = o + P!Actual
    BY <1>0, BooksClose DEF BooksAddUp
  <2>3. request' \in P!RequestState
    BY <2>1, <2>2 DEF P!RequestState
  <2>4. request'.opening = o /\ request'.books = books
    BY <2>1 DEF P!RequestState
  <2> QED
    BY <1>1, <2>1, <2>2, <2>3, <2>4, SameBooks DEF RequestInv
<1>6. CASE P!ReadForecast
  <2>1. UNCHANGED <<currentDate, entry, payment, account, transfer, report>> /\ request \in P!RequestState
        /\ P!At("forecast") /\ request' = [request EXCEPT !.at = "actual"]
    BY <1>0, <1>6 DEF P!ReadForecast, P!ledger, P!At, RequestInv
  <2>2. request' \in P!RequestState
    BY <2>1 DEF P!RequestState
  <2>3. /\ request'.opening = request.opening /\ request'.books = request.books
        /\ request'.opened = request.opened /\ request'.moved = request.moved
    BY <2>1 DEF P!RequestState
  <2>4. /\ P!BooksAtClose \in request.books /\ (~request.opened => request.opening = P!Opening)
        /\ (~request.moved => request.opening + P!Actual \in request.books)
    BY <1>0, <2>1 DEF RequestInv
  <2> QED
    BY <1>1, <2>1, <2>2, <2>3, <2>4, SameBooks DEF RequestInv
<1>7. CASE P!ReadActual
  <2> PICK a : a = P!Actual
    OBVIOUS
  <2>1. UNCHANGED <<currentDate, entry, payment, account, transfer, report>> /\ request \in P!RequestState
        /\ request' = [request EXCEPT !.at = "store", !.actual = a, !.books = {}, !.opened = FALSE, !.moved = FALSE]
    BY <1>0, <1>7 DEF P!ReadActual, P!ledger, P!At, RequestInv
  <2>2. a \in Int
    BY <1>0, BooksClose DEF BooksAddUp
  <2>3. request' \in P!RequestState
    BY <2>1, <2>2 DEF P!RequestState
  <2>4. request'.at = "store"
    BY <2>1 DEF P!RequestState
  <2> QED
    BY <1>1, <2>1, <2>3, <2>4 DEF RequestInv, P!At
<1>8. CASE P!StoreCashflow
  BY <1>1, <1>8 DEF P!StoreCashflow, P!ledger, RequestInv, P!At
<1>9. CASE P!Ledger /\ P!Watch /\ UNCHANGED <<report, cache>>
  BY <1>0, <1>9, LedgerStep, WatchStep
<1>10. CASE UNCHANGED reportVars
  BY <1>2, <1>10 DEF reportVars
<1> QED
  BY <1>3, <1>4, <1>5, <1>6, <1>7, <1>8, <1>9, <1>10 DEF P!Next

-----------------------------------------------------------------------------
(* The components beside each other *)

\* A step is a step of the component the behaviour is about, and leaves the others alone.
LEMMA FocusedStep ==
  ASSUME [MCNext]_allVars
  PROVE  /\ [Next]_vars /\ [W!Next]_switchVars /\ [G!Next]_boletoVars /\ [M!Next]_reconciliationVars
         /\ [A!Next]_attachmentVars /\ [H!Next]_categoryVars /\ [R!Next]_recurrenceVars /\ [L!Next]_listVars
         /\ [F!Next]_failureVars /\ [U!UsersNext]_usersVars /\ [D!Next]_periodsVars /\ [Q!Next]_rulesVars
         /\ [P!Next]_reportVars
<1>1. CASE MCNext
  <2>1. [Next]_vars
    BY <1>1 DEF MCNext
  <2>2. [W!Next]_switchVars
    BY <1>1 DEF MCNext
  <2>3. [G!Next]_boletoVars
    BY <1>1 DEF MCNext
  <2>4. [M!Next]_reconciliationVars
    BY <1>1 DEF MCNext
  <2>5. [A!Next]_attachmentVars
    BY <1>1 DEF MCNext
  <2>6. [H!Next]_categoryVars
    BY <1>1 DEF MCNext
  <2>7. [R!Next]_recurrenceVars
    BY <1>1 DEF MCNext
  <2>8. [L!Next]_listVars
    BY <1>1 DEF MCNext
  <2>9. [F!Next]_failureVars
    BY <1>1 DEF MCNext
  <2>10. [U!UsersNext]_usersVars
    BY <1>1 DEF MCNext
  <2>11. [D!Next]_periodsVars
    BY <1>1 DEF MCNext
  <2>12. [Q!Next]_rulesVars
    BY <1>1 DEF MCNext
  <2>13. [P!Next]_reportVars
    BY <1>1 DEF MCNext
  <2> QED
    BY <2>1, <2>2, <2>3, <2>4, <2>5, <2>6, <2>7, <2>8, <2>9, <2>10, <2>11, <2>12, <2>13
<1>2. CASE UNCHANGED allVars
  BY <1>2 DEF allVars
<1> QED
  BY <1>1, <1>2

LEMMA TenancyInductive == MCSpec => []TenancyInv
<1>1. MCInit => TenancyInv
  BY TenancyInit DEF MCInit
<1>2. TenancyInv /\ [MCNext]_allVars => TenancyInv'
  BY TenancyStep, FocusedStep
<1> QED
  BY <1>1, <1>2, PTL DEF MCSpec

LEMMA SwitchInductive == MCSpec => []SwitchInv
<1>1. MCInit => SwitchInv
  BY SwitchInit DEF MCInit
<1>2. SwitchInv /\ [MCNext]_allVars => SwitchInv'
  BY SwitchStep, FocusedStep
<1> QED
  BY <1>1, <1>2, PTL DEF MCSpec

LEMMA BoletoInductive == MCSpec => []BoletoInv
<1>1. MCInit => BoletoInv
  BY BoletoInit DEF MCInit
<1>2. BoletoInv /\ [MCNext]_allVars => BoletoInv'
  BY BoletoStep, FocusedStep
<1> QED
  BY <1>1, <1>2, PTL DEF MCSpec

LEMMA ReconciliationInductive == MCSpec => []ReconciliationInv
<1>1. MCInit => ReconciliationInv
  BY ReconciliationInit DEF MCInit
<1>2. ReconciliationInv /\ [MCNext]_allVars => ReconciliationInv'
  BY ReconciliationStep, FocusedStep
<1> QED
  BY <1>1, <1>2, PTL DEF MCSpec

LEMMA AttachmentInductive == MCSpec => []AttachmentInv
<1>1. MCInit => AttachmentInv
  BY AttachmentInit DEF MCInit
<1>2. AttachmentInv /\ [MCNext]_allVars => AttachmentInv'
  BY AttachmentStep, FocusedStep
<1> QED
  BY <1>1, <1>2, PTL DEF MCSpec

LEMMA CategoryInductive == MCSpec => []CategoryInv
<1>1. MCInit => CategoryInv
  BY CategoryInit DEF MCInit
<1>2. CategoryInv /\ [MCNext]_allVars => CategoryInv'
  BY CategoryStep, FocusedStep
<1> QED
  BY <1>1, <1>2, PTL DEF MCSpec

LEMMA RecurrenceInductive == MCSpec => []RecurrenceInv
<1>1. MCInit => RecurrenceInv
  BY RecurrenceInit DEF MCInit
<1>2. RecurrenceInv /\ [MCNext]_allVars => RecurrenceInv'
  BY RecurrenceStep, FocusedStep
<1> QED
  BY <1>1, <1>2, PTL DEF MCSpec

LEMMA ListInductive == MCSpec => []ListInv
<1>1. MCInit => ListInv
  BY ListInit DEF MCInit
<1>2. ListInv /\ [MCNext]_allVars => ListInv'
  BY ListStep, FocusedStep
<1> QED
  BY <1>1, <1>2, PTL DEF MCSpec

LEMMA FailureInductive == MCSpec => []FailureInv
<1>1. MCInit => FailureInv
  BY FailureInit DEF MCInit
<1>2. FailureInv /\ [MCNext]_allVars => FailureInv'
  BY FailureStep, FocusedStep
<1> QED
  BY <1>1, <1>2, PTL DEF MCSpec

LEMMA UsersInductive == MCSpec => []UsersInv
<1>1. MCInit => UsersInv
  BY UsersInit DEF MCInit
<1>2. UsersInv /\ [MCNext]_allVars => UsersInv'
  BY UsersStep, FocusedStep
<1> QED
  BY <1>1, <1>2, PTL DEF MCSpec

LEMMA PeriodsInductive == MCSpec => []PeriodsInv
<1>1. MCInit => PeriodsInv
  BY PeriodsInit DEF MCInit
<1>2. PeriodsInv /\ [MCNext]_allVars => PeriodsInv'
  BY PeriodsStep, FocusedStep
<1> QED
  BY <1>1, <1>2, PTL DEF MCSpec

LEMMA ReportsInductive == MCSpec => []ReportsInv
<1>1. MCInit => ReportsInv
  BY ReportsInit DEF MCInit
<1>2. ReportsInv /\ [MCNext]_allVars => ReportsInv'
  BY ReportsStep, FocusedStep
<1> QED
  BY <1>1, <1>2, PTL DEF MCSpec

LEMMA RulesInductive == MCSpec => []RulesInv
<1>1. MCInit => RulesInv
  BY RulesInit DEF MCInit
<1>2. RulesInv /\ [MCNext]_allVars => RulesInv'
  BY RulesStep, FocusedStep
<1> QED
  BY <1>1, <1>2, PTL DEF MCSpec

\* However many users match an item at once, one match is announced for it, with the
\* entry it holds (ReconciliationRepository.matchItem).
THEOREM MatchesAnnounced == MCSpec => []MatchAnnouncedOnce
<1>1. ReconciliationInv => MatchAnnouncedOnce
  BY ReconciliationInvImplies DEF MatchAnnouncedOnce
<1> QED
  BY <1>1, ReconciliationInductive, PTL

\* A row of a boleto that says CANCELED or PAID tells what became of it at the gateway,
\* whatever users and webhooks do meanwhile (BoletosService).
THEOREM RowsTell == MCSpec => []RowTellsTheGateway
<1>1. BoletoInv => RowTellsTheGateway
  BY BoletoInvImplies DEF RowTellsTheGateway
<1> QED
  BY <1>1, BoletoInductive, PTL

\* The walk towards the root keeps any number of categories free of cycles, as long as
\* no update overtakes another (CategoriesService.ensureNoHierarchyCycle).
THEOREM NoCycles == MCSpec => []NoCycleUnlessRaced
<1>1. CategoryInv => NoCycleUnlessRaced
  BY CategoryInvImplies DEF NoCycleUnlessRaced
<1> QED
  BY <1>1, CategoryInductive, PTL

\* No migration is recorded that a tenant's schema lacks, however the runs of any number
\* of programs overlap and stop, and a cached tenant leads to the stored schema
\* (MigrationRunnerService, TenantGuard).
THEOREM TenantsSound == MCSpec => []TenantsStaySound
<1>1. TenancyInv => TenantsStaySound
  BY DEF TenancyInv, TenantsStaySound
<1> QED
  BY <1>1, TenancyInductive, PTL

\* Any number of tabs show and file the data of the branch they are in, wait out a block,
\* keep what was ticked for a user, show the periods that were closed and create a rule
\* once, save where the modules say why not (ApiClient, BranchProvider, UsuariosView,
\* LockPeriodForm, LockPeriodGuard, ApprovalRulesManager).
THEOREM ClientSound == MCSpec => []ClientStaysSound
<1>1. SwitchInv /\ FailureInv /\ UsersInv /\ PeriodsInv /\ RulesInv => ClientStaysSound
  <2>1. SwitchInv => W!MisfiledOnlyAcrossTabs
    BY SwitchInvImplies
  <2>2. FailureInv => F!WaitsOutTheBlock
    BY FailureInvImplies
  <2>3. UsersInv => U!TicksAreKept
    BY DEF UsersInv
  <2> QED
    BY <2>1, <2>2, <2>3, PeriodsInvImplies, RulesInvImplies DEF ClientStaysSound
<1> QED
  BY <1>1, SwitchInductive, FailureInductive, UsersInductive, PeriodsInductive, RulesInductive, PTL

\* A tenant is charged the bytes of its attachments, whatever uploads and deletions
\* overlap; less only after two deletions of one attachment did
\* (AttachmentsRepository.softDeleteAttachment).
THEOREM Charged == MCSpec => []ChargedForWhatIsAttached
<1>1. AttachmentInv => ChargedForWhatIsAttached
  BY DEF AttachmentInv, ChargedForWhatIsAttached
<1> QED
  BY <1>1, AttachmentInductive, PTL

\* Overlapping, failing and repeated runs of the recurrence job make each occurrence of
\* any number of recurrences once (RecurrenceProcessor).
THEOREM OccurrencesOnce == MCSpec => []EachOccurrenceOnce
<1>1. RecurrenceInv => EachOccurrenceOnce
  BY DEF RecurrenceInv, EachOccurrenceOnce
<1> QED
  BY <1>1, RecurrenceInductive, PTL

\* A settled list of notifications shows what the user did and the API confirmed, however
\* fetches and mutations overlap (useNotifications).
THEOREM DeedsShown == MCSpec => []DeedsAreShown
<1>1. ListInv => DeedsAreShown
  BY ListInvImplies DEF DeedsAreShown
<1> QED
  BY <1>1, ListInductive, PTL

\* Cash flow, DRE, balance sheet, aging and dashboard tell one story of any ledger, with any
\* number of entries, payments, accounts and days (ReportsRepository, DashboardRepository).
THEOREM OneStory == MCSpec => []ReportsAgree
<1>1. ReportsInv => ReportsAgree
  BY ReportsInvImplies DEF ReportsAgree
<1> QED
  BY <1>1, ReportsInductive, PTL

Focused ==
  focus \in {"tenancy", "switch", "boletos", "reconciliation", "attachments", "categories", "recurrences", "list",
            "reports", "failures", "users", "periods", "rules"}

\* Every row, request, cache entry and cookie holds a value of its type, whatever component runs.
THEOREM RecordsTypesOK == MCSpec => []TypesOK
<1>1. MCSpec => []Focused
  <2>1. MCInit => Focused
    BY DEF MCInit, Focused
  <2>2. Focused /\ [MCNext]_allVars => Focused'
    BY DEF Focused, MCNext, allVars
  <2> QED
    BY <2>1, <2>2, PTL DEF MCSpec
<1>2. /\ TenancyInv => TypeOK
      /\ SwitchInv => W!TypeOK
      /\ BoletoInv => G!TypeOK
      /\ ReconciliationInv => M!TypeOK
      /\ AttachmentInv => A!TypeOK
      /\ CategoryInv => H!TypeOK
      /\ RecurrenceInv => R!TypeOK
      /\ ListInv => L!TypeOK
      /\ FailureInv => F!TypeOK
      /\ UsersInv => U!UsersTypeOK
      /\ PeriodsInv => D!TypeOK
      /\ RulesInv => Q!TypeOK
  BY DEF TenancyInv, SwitchInv, BoletoInv, ReconciliationInv, AttachmentInv, CategoryInv, RecurrenceInv, ListInv, FailureInv,
         UsersInv, PeriodsInv, RulesInv
<1>3. /\ Focused
      /\ TenancyInv /\ SwitchInv /\ BoletoInv /\ ReconciliationInv /\ AttachmentInv /\ CategoryInv /\ RecurrenceInv
      /\ ListInv /\ FailureInv /\ UsersInv /\ PeriodsInv /\ RulesInv /\ ReportsInv
      => TypesOK
  BY <1>2, ReportsInvImplies DEF TypesOK, Focused
<1> QED
  BY <1>1, <1>3, TenancyInductive, SwitchInductive, BoletoInductive, ReconciliationInductive, AttachmentInductive,
     CategoryInductive, RecurrenceInductive, ListInductive, FailureInductive, UsersInductive, PeriodsInductive,
     RulesInductive, ReportsInductive, PTL
===============================================================================
