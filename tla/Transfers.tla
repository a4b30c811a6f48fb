------------------------------ MODULE Transfers ------------------------------
(***************************************************************************)
(* Transfers between the bank accounts of one branch.                      *)
(*                                                                         *)
(* The balance of an account is not stored: the statement that locks the   *)
(* account's row (SELECT ... FOR UPDATE OF ba) computes it in subqueries.  *)
(* At READ COMMITTED those read the snapshot taken when the statement      *)
(* starts, before it may have to wait for the lock; after the wait only    *)
(* the locked row is read again.  The row lock is therefore granted in an  *)
(* action of its own, after the one that takes the snapshot.               *)
(*                                                                         *)
(* The audit row and the outbox row of a transfer are left out: the same   *)
(* transaction commits them, and nothing here reads them.                  *)
(***************************************************************************)
EXTENDS Money, Integers

CONSTANTS
  Account,         \* ids of the rows of bank_accounts, all of one branch
  TransferId,      \* ids of the rows of financial_transfers
  Worker,          \* HTTP requests in flight
  Amount,          \* amounts, in cents, of transfers and of settled entries
  InitialBalance,  \* values of initial_balance that creations and edits carry
  MaxAmount,       \* most cents that one transfer may carry
  MaxInitial,      \* most cents that initial_balance may hold
  MaxSettled       \* bound: most cents that entries bring or take per account

ASSUME TransferAmountAssumption == MaxAmount \in Nat /\ Amount \subseteq 1 .. MaxAmount
ASSUME TransferBalanceAssumption ==
  MaxInitial \in Nat /\ InitialBalance \subseteq 0 .. MaxInitial /\ MaxSettled \in Nat
ASSUME WorkerAssumption == IsFiniteSet(Worker) /\ Worker # {}

VARIABLES
  accounts,   \* bank_accounts: initial_balance and active
  transfers,  \* financial_transfers
  deleted,    \* ids of the transfers whose deleted_at is set
  settled,    \* cents that entries brought to and took from each account
  req         \* what each request in flight has read and still has to do

vars == <<accounts, transfers, deleted, settled, req>>

-----------------------------------------------------------------------------
AccountRow == [initial : InitialBalance, active : BOOLEAN]
Transfer == {t \in [id : TransferId, from : Account, to : Account, amount : Amount] :
               t.from # t.to}

\* The stages of a request: the checks are done; the balance statement has its
\* snapshot and wants the row lock; it has the lock; the row is inserted.
CreateRequest == {r \in [stage : {"CHECKED", "WAITING", "LOCKED", "INSERTED"},
                        from : Account, to : Account, amount : Amount, flow : Int] :
                    r.from # r.to}
DeleteRequest == [stage : {"DELETING"}, id : TransferId]
Idle == [stage |-> "IDLE"]

Init ==
  /\ accounts \in [Account -> [initial : InitialBalance, active : {TRUE}]]
  /\ transfers = {}
  /\ deleted = {}
  /\ settled = [a \in Account |-> [credits |-> 0, debits |-> 0]]
  /\ req = [w \in Worker |-> Idle]

LiveTransfers == {t \in transfers : t.id \notin deleted}

\* The four subqueries of getAccountBalanceForUpdate.
Flow(a) == settled[a].credits - settled[a].debits
             + SumAmount({t \in LiveTransfers : t.to = a})
             - SumAmount({t \in LiveTransfers : t.from = a})

Balance(a) == accounts[a].initial + Flow(a)

Creating(w) == req[w].stage \in {"CHECKED", "WAITING", "LOCKED", "INSERTED"}

\* Row locks on bank_accounts, held until the end of the transaction: FOR UPDATE
\* on the source, and the FOR KEY SHARE that the foreign key of to_account_id takes.
UpdateLocks(a) == {w \in Worker : req[w].stage \in {"LOCKED", "INSERTED"} /\ req[w].from = a}
KeyLocks(a) == {w \in Worker : req[w].stage = "INSERTED" /\ req[w].to = a}

Finish(w) == req' = [req EXCEPT ![w] = Idle]

-----------------------------------------------------------------------------
\* Mutant of Eligible: TRANSFER_SAME_ACCOUNT is never raised.
EligibleSame(from, to) == accounts[from].active /\ accounts[to].active

\* Two different accounts, both active when they are looked up.
Eligible(from, to) == from # to /\ accounts[from].active /\ accounts[to].active

\* TransfersService.create up to the transaction.  A lock period or an account
\* that fails a check ends the request without an effect.  The second conjunct is
\* the bound of TransferId: every creation in flight finds one left.
CreateCheck(w) ==
  /\ req[w] = Idle
  /\ Cardinality(transfers) + Cardinality({v \in Worker : Creating(v)}) < Cardinality(TransferId)
  /\ \E from, to \in Account, amount \in Amount :
       /\ Eligible(from, to)
       /\ req' = [req EXCEPT ![w] = [stage |-> "CHECKED", from |-> from, to |-> to,
                                     amount |-> amount, flow |-> 0]]
  /\ UNCHANGED <<accounts, transfers, deleted, settled>>

\* The balance statement starts: its snapshot is taken, nothing is locked yet.
\* Without an active account it finds no row (BANK_ACCOUNT_NOT_FOUND).
TakeSnapshot(w) ==
  /\ req[w].stage = "CHECKED"
  /\ IF accounts[req[w].from].active
       THEN req' = [req EXCEPT ![w].stage = "WAITING", ![w].flow = Flow(req[w].from)]
       ELSE Finish(w)
  /\ UNCHANGED <<accounts, transfers, deleted, settled>>

\* What FOR UPDATE waits for.
Locked(a) == UpdateLocks(a) \cup KeyLocks(a) # {}

\* Mutant of Sufficient: nobody looks whether the account was deleted meanwhile.
SufficientAnyAccount(w) == accounts[req[w].from].initial + req[w].flow >= req[w].amount

\* Mutant of Sufficient: a balance that is not negative is enough.
SufficientPositive(w) ==
  accounts[req[w].from].active /\ accounts[req[w].from].initial + req[w].flow >= 0

\* available.lt(requested) is false.  The row is read again under its lock, so
\* active and initial_balance are current; the flow is still the snapshot's.
Sufficient(w) ==
  /\ accounts[req[w].from].active
  /\ accounts[req[w].from].initial + req[w].flow >= req[w].amount

\* The row lock is granted.  PAYMENT_INSUFFICIENT_BALANCE and
\* BANK_ACCOUNT_NOT_FOUND roll the transaction back.
LockGranted(w) ==
  /\ req[w].stage = "WAITING"
  /\ ~Locked(req[w].from)
  /\ IF Sufficient(w) THEN req' = [req EXCEPT ![w].stage = "LOCKED"] ELSE Finish(w)
  /\ UNCHANGED <<accounts, transfers, deleted, settled>>

\* INSERT INTO financial_transfers: the foreign key waits for whoever holds the
\* destination FOR UPDATE.  The row is seen by others from the commit on.
Insert(w) ==
  /\ req[w].stage = "LOCKED"
  /\ UpdateLocks(req[w].to) \ {w} = {}
  /\ req' = [req EXCEPT ![w].stage = "INSERTED"]
  /\ UNCHANGED <<accounts, transfers, deleted, settled>>

CreateCommit(w) ==
  /\ req[w].stage = "INSERTED"
  /\ \E id \in TransferId \ {t.id : t \in transfers} :
       transfers' = transfers \cup {[id |-> id, from |-> req[w].from, to |-> req[w].to,
                                     amount |-> req[w].amount]}
  /\ Finish(w)
  /\ UNCHANGED <<accounts, deleted, settled>>

-----------------------------------------------------------------------------
\* TransfersService.softDelete: findById, then a transaction that locks no account.
DeleteCheck(w) ==
  /\ req[w] = Idle
  /\ \E t \in LiveTransfers : req' = [req EXCEPT ![w] = [stage |-> "DELETING", id |-> t.id]]
  /\ UNCHANGED <<accounts, transfers, deleted, settled>>

DeleteCommit(w) ==
  /\ req[w].stage = "DELETING"
  /\ deleted' = deleted \cup {req[w].id}
  /\ Finish(w)
  /\ UNCHANGED <<accounts, transfers, settled>>

\* The transaction ends without an effect: a crash, a lost connection, a failing
\* statement, lock_timeout, or the victim of PostgreSQL's deadlock detection.
Abandon(w) ==
  /\ req[w] # Idle
  /\ Finish(w)
  /\ UNCHANGED <<accounts, transfers, deleted, settled>>

\* Mutant of Waiting: lock_timeout does not cover the wait of a foreign key.
WaitingForUpdate(w) == req[w].stage = "WAITING" /\ Locked(req[w].from)

\* A statement that cannot go on because another transaction holds its row.
Waiting(w) ==
  \/ req[w].stage = "WAITING" /\ Locked(req[w].from)
  \/ req[w].stage = "LOCKED" /\ UpdateLocks(req[w].to) \ {w} # {}

\* lock_timeout of the pool: the wait ends, and the transaction with it.
LockTimeout(w) ==
  /\ Waiting(w)
  /\ Finish(w)
  /\ UNCHANGED <<accounts, transfers, deleted, settled>>

-----------------------------------------------------------------------------
\* Mutant of EditInitialBalance: the balance statement takes no row lock.
EditUnlocked(a) ==
  /\ accounts[a].active
  /\ \E b \in InitialBalance : accounts' = [accounts EXCEPT ![a].initial = b]
  /\ UNCHANGED <<transfers, deleted, settled, req>>

\* PUT and DELETE /bank-accounts/:id are one UPDATE of a column that no key holds:
\* it waits for FOR UPDATE only.
EditInitialBalance(a) ==
  /\ accounts[a].active /\ UpdateLocks(a) = {}
  /\ \E b \in InitialBalance : accounts' = [accounts EXCEPT ![a].initial = b]
  /\ UNCHANGED <<transfers, deleted, settled, req>>

CloseAccount(a) ==
  /\ accounts[a].active /\ UpdateLocks(a) = {}
  /\ accounts' = [accounts EXCEPT ![a].active = FALSE]
  /\ UNCHANGED <<transfers, deleted, settled, req>>

\* An entry of the account is settled, refunded, deleted or restored: the payments
\* of PAID entries count, and none of these operations locks the account.
Settle(a) ==
  /\ \E n \in Amount, side \in {"credits", "debits"} :
       /\ settled[a][side] + n <= MaxSettled
       /\ settled' = [settled EXCEPT ![a][side] = @ + n]
  /\ UNCHANGED <<accounts, transfers, deleted, req>>

\* What the request's own process and the database do without anyone's wish.
Proceed(w) ==
  \/ TakeSnapshot(w) \/ LockGranted(w) \/ Insert(w) \/ CreateCommit(w)
  \/ DeleteCommit(w) \/ LockTimeout(w)

Next ==
  \/ \E w \in Worker : CreateCheck(w) \/ DeleteCheck(w) \/ Abandon(w) \/ Proceed(w)
  \/ \E a \in Account : EditInitialBalance(a) \/ CloseAccount(a) \/ Settle(a)

Spec == Init /\ [][Next]_vars
FairSpec == Spec /\ \A w \in Worker : WF_vars(Proceed(w))

-----------------------------------------------------------------------------
TypeOK ==
  /\ accounts \in [Account -> AccountRow]
  /\ transfers \subseteq Transfer
  /\ deleted \subseteq TransferId
  /\ settled \in [Account -> [credits : 0 .. MaxSettled, debits : 0 .. MaxSettled]]
  /\ req \in [Worker -> CreateRequest \cup DeleteRequest \cup {Idle}]

Sends(w, a) == CreateCommit(w) /\ req[w].from = a

\* A transfer overdraws its account only when the flow it compared with was stale
\* at the commit: the lock keeps initial_balance and other transfers of the
\* account away from the moment it is granted.
OnlyStaleOverdraws ==
  [][\A w \in Worker, a \in Account :
       Sends(w, a) /\ req[w].flow = Flow(a) => Balance(a)' >= 0]_vars

\* The most account a could ever have spent, less what it did: neither debits of
\* entries nor deleted credits nor edits of initial_balance lower it.
Headroom(a) ==
  MaxInitial + settled[a].credits
    + SumAmount({t \in transfers : t.to = a}) - SumAmount({t \in LiveTransfers : t.from = a})

\* However requests race, an account sends at most one largest transfer per
\* request but one more than it could ever have had.
ExposureBounded ==
  \A a \in Account :
    Headroom(a) + (Cardinality(Worker) - 1) * MaxAmount >= 0

\* An account that was deleted while a transfer was on its way sends nothing.
DeletedSendNothing ==
  [][\A w \in Worker, a \in Account : Sends(w, a) => accounts[a].active]_vars

\* Opposite transfers wait for each other's row; still every request ends.
TransfersEnd == \A w \in Worker : req[w] # Idle ~> req[w] = Idle

\* The balance is validated in the transaction and under the lock of the account
\* (README): no transfer leaves its source overdrawn.
NoOverdraft ==
  [][\A w \in Worker, a \in Account : Sends(w, a) => Balance(a)' >= 0]_vars
==============================================================================
