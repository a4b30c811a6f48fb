--------------------------- MODULE TransfersProofs ---------------------------
(***************************************************************************)
(* Proofs about Transfers.  First what concerns single requests: types,    *)
(* and that the lock keeps the source account active.  Then how far        *)
(* requests that race can overdraw an account together.                    *)
(***************************************************************************)
EXTENDS Transfers, MoneyTheorems

Request == CreateRequest \cup DeleteRequest \cup {Idle}

\* What the balance check saw of the account's row stays true under its lock.
LockKeepsCheck ==
  \A w \in Worker : req[w].stage \in {"LOCKED", "INSERTED"} => Sufficient(w)

Inv == TypeOK /\ IsFiniteSet(transfers) /\ LockKeepsCheck

-----------------------------------------------------------------------------
\* What a transfer carries is an amount.
LEMMA TransferAmount ==
  /\ \A t \in Transfer : t.amount \in Nat /\ t.amount <= MaxAmount
  /\ \A r \in CreateRequest : r.amount \in Nat /\ r.amount <= MaxAmount
<1>1. \A n \in Amount : n \in Nat /\ n <= MaxAmount
  BY TransferAmountAssumption
<1>2. \A t \in Transfer : t.amount \in Amount
  BY DEF Transfer
<1>3. \A r \in CreateRequest : r.amount \in Amount
  BY DEF CreateRequest
<1> QED
  BY <1>1, <1>2, <1>3

\* Sums of transfers, and so flows, are integers.
LEMMA FlowType ==
  ASSUME TypeOK, IsFiniteSet(transfers), NEW a \in Account
  PROVE  /\ SumAmount({t \in transfers : t.to = a}) \in Nat
         /\ SumAmount({t \in LiveTransfers : t.to = a}) \in Nat
         /\ SumAmount({t \in LiveTransfers : t.to = a}) <= SumAmount({t \in transfers : t.to = a})
         /\ SumAmount({t \in LiveTransfers : t.from = a}) \in Nat
         /\ settled[a].credits \in Nat /\ settled[a].debits \in Nat
         /\ Flow(a) \in Int
<1> DEFINE In == {t \in transfers : t.to = a}
           LiveIn == {t \in LiveTransfers : t.to = a}
           LiveOut == {t \in LiveTransfers : t.from = a}
<1>1. \A t \in transfers : t.amount \in Nat
  BY TransferAmount DEF TypeOK
<1>2. In \subseteq transfers /\ LiveIn \subseteq In /\ LiveOut \subseteq transfers
  BY DEF LiveTransfers
<1>3. IsFiniteSet(In) /\ IsFiniteSet(LiveOut)
  BY <1>2, FS_Subset
<1>4. SumAmount(LiveIn) \in Nat /\ SumAmount(In) \in Nat /\ SumAmount(LiveIn) <= SumAmount(In)
  BY <1>1, <1>2, <1>3, SumAmountMonotone
<1>5. SumAmount(LiveOut) \in Nat
  BY <1>1, <1>2, <1>3, SumAmountType
<1>6. settled[a].credits \in Nat /\ settled[a].debits \in Nat
  BY TransferBalanceAssumption DEF TypeOK
<1> QED
  BY <1>4, <1>5, <1>6 DEF Flow

\* A step that changes one request, to a request, keeps the types.
LEMMA RequestStep ==
  ASSUME TypeOK, NEW w \in Worker, NEW r \in Request, req' = [req EXCEPT ![w] = r],
         UNCHANGED <<accounts, settled>>, transfers' \subseteq Transfer, deleted' \subseteq TransferId
  PROVE  TypeOK'
BY DEF TypeOK, Request

\* A worker without a request is idle.
LEMMA IdleRequest == Idle \in Request /\ Idle.stage = "IDLE"
BY DEF Request, Idle

\* A request with a stage of a transfer is a request for a transfer.
LEMMA CreatingRequest ==
  ASSUME TypeOK, NEW w \in Worker,
         req[w].stage \in {"CHECKED", "WAITING", "LOCKED", "INSERTED"}
  PROVE  req[w] \in CreateRequest
BY DEF TypeOK, CreateRequest, DeleteRequest, Idle

\* The invariant survives whatever request a step puts in the place of another.
LEMMA RequestKeepsInv ==
  ASSUME Inv, NEW w \in Worker, NEW r \in Request, req' = [req EXCEPT ![w] = r],
         r.stage \in {"LOCKED", "INSERTED"}
           => accounts[r.from].active /\ accounts[r.from].initial + r.flow >= r.amount,
         UNCHANGED <<accounts, settled>>,
         transfers' \subseteq Transfer, IsFiniteSet(transfers'), deleted' \subseteq TransferId
  PROVE  Inv'
<1>1. TypeOK'
  BY RequestStep DEF Inv
<1>2. ASSUME NEW v \in Worker, req'[v].stage \in {"LOCKED", "INSERTED"}
      PROVE  Sufficient(v)'
  <2>1. CASE v = w
    <3>1. req'[v] = r
      BY <2>1 DEF Inv, TypeOK
    <3> QED
      BY <1>2, <3>1 DEF Sufficient
  <2>2. CASE v # w
    <3>1. req'[v] = req[v]
      BY <2>2 DEF Inv, TypeOK
    <3> QED
      BY <1>2, <3>1 DEF Inv, LockKeepsCheck, Sufficient
  <2> QED
    BY <2>1, <2>2
<1> QED
  BY <1>1, <1>2 DEF Inv, LockKeepsCheck

\* The invariant survives the end of a request.
LEMMA FinishKeepsInv ==
  ASSUME Inv, NEW w \in Worker, Finish(w), UNCHANGED <<accounts, settled>>,
         transfers' \subseteq Transfer, IsFiniteSet(transfers'), deleted' \subseteq TransferId
  PROVE  Inv'
BY IdleRequest, RequestKeepsInv DEF Finish

-----------------------------------------------------------------------------
\* Every reachable state is typed, and while a request holds its row lock what the
\* balance check saw of the account row is still so.
THEOREM Inductive == Spec => []Inv
<1>1. ASSUME Init PROVE Inv
  <2>1. TypeOK
    <3>1. accounts \in [Account -> AccountRow]
      BY <1>1 DEF Init, AccountRow
    <3>2. [credits |-> 0, debits |-> 0] \in [credits : 0 .. MaxSettled, debits : 0 .. MaxSettled]
      BY TransferBalanceAssumption
    <3>3. req \in [Worker -> CreateRequest \cup DeleteRequest \cup {Idle}]
      BY <1>1 DEF Init
    <3> QED
      BY <1>1, <3>1, <3>2, <3>3 DEF Init, TypeOK
  <2>2. IsFiniteSet(transfers)
    BY <1>1, FS_EmptySet DEF Init
  <2>3. \A w \in Worker : req[w].stage = "IDLE"
    BY <1>1, IdleRequest DEF Init
  <2> QED
    BY <2>1, <2>2, <2>3 DEF Inv, LockKeepsCheck
<1>2. ASSUME Inv, [Next]_vars PROVE Inv'
  <2> USE <1>2
  <2>0. /\ TypeOK /\ transfers \subseteq Transfer /\ IsFiniteSet(transfers)
        /\ deleted \subseteq TransferId
    BY DEF Inv, TypeOK
  <2>1. ASSUME NEW w \in Worker, CreateCheck(w) PROVE Inv'
    <3>1. PICK from, to \in Account, amount \in Amount :
            /\ from # to
            /\ req' = [req EXCEPT ![w] = [stage |-> "CHECKED", from |-> from, to |-> to,
                                       amount |-> amount, flow |-> 0]]
      BY <2>1 DEF CreateCheck, Eligible
    <3>2. [stage |-> "CHECKED", from |-> from, to |-> to, amount |-> amount, flow |-> 0] \in Request
      BY <3>1 DEF Request, CreateRequest
    <3> QED
      BY <2>0, <2>1, <3>1, <3>2, RequestKeepsInv DEF CreateCheck
  <2>2. ASSUME NEW w \in Worker, DeleteCheck(w) PROVE Inv'
    <3>1. PICK t \in transfers : req' = [req EXCEPT ![w] = [stage |-> "DELETING", id |-> t.id]]
      BY <2>2 DEF DeleteCheck, LiveTransfers
    <3>2. t.id \in TransferId
      BY <2>0 DEF Transfer
    <3>3. [stage |-> "DELETING", id |-> t.id] \in Request
      BY <3>2 DEF Request, DeleteRequest
    <3> QED
      BY <2>0, <2>2, <3>1, <3>3, RequestKeepsInv DEF DeleteCheck
  <2>3. ASSUME NEW w \in Worker, Abandon(w) \/ LockTimeout(w) PROVE Inv'
    BY <2>0, <2>3, FinishKeepsInv DEF Abandon, LockTimeout
  <2>4. ASSUME NEW w \in Worker, TakeSnapshot(w) PROVE Inv'
    <3>1. req[w] \in CreateRequest
      BY <2>0, <2>4, CreatingRequest DEF TakeSnapshot
    <3>2. CASE accounts[req[w].from].active
      <4> DEFINE r == [req[w] EXCEPT !.stage = "WAITING", !.flow = Flow(req[w].from)]
      <4>1. req[w].from \in Account
        BY <3>1 DEF CreateRequest
      <4>2. Flow(req[w].from) \in Int
        BY <2>0, <4>1, FlowType
      <4>3. r \in Request /\ r.stage = "WAITING"
        BY <3>1, <4>2 DEF CreateRequest, Request
      <4>4. req' = [req EXCEPT ![w] = r]
        BY <2>0, <2>4, <3>2 DEF TakeSnapshot, TypeOK
      <4> HIDE DEF r
      <4> QED
        BY <2>0, <2>4, <4>3, <4>4, RequestKeepsInv DEF TakeSnapshot
    <3>3. CASE ~accounts[req[w].from].active
      BY <2>0, <2>4, <3>3, FinishKeepsInv DEF TakeSnapshot
    <3> QED
      BY <3>2, <3>3
  <2>5. ASSUME NEW w \in Worker, LockGranted(w) PROVE Inv'
    <3>1. req[w] \in CreateRequest
      BY <2>0, <2>5, CreatingRequest DEF LockGranted
    <3>2. CASE Sufficient(w)
      <4> DEFINE r == [req[w] EXCEPT !.stage = "LOCKED"]
      <4>1. /\ r \in Request /\ r.from = req[w].from
            /\ r.amount = req[w].amount /\ r.flow = req[w].flow
        BY <3>1 DEF CreateRequest, Request
      <4>4. accounts[r.from].active /\ accounts[r.from].initial + r.flow >= r.amount
        BY <3>2, <4>1 DEF Sufficient
      <4>5. req' = [req EXCEPT ![w] = r]
        BY <2>0, <2>5, <3>2 DEF LockGranted, TypeOK
      <4> HIDE DEF r
      <4> QED
        BY <2>0, <2>5, <4>1, <4>4, <4>5, RequestKeepsInv DEF LockGranted
    <3>3. CASE ~Sufficient(w)
      BY <2>0, <2>5, <3>3, FinishKeepsInv DEF LockGranted
    <3> QED
      BY <3>2, <3>3
  <2>6. ASSUME NEW w \in Worker, Insert(w) PROVE Inv'
    <3> DEFINE r == [req[w] EXCEPT !.stage = "INSERTED"]
    <3>1. req[w] \in CreateRequest
      BY <2>0, <2>6, CreatingRequest DEF Insert
    <3>2. /\ r \in Request /\ r.from = req[w].from
          /\ r.amount = req[w].amount /\ r.flow = req[w].flow
      BY <3>1 DEF CreateRequest, Request
    <3>3. accounts[r.from].active /\ accounts[r.from].initial + r.flow >= r.amount
      BY <2>6, <3>2 DEF Insert, Inv, LockKeepsCheck, Sufficient
    <3>4. req' = [req EXCEPT ![w] = r]
      BY <2>0, <2>6 DEF Insert, TypeOK
    <3> HIDE DEF r
    <3> QED
      BY <2>0, <2>6, <3>2, <3>3, <3>4, RequestKeepsInv DEF Insert
  <2>7. ASSUME NEW w \in Worker, CreateCommit(w) PROVE Inv'
    <3>1. req[w] \in CreateRequest
      BY <2>0, <2>7, CreatingRequest DEF CreateCommit
    <3>2. PICK id \in TransferId :
            transfers' = transfers \cup {[id |-> id, from |-> req[w].from, to |-> req[w].to,
                                          amount |-> req[w].amount]}
      BY <2>7 DEF CreateCommit
    <3>3. IsFiniteSet(transfers')
      BY <2>0, <3>2, FS_AddElement
    <3>4. transfers' \subseteq Transfer
      <4>1. /\ req[w].from \in Account /\ req[w].to \in Account
            /\ req[w].from # req[w].to /\ req[w].amount \in Amount
        BY <3>1 DEF CreateRequest
      <4>2. [id |-> id, from |-> req[w].from, to |-> req[w].to, amount |-> req[w].amount] \in Transfer
        BY <4>1 DEF Transfer
      <4> QED
        BY <2>0, <3>2, <4>2
    <3> QED
      BY <2>0, <2>7, <3>3, <3>4, FinishKeepsInv DEF CreateCommit
  <2>8. ASSUME NEW w \in Worker, DeleteCommit(w) PROVE Inv'
    <3>1. req[w].id \in TransferId
      BY <2>0, <2>8, IdleRequest DEF DeleteCommit, TypeOK, CreateRequest, DeleteRequest
    <3> QED
      BY <2>0, <2>8, <3>1, FinishKeepsInv DEF DeleteCommit
  <2>9. ASSUME NEW a \in Account, EditInitialBalance(a) \/ CloseAccount(a) PROVE Inv'
    <3>1. accounts' \in [Account -> AccountRow]
      BY <2>0, <2>9 DEF EditInitialBalance, CloseAccount, TypeOK, AccountRow
    <3>2. TypeOK'
      BY <2>0, <2>9, <3>1 DEF EditInitialBalance, CloseAccount, TypeOK
    <3>3. ASSUME NEW w \in Worker, req[w].stage \in {"LOCKED", "INSERTED"}
          PROVE  Sufficient(w)'
      <4>1. req[w].from \in Account /\ req[w].from # a
        BY <2>0, <2>9, <3>3, CreatingRequest
        DEF EditInitialBalance, CloseAccount, UpdateLocks, CreateRequest
      <4>2. accounts'[req[w].from] = accounts[req[w].from]
        BY <2>0, <2>9, <4>1 DEF EditInitialBalance, CloseAccount, TypeOK
      <4> QED
        BY <2>9, <3>3, <4>2 DEF Inv, LockKeepsCheck, Sufficient, EditInitialBalance, CloseAccount
    <3> QED
      BY <2>0, <2>9, <3>2, <3>3 DEF EditInitialBalance, CloseAccount, Inv, LockKeepsCheck
  <2>10. ASSUME NEW a \in Account, Settle(a) PROVE Inv'
    <3>1. settled' \in [Account -> [credits : 0 .. MaxSettled, debits : 0 .. MaxSettled]]
      <4>1. PICK n \in Amount, side \in {"credits", "debits"} :
              /\ settled[a][side] + n <= MaxSettled
              /\ settled' = [settled EXCEPT ![a][side] = @ + n]
        BY <2>10 DEF Settle
      <4>2. n \in Nat
        BY TransferAmountAssumption
      <4> QED
        BY <2>0, <4>1, <4>2, TransferBalanceAssumption DEF TypeOK
    <3> QED
      BY <2>0, <2>10, <3>1 DEF Settle, Inv, TypeOK, LockKeepsCheck, Sufficient
  <2>11. CASE UNCHANGED vars
    BY <2>11 DEF vars, Inv, TypeOK, LockKeepsCheck, Sufficient
  <2> QED
    BY <2>1, <2>2, <2>3, <2>4, <2>5, <2>6, <2>7, <2>8, <2>9, <2>10, <2>11 DEF Next, Proceed
<1> QED
  BY <1>1, <1>2, PTL DEF Spec

\* Every table and every request in flight holds values of their types.
THEOREM TransfersTypeCorrect == Spec => []TypeOK
BY Inductive, PTL DEF Inv

\* The source of a transfer that commits is an active account: the row lock keeps
\* DELETE /bank-accounts/:id away from the check to the commit.
THEOREM DeletedAccountsSendNothing == Spec => DeletedSendNothing
<1>1. ASSUME Inv, [Next]_vars
      PROVE  [\A w \in Worker, a \in Account : Sends(w, a) => accounts[a].active]_vars
  BY <1>1 DEF Inv, LockKeepsCheck, Sends, CreateCommit, Sufficient
<1> QED
  BY <1>1, Inductive, PTL DEF Spec, DeletedSendNothing

-----------------------------------------------------------------------------
\* What a commit adds: one transfer, which was not there before.
LEMMA CommittedTransfer ==
  ASSUME Inv, NEW w \in Worker, NEW a \in Account, Sends(w, a)
  PROVE  \E t \in Transfer : /\ transfers' = transfers \cup {t} /\ t \notin transfers
                             /\ t.from = a /\ t.to # a /\ t.amount = req[w].amount
<1>1. req[w] \in CreateRequest
  BY CreatingRequest DEF Inv, Sends, CreateCommit
<1>2. PICK id \in TransferId \ {t.id : t \in transfers} :
        transfers' = transfers \cup {[id |-> id, from |-> req[w].from, to |-> req[w].to,
                                      amount |-> req[w].amount]}
  BY DEF Sends, CreateCommit
<1> DEFINE t == [id |-> id, from |-> req[w].from, to |-> req[w].to, amount |-> req[w].amount]
<1>3. t \in Transfer /\ t.from = a /\ t.to # a /\ t.amount = req[w].amount
  <2>1. /\ req[w].from = a /\ req[w].to \in Account
        /\ req[w].from # req[w].to /\ req[w].amount \in Amount
    BY <1>1 DEF CreateRequest, Sends
  <2> QED
    BY <2>1 DEF Transfer
<1>4. t \notin transfers
  BY <1>2
<1> QED
  BY <1>2, <1>3, <1>4

\* A commit takes its amount from the source, and from no other account.
LEMMA CommitEffect ==
  ASSUME Inv, NEW w \in Worker, NEW a \in Account, Sends(w, a), Inv'
  PROVE  /\ Flow(a)' \in Int /\ Flow(a)' >= Flow(a) - req[w].amount
         /\ Headroom(a)' \in Int /\ Headroom(a)' >= Headroom(a) - req[w].amount
         /\ \A b \in Account : b # a => Headroom(b)' \in Int /\ Headroom(b)' >= Headroom(b)
<1>1. PICK t \in Transfer : /\ transfers' = transfers \cup {t} /\ t \notin transfers
                           /\ t.from = a /\ t.to # a /\ t.amount = req[w].amount
  BY CommittedTransfer
<1>2. UNCHANGED <<accounts, deleted, settled>> /\ LiveTransfers' \subseteq LiveTransfers \cup {t}
  BY <1>1 DEF Sends, CreateCommit, LiveTransfers
<1>3. LiveTransfers \subseteq LiveTransfers' /\ LiveTransfers \subseteq transfers
  BY <1>1, <1>2 DEF LiveTransfers
<1>4. TypeOK /\ IsFiniteSet(transfers) /\ TypeOK' /\ IsFiniteSet(transfers')
  BY DEF Inv
<1>5. /\ \A u \in transfers : u.amount \in Nat
      /\ \A u \in transfers' : u.amount \in Nat
  BY <1>4, TransferAmount DEF TypeOK
<1>6. /\ SumAmount({u \in LiveTransfers : u.from = a})' \in Nat
      /\ SumAmount({u \in LiveTransfers : u.from = a})'
           <= SumAmount({u \in LiveTransfers : u.from = a}) + req[w].amount
  <2> DEFINE Out == {u \in LiveTransfers : u.from = a}
             OutNext == {u \in LiveTransfers' : u.from = a}
  <2>1. OutNext \subseteq Out \cup {t}
    BY <1>1, <1>2
  <2>2. IsFiniteSet(Out) /\ t \notin Out /\ \A u \in Out : u.amount \in Nat
    BY <1>1, <1>3, <1>4, <1>5, FS_Subset
  <2>3. t.amount \in Nat
    BY TransferAmount
  <2>4. SumAmount(Out \cup {t}) = SumAmount(Out) + t.amount
    BY <2>2, <2>3, SumAmountAdd
  <2>5. IsFiniteSet(Out \cup {t}) /\ \A u \in Out \cup {t} : u.amount \in Nat
    BY <2>2, <2>3, FS_AddElement
  <2>6. SumAmount(OutNext) \in Nat /\ SumAmount(OutNext) <= SumAmount(Out \cup {t})
    BY <2>1, <2>5, SumAmountMonotone
  <2> QED
    BY <1>1, <2>4, <2>6
<1>7. /\ {u \in transfers' : u.to = a} = {u \in transfers : u.to = a}
      /\ {u \in LiveTransfers' : u.to = a} = {u \in LiveTransfers : u.to = a}
  BY <1>1, <1>2, <1>3
<1>8. /\ Flow(a)' \in Int /\ Flow(a)' >= Flow(a) - req[w].amount
      /\ Headroom(a)' \in Int /\ Headroom(a)' >= Headroom(a) - req[w].amount
  <2> DEFINE In == SumAmount({u \in transfers : u.to = a})
             LiveIn == SumAmount({u \in LiveTransfers : u.to = a})
             Out == SumAmount({u \in LiveTransfers : u.from = a})
             c == settled[a].credits
             d == settled[a].debits
  <2>1. /\ In \in Nat /\ LiveIn \in Nat /\ Out \in Nat /\ Out' \in Nat /\ c \in Nat /\ d \in Nat
        /\ req[w].amount \in Nat /\ MaxInitial \in Nat
    BY <1>1, <1>4, <1>6, FlowType, TransferAmount, TransferBalanceAssumption
  <2>2. In' = In /\ LiveIn' = LiveIn /\ c' = c /\ d' = d /\ Out' <= Out + req[w].amount
    BY <1>2, <1>6, <1>7
  <2>3. Flow(a) = c - d + LiveIn - Out /\ Flow(a)' = c' - d' + LiveIn' - Out'
    BY DEF Flow
  <2>4. Headroom(a) = MaxInitial + c + In - Out /\ Headroom(a)' = MaxInitial + c' + In' - Out'
    BY DEF Headroom
  <2> HIDE DEF In, LiveIn, Out, c, d
  <2> QED
    BY <2>1, <2>2, <2>3, <2>4
<1>9. ASSUME NEW b \in Account, b # a
      PROVE  Headroom(b)' \in Int /\ Headroom(b)' >= Headroom(b)
  <2> DEFINE In == SumAmount({u \in transfers : u.to = b})
             NextIn == SumAmount({u \in transfers' : u.to = b})
             Out == SumAmount({u \in LiveTransfers : u.from = b})
             c == settled[b].credits
  <2>1. {u \in LiveTransfers' : u.from = b} = {u \in LiveTransfers : u.from = b}
    BY <1>1, <1>2, <1>3, <1>9
  <2>2. {u \in transfers : u.to = b} \subseteq {u \in transfers' : u.to = b}
    BY <1>1
  <2>3. IsFiniteSet({u \in transfers' : u.to = b})
    BY <1>4, FS_Subset
  <2>4. NextIn \in Nat /\ In <= NextIn
    BY <1>5, <2>2, <2>3, SumAmountMonotone
  <2>5. In \in Nat /\ Out \in Nat /\ c \in Nat /\ MaxInitial \in Nat
    BY <1>4, FlowType, TransferBalanceAssumption
  <2>6. Headroom(b) = MaxInitial + c + In - Out
    BY DEF Headroom
  <2>7. Headroom(b)' = MaxInitial + c + NextIn - Out
    BY <1>2, <2>1 DEF Headroom
  <2> HIDE DEF In, NextIn, Out, c
  <2> QED
    BY <2>4, <2>5, <2>6, <2>7
<1> QED
  BY <1>8, <1>9

\* A transfer overdraws its account only if the flow it compared with is stale: the
\* lock keeps the rest of what it compared with as it was.
THEOREM OnlyStaleFlowsOverdraw == Spec => OnlyStaleOverdraws
<1>1. ASSUME Inv, Inv', [Next]_vars
      PROVE  [\A w \in Worker, a \in Account :
                Sends(w, a) /\ req[w].flow = Flow(a) => Balance(a)' >= 0]_vars
  <2>1. ASSUME NEW w \in Worker, NEW a \in Account, Sends(w, a), req[w].flow = Flow(a)
        PROVE  Balance(a)' >= 0
    <3>1. Sufficient(w) /\ req[w].from = a /\ accounts' = accounts
      BY <1>1, <2>1 DEF Inv, LockKeepsCheck, Sends, CreateCommit
    <3>2. accounts[a].initial + Flow(a) >= req[w].amount
      BY <2>1, <3>1 DEF Sufficient
    <3>3. Flow(a)' \in Int /\ Flow(a)' >= Flow(a) - req[w].amount
      BY <1>1, <2>1, CommitEffect
    <3>4. Flow(a) \in Int
      BY <1>1, FlowType DEF Inv
    <3>5. req[w].amount \in Nat
      BY <1>1, <2>1, CreatingRequest, TransferAmount DEF Inv, Sends, CreateCommit
    <3>6. accounts[a].initial \in Nat
      <4>1. accounts[a].initial \in InitialBalance
        BY <1>1 DEF Inv, TypeOK, AccountRow
      <4>2. \A n \in InitialBalance : n \in Nat
        BY TransferBalanceAssumption
      <4> QED
        BY <4>1, <4>2
    <3>7. Balance(a)' = accounts[a].initial + Flow(a)'
      BY <3>1 DEF Balance
    <3> QED
      BY <3>2, <3>3, <3>4, <3>5, <3>6, <3>7
  <2> QED
    BY <2>1
<1> QED
  BY <1>1, Inductive, PTL DEF Spec, OnlyStaleOverdraws

-----------------------------------------------------------------------------
\* The requests that have their snapshot and may still commit a transfer from a.
Covered(a) ==
  {w \in Worker : /\ req[w].stage \in {"WAITING", "LOCKED", "INSERTED"} /\ req[w].from = a
                  /\ req[w].amount <= MaxInitial + req[w].flow}

Claims(a) == {[worker |-> w, amount |-> req[w].amount] : w \in Covered(a)}

Exposure == (Cardinality(Worker) - 1) * MaxAmount

\* What the requests in flight may still send is within the exposure already.
\* ExposureBounded alone is not inductive: it does not see them coming.
ClaimsCovered == \A a \in Account : SumAmount(Claims(a)) <= Headroom(a) + Exposure

\* Every worker but one can claim one largest transfer, and no more.
LEMMA ExposureType == Exposure \in Nat
<1>1. Cardinality(Worker) \in Nat /\ Cardinality(Worker) # 0
  BY WorkerAssumption, FS_CardinalityType, FS_EmptySet
<1>2. Cardinality(Worker) - 1 \in Nat /\ MaxAmount \in Nat
  BY <1>1, TransferAmountAssumption
<1>3. \A i, j \in Nat : i * j \in Nat
  OBVIOUS
<1> QED
  BY <1>2, <1>3 DEF Exposure

\* What an account could still spend is an integer.
LEMMA HeadroomType ==
  ASSUME TypeOK, IsFiniteSet(transfers), NEW a \in Account
  PROVE  Headroom(a) \in Int /\ MaxInitial + Flow(a) <= Headroom(a)
<1> DEFINE In == SumAmount({t \in transfers : t.to = a})
           LiveIn == SumAmount({t \in LiveTransfers : t.to = a})
           Out == SumAmount({t \in LiveTransfers : t.from = a})
           c == settled[a].credits
           d == settled[a].debits
<1>1. In \in Nat /\ LiveIn \in Nat /\ LiveIn <= In /\ Out \in Nat /\ c \in Nat /\ d \in Nat
  BY FlowType
<1>2. Flow(a) = c - d + LiveIn - Out /\ Headroom(a) = MaxInitial + c + In - Out
  BY DEF Flow, Headroom
<1>3. MaxInitial \in Nat
  BY TransferBalanceAssumption
<1> HIDE DEF In, LiveIn, Out, c, d
<1> QED
  BY <1>1, <1>2, <1>3

\* Claims are finitely many, one per worker, each of an amount.
LEMMA ClaimsType ==
  ASSUME TypeOK, NEW a \in Account
  PROVE  /\ IsFiniteSet(Claims(a)) /\ \A c \in Claims(a) : c.amount \in 0 .. MaxAmount
         /\ SumAmount(Claims(a)) \in Nat
<1>1. IsFiniteSet(Covered(a))
  BY WorkerAssumption, FS_Subset DEF Covered
<1> DEFINE f == [w \in Covered(a) |-> [worker |-> w, amount |-> req[w].amount]]
<1>2. f \in Surjection(Covered(a), Claims(a))
  BY DEF Surjection, Claims
<1>3. IsFiniteSet(Claims(a))
  BY <1>1, <1>2, FS_Surjection
<1>4. \A c \in Claims(a) : c.amount \in 0 .. MaxAmount
  <2>1. ASSUME NEW w \in Covered(a) PROVE req[w].amount \in 0 .. MaxAmount
    <3>1. req[w] \in CreateRequest
      BY CreatingRequest DEF Covered
    <3> QED
      BY <3>1, TransferAmount, TransferAmountAssumption
  <2> QED
    BY <2>1 DEF Claims
<1>5. \A c \in Claims(a) : c.amount \in Nat
  BY <1>4
<1> QED
  BY <1>3, <1>4, <1>5, SumAmountType

\* Where nobody claims more and the headroom is no smaller, claims stay covered.
LEMMA FewerClaims ==
  ASSUME TypeOK, IsFiniteSet(transfers), ClaimsCovered, NEW a \in Account,
         NEW N \in SUBSET Claims(a), NEW h \in Int, h >= Headroom(a)
  PROVE  SumAmount(N) <= h + Exposure
<1>1. /\ IsFiniteSet(Claims(a)) /\ \A c \in Claims(a) : c.amount \in Nat
  BY ClaimsType, TransferAmountAssumption
<1>2. /\ SumAmount(N) \in Nat /\ SumAmount(Claims(a)) \in Nat
      /\ SumAmount(N) <= SumAmount(Claims(a))
  BY <1>1, SumAmountMonotone
<1>3. SumAmount(Claims(a)) <= Headroom(a) + Exposure
  BY DEF ClaimsCovered
<1>4. Headroom(a) \in Int /\ Exposure \in Nat
  BY HeadroomType, ExposureType
<1> QED
  BY <1>2, <1>3, <1>4

\* Deleting transfers and settling entries never lower the headroom.
LEMMA HeadroomKept ==
  ASSUME TypeOK, TypeOK', IsFiniteSet(transfers), transfers' = transfers,
         deleted \subseteq deleted', NEW a \in Account,
         settled'[a].credits >= settled[a].credits
  PROVE  Headroom(a)' \in Int /\ Headroom(a)' >= Headroom(a)
<1> DEFINE In == SumAmount({t \in transfers : t.to = a})
           Out == SumAmount({t \in LiveTransfers : t.from = a})
           OutNext == SumAmount({t \in LiveTransfers' : t.from = a})
<1>1. {t \in LiveTransfers' : t.from = a} \subseteq {t \in LiveTransfers : t.from = a}
  BY DEF LiveTransfers
<1>2. {t \in LiveTransfers : t.from = a} \subseteq transfers
  BY DEF LiveTransfers
<1>3. IsFiniteSet({t \in LiveTransfers : t.from = a})
  BY <1>2, FS_Subset
<1>4. \A t \in {t \in LiveTransfers : t.from = a} : t.amount \in Nat
  BY <1>2, TransferAmount DEF TypeOK
<1>5. OutNext \in Nat /\ OutNext <= Out
  BY <1>1, <1>3, <1>4, SumAmountMonotone
<1>6. In \in Nat /\ Out \in Nat /\ settled[a].credits \in Nat /\ MaxInitial \in Nat
  BY FlowType, TransferBalanceAssumption
<1>7. settled'[a].credits \in Nat
  BY TransferBalanceAssumption DEF TypeOK
<1>8. Headroom(a) = MaxInitial + settled[a].credits + In - Out
  BY DEF Headroom
<1>9. Headroom(a)' = MaxInitial + settled'[a].credits + In - OutNext
  BY DEF Headroom
<1> HIDE DEF In, Out, OutNext
<1> QED
  BY <1>5, <1>6, <1>7, <1>8, <1>9

\* A step that gives no request a new snapshot adds no claim.
LEMMA ClaimsShrink ==
  ASSUME TypeOK, NEW w \in Worker, NEW r, req' = [req EXCEPT ![w] = r],
         r.stage \in {"WAITING", "LOCKED", "INSERTED"}
           => /\ req[w].stage \in {"WAITING", "LOCKED", "INSERTED"}
              /\ r.from = req[w].from /\ r.amount = req[w].amount /\ r.flow = req[w].flow,
         NEW a \in Account
  PROVE  Claims(a)' \subseteq Claims(a)
<1>1. ASSUME NEW v \in Covered(a)'
      PROVE  v \in Covered(a) /\ req'[v].amount = req[v].amount
  <2>1. v \in Worker
    BY DEF Covered
  <2>2. CASE v = w
    <3>1. req'[v] = r
      BY <2>1, <2>2 DEF TypeOK
    <3> QED
      BY <2>2, <3>1 DEF Covered
  <2>3. CASE v # w
    <3>1. req'[v] = req[v]
      BY <2>1, <2>3 DEF TypeOK
    <3> QED
      BY <3>1 DEF Covered
  <2> QED
    BY <2>2, <2>3
<1>2. Claims(a)' = {[worker |-> v, amount |-> req'[v].amount] : v \in Covered(a)'}
  BY DEF Claims
<1> QED
  BY <1>1, <1>2 DEF Claims

\* A step that adds no claim and does not touch transfers keeps claims covered.
LEMMA NoNewClaims ==
  ASSUME Inv, Inv', ClaimsCovered, NEW w \in Worker, NEW r, req' = [req EXCEPT ![w] = r],
         r.stage \in {"WAITING", "LOCKED", "INSERTED"}
           => /\ req[w].stage \in {"WAITING", "LOCKED", "INSERTED"}
              /\ r.from = req[w].from /\ r.amount = req[w].amount /\ r.flow = req[w].flow,
         UNCHANGED <<transfers, settled>>, deleted \subseteq deleted'
  PROVE  ClaimsCovered'
<1>1. ASSUME NEW a \in Account PROVE SumAmount(Claims(a)') <= Headroom(a)' + Exposure
  <2>1. Claims(a)' \subseteq Claims(a)
    BY ClaimsShrink DEF Inv
  <2>2. settled'[a].credits >= settled[a].credits
    <3>1. settled[a].credits \in Nat
      BY FlowType DEF Inv
    <3> QED
      BY <3>1
  <2>3. Headroom(a)' \in Int /\ Headroom(a)' >= Headroom(a)
    BY <2>2, HeadroomKept DEF Inv
  <2> QED
    BY <2>1, <2>3, FewerClaims DEF Inv
<1> QED
  BY <1>1 DEF ClaimsCovered, Exposure

\* A new snapshot: its claim is within the headroom it saw, and the others are at
\* most one largest transfer each.
LEMMA SnapshotCovered ==
  ASSUME Inv, Inv', ClaimsCovered, NEW w \in Worker, TakeSnapshot(w),
         accounts[req[w].from].active
  PROVE  ClaimsCovered'
<1> DEFINE r == [req[w] EXCEPT !.stage = "WAITING", !.flow = Flow(req[w].from)]
<1>1. req[w] \in CreateRequest
  BY CreatingRequest DEF Inv, TakeSnapshot
<1>2. /\ r.stage = "WAITING" /\ r.from = req[w].from /\ r.amount = req[w].amount
      /\ r.flow = Flow(req[w].from)
  BY <1>1 DEF CreateRequest
<1>3. req' = [req EXCEPT ![w] = r]
  BY DEF TakeSnapshot, Inv, TypeOK
<1>4. UNCHANGED <<transfers, settled, deleted>>
  BY DEF TakeSnapshot
<1> HIDE DEF r
<1>5. ASSUME NEW a \in Account PROVE SumAmount(Claims(a)') <= Headroom(a)' + Exposure
  <2>1. settled'[a].credits >= settled[a].credits
    <3>1. settled[a].credits \in Nat
      BY FlowType DEF Inv
    <3> QED
      BY <1>4, <3>1
  <2>2. Headroom(a)' \in Int /\ Headroom(a)' >= Headroom(a)
    BY <1>4, <2>1, HeadroomKept DEF Inv
  <2> DEFINE N == Claims(a)'
             c == [worker |-> w, amount |-> r.amount]
             Others == N \ {c}
  <2>3. \A v \in Worker : v # w => req'[v] = req[v]
    BY <1>3 DEF Inv, TypeOK
  <2>4. req'[w] = r
    BY <1>3 DEF Inv, TypeOK
  <2>5. N = {[worker |-> v, amount |-> req'[v].amount] : v \in Covered(a)'}
    BY DEF Claims
  <2>6. CASE w \in Covered(a)'
    <3>1. r.from = a /\ r.amount <= MaxInitial + r.flow
      BY <2>4, <2>6 DEF Covered
    <3>2. r.amount <= Headroom(a)
      <4>1. r.amount \in Nat /\ MaxInitial \in Nat
        BY <1>1, <1>2, TransferAmount, TransferBalanceAssumption
      <4>2. Flow(a) \in Int /\ Headroom(a) \in Int /\ MaxInitial + Flow(a) <= Headroom(a)
        BY FlowType, HeadroomType DEF Inv
      <4> QED
        BY <1>2, <3>1, <4>1, <4>2
    <3>3. IsFiniteSet(Others) /\ Cardinality(Others) <= Cardinality(Worker) - 1
      <4> DEFINE Rest == Covered(a)' \ {w}
                 f == [v \in Rest |-> [worker |-> v, amount |-> req'[v].amount]]
      <4>1. Others \subseteq {[worker |-> v, amount |-> req'[v].amount] : v \in Rest}
        BY <2>4, <2>5
      <4>2. /\ IsFiniteSet(Worker \ {w})
            /\ Cardinality(Worker \ {w}) = Cardinality(Worker) - 1
        BY WorkerAssumption, FS_RemoveElement
      <4>3. Rest \subseteq Worker \ {w}
        BY DEF Covered
      <4>4. IsFiniteSet(Rest) /\ Cardinality(Rest) <= Cardinality(Worker \ {w})
        BY <4>2, <4>3, FS_Subset
      <4>5. f \in Surjection(Rest, {[worker |-> v, amount |-> req'[v].amount] : v \in Rest})
        BY DEF Surjection
      <4>6. /\ IsFiniteSet({[worker |-> v, amount |-> req'[v].amount] : v \in Rest})
            /\ Cardinality({[worker |-> v, amount |-> req'[v].amount] : v \in Rest})
                 <= Cardinality(Rest)
        BY <4>4, <4>5, FS_Surjection
      <4>7. /\ IsFiniteSet(Others)
            /\ Cardinality(Others)
                 <= Cardinality({[worker |-> v, amount |-> req'[v].amount] : v \in Rest})
        BY <4>1, <4>6, FS_Subset
      <4> DEFINE i == Cardinality(Others)
                 j == Cardinality({[worker |-> v, amount |-> req'[v].amount] : v \in Rest})
                 k == Cardinality(Rest)
                 n == Cardinality(Worker)
      <4>8. i \in Nat /\ j \in Nat /\ k \in Nat /\ n \in Nat
        BY <4>4, <4>6, <4>7, WorkerAssumption, FS_CardinalityType
      <4>9. i <= j /\ j <= k /\ k <= n - 1
        BY <4>2, <4>4, <4>6, <4>7
      <4>10. i <= n - 1
        <5> HIDE DEF i, j, k, n
        <5> QED
          BY <4>8, <4>9
      <4> QED
        BY <4>7, <4>10
    <3>4. \A o \in Others : o.amount \in 0 .. MaxAmount
      <4>1. ASSUME NEW v \in Covered(a)', v # w PROVE req'[v].amount \in 0 .. MaxAmount
        <5>1. v \in Worker /\ req[v].stage \in {"WAITING", "LOCKED", "INSERTED"}
          BY <2>3, <4>1 DEF Covered
        <5>2. req[v] \in CreateRequest
          BY <5>1, CreatingRequest DEF Inv
        <5> QED
          BY <2>3, <4>1, <5>1, <5>2, TransferAmount, TransferAmountAssumption
      <4> QED
        BY <2>4, <2>5, <4>1
    <3>5. SumAmount(Others) <= Exposure
      <4>1. Cardinality(Worker) - 1 \in Nat
        BY WorkerAssumption, FS_CardinalityType, FS_EmptySet
      <4> HIDE DEF Others
      <4> QED
        BY <3>3, <3>4, <4>1, TransferAmountAssumption, SumAmountBound DEF Exposure
    <3>6. /\ \A o \in Others : o.amount \in Nat
          /\ c.amount = r.amount /\ r.amount \in Nat /\ c \in N
      BY <1>1, <1>2, <2>4, <2>5, <2>6, <3>4, TransferAmount, TransferAmountAssumption
    <3>7. SumAmount(Others \cup {c}) = SumAmount(Others) + r.amount /\ Others \cup {c} = N
      <4>1. Others \cup {c} = N /\ c \notin Others
        BY <3>6
      <4> HIDE DEF Others, c, N
      <4> QED
        BY <3>3, <3>6, <4>1, SumAmountAdd
    <3>8. SumAmount(Others) \in Nat
      BY <3>3, <3>6, SumAmountType
    <3>9. Headroom(a) \in Int /\ Exposure \in Nat
      BY HeadroomType, ExposureType DEF Inv
    <3>10. SumAmount(N) = SumAmount(Others) + r.amount
      <4> HIDE DEF N, Others, c
      <4> QED
        BY <3>7
    <3> DEFINE total == SumAmount(N)
               others == SumAmount(Others)
               h == Headroom(a)
    <3>11. total = others + r.amount /\ others \in Nat /\ others <= Exposure /\ r.amount <= h
      BY <3>2, <3>5, <3>8, <3>10
    <3>12. total <= h + Exposure
      <4> HIDE DEF total, others, h
      <4> QED
        BY <3>6, <3>9, <3>11 DEF h
    <3> HIDE DEF total
    <3> QED
      BY <2>2, <3>6, <3>8, <3>9, <3>11, <3>12 DEF total
  <2>7. CASE w \notin Covered(a)'
    <3>1. \A v \in Covered(a)' : v \in Covered(a) /\ req'[v] = req[v]
      BY <2>3, <2>7 DEF Covered
    <3>2. N \subseteq Claims(a)
      BY <2>5, <3>1 DEF Claims
    <3> QED
      BY <2>2, <3>2, FewerClaims DEF Inv
  <2> QED
    BY <2>6, <2>7
<1> QED
  BY <1>5 DEF ClaimsCovered, Exposure

\* A commit turns its claim into a transfer: what it takes off the headroom, it
\* takes off the claims.
LEMMA CommitCovered ==
  ASSUME Inv, Inv', ClaimsCovered, NEW w \in Worker, CreateCommit(w)
  PROVE  ClaimsCovered'
<1>1. req[w] \in CreateRequest
  BY CreatingRequest DEF Inv, CreateCommit
<1>2. PICK a \in Account, m \in Nat : a = req[w].from /\ m = req[w].amount
  BY <1>1, TransferAmount DEF CreateRequest
<1> DEFINE c == [worker |-> w, amount |-> m]
<1>3. Sends(w, a)
  BY <1>2 DEF Sends
<1>4. w \in Covered(a)
  <2>1. Sufficient(w)
    BY DEF Inv, LockKeepsCheck, CreateCommit
  <2>2. accounts[a].initial \in InitialBalance
    BY DEF Inv, TypeOK, AccountRow
  <2>3. accounts[a].initial \in Nat /\ accounts[a].initial <= MaxInitial /\ MaxInitial \in Nat
    <3>1. \A n \in InitialBalance : n \in Nat /\ n <= MaxInitial
      BY TransferBalanceAssumption
    <3> QED
      BY <2>2, <3>1, TransferBalanceAssumption
  <2>4. req[w].flow \in Int /\ accounts[a].initial + req[w].flow >= m
    BY <1>1, <1>2, <2>1 DEF CreateRequest, Sufficient
  <2>5. m <= MaxInitial + req[w].flow
    BY <1>2, <2>3, <2>4
  <2> QED
    BY <1>2, <2>5 DEF Covered, CreateCommit
<1>5. req' = [req EXCEPT ![w] = Idle] /\ Idle.stage = "IDLE"
  BY IdleRequest DEF CreateCommit, Finish
<1>6. c \in Claims(a) /\ c.amount = m
  BY <1>2, <1>4 DEF Claims
<1>7. Claims(a)' \subseteq Claims(a) \ {c}
  <2>1. Claims(a)' \subseteq Claims(a)
    BY <1>2, <1>5, ClaimsShrink DEF Inv
  <2>2. w \notin Covered(a)'
    BY <1>5 DEF Inv, TypeOK, Covered
  <2>3. Claims(a)' = {[worker |-> v, amount |-> req'[v].amount] : v \in Covered(a)'}
    BY DEF Claims
  <2>4. c \notin Claims(a)'
    BY <2>2, <2>3
  <2> QED
    BY <2>1, <2>4
<1>8. SumAmount(Claims(a)') <= Headroom(a)' + Exposure
  <2> DEFINE N == Claims(a)'
             D == Claims(a) \ {c}
             next == SumAmount(N)
             less == SumAmount(D)
             all == SumAmount(Claims(a))
  <2>1. IsFiniteSet(Claims(a)) /\ \A o \in Claims(a) : o.amount \in Nat
    BY <1>2, ClaimsType, TransferAmountAssumption DEF Inv
  <2>2. less \in Nat /\ all = less + m
    BY <1>6, <2>1, SumAmountRemove
  <2>3. IsFiniteSet(D) /\ \A o \in D : o.amount \in Nat
    BY <2>1, FS_Subset
  <2>4. next \in Nat /\ next <= less
    <3> HIDE DEF c
    <3> QED
      BY <1>7, <2>3, SumAmountMonotone
  <2>5. all <= Headroom(a) + Exposure
    BY <1>2 DEF ClaimsCovered
  <2>6. Headroom(a) \in Int /\ Exposure \in Nat
    BY <1>2, HeadroomType, ExposureType DEF Inv
  <2> DEFINE h == Headroom(a)
             hNext == Headroom(a)'
  <2>7. hNext \in Int /\ hNext >= h - m
    BY <1>2, <1>3, CommitEffect
  <2> HIDE DEF next, less, all, h, hNext
  <2>8. next <= hNext + Exposure
    BY <1>2, <2>2, <2>4, <2>5, <2>6, <2>7 DEF h
  <2> QED
    BY <2>8 DEF next, hNext
<1>9. ASSUME NEW b \in Account, b # a PROVE SumAmount(Claims(b)') <= Headroom(b)' + Exposure
  <2>1. Claims(b)' \subseteq Claims(b)
    BY <1>5, ClaimsShrink DEF Inv
  <2>2. Headroom(b)' \in Int /\ Headroom(b)' >= Headroom(b)
    BY <1>2, <1>3, <1>9, CommitEffect
  <2> QED
    BY <2>1, <2>2, FewerClaims DEF Inv
<1> QED
  BY <1>8, <1>9 DEF ClaimsCovered, Exposure

\* Settling an entry, editing an account or closing it makes no claim.
LEMMA AccountsCovered ==
  ASSUME Inv, Inv', ClaimsCovered, NEW b \in Account,
         EditInitialBalance(b) \/ CloseAccount(b) \/ Settle(b) \/ UNCHANGED vars
  PROVE  ClaimsCovered'
<1>1. UNCHANGED <<transfers, deleted, req>>
  BY DEF EditInitialBalance, CloseAccount, Settle, vars
<1>2. ASSUME NEW a \in Account PROVE settled'[a].credits >= settled[a].credits
  <2>1. settled[a].credits \in Nat
    BY <1>2, FlowType DEF Inv
  <2>2. CASE UNCHANGED settled
    BY <2>1, <2>2
  <2>3. CASE Settle(b)
    <3>1. PICK n \in Amount, side \in {"credits", "debits"} :
            settled' = [settled EXCEPT ![b][side] = @ + n]
      BY <2>3 DEF Settle
    <3>2. n \in Nat
      BY TransferAmountAssumption
    <3>3. settled \in [Account -> [credits : 0 .. MaxSettled, debits : 0 .. MaxSettled]]
      BY DEF Inv, TypeOK
    <3> QED
      BY <2>1, <3>1, <3>2, <3>3
  <2> QED
    BY <2>2, <2>3 DEF EditInitialBalance, CloseAccount, vars
<1>3. ASSUME NEW a \in Account PROVE SumAmount(Claims(a)') <= Headroom(a)' + Exposure
  <2>1. Claims(a)' = Claims(a)
    BY <1>1 DEF Claims, Covered
  <2>2. Headroom(a)' \in Int /\ Headroom(a)' >= Headroom(a)
    BY <1>1, <1>2, HeadroomKept DEF Inv
  <2> QED
    BY <2>1, <2>2, FewerClaims DEF Inv
<1> QED
  BY <1>3 DEF ClaimsCovered, Exposure

\* Every step keeps what requests in flight may send within the exposure.
LEMMA StepCovered ==
  ASSUME Inv, Inv', ClaimsCovered, [Next]_vars
  PROVE  ClaimsCovered'
<1>1. ASSUME NEW w \in Worker, NEW r, req' = [req EXCEPT ![w] = r],
             r.stage \in {"IDLE", "CHECKED", "DELETING"},
             UNCHANGED <<transfers, settled>>, deleted \subseteq deleted'
      PROVE  ClaimsCovered'
  BY <1>1, NoNewClaims
<1>2. ASSUME NEW w \in Worker, Finish(w),
             UNCHANGED <<transfers, settled>>, deleted \subseteq deleted'
      PROVE  ClaimsCovered'
  BY <1>1, <1>2, IdleRequest DEF Finish
<1>3. ASSUME NEW w \in Worker, CreateCheck(w) PROVE ClaimsCovered'
  <2>1. PICK from, to \in Account, amount \in Amount :
          req' = [req EXCEPT ![w] = [stage |-> "CHECKED", from |-> from, to |-> to,
                                     amount |-> amount, flow |-> 0]]
    BY <1>3 DEF CreateCheck
  <2> QED
    BY <1>1, <1>3, <2>1 DEF CreateCheck
<1>4. ASSUME NEW w \in Worker, DeleteCheck(w) PROVE ClaimsCovered'
  <2>1. PICK t \in LiveTransfers : req' = [req EXCEPT ![w] = [stage |-> "DELETING", id |-> t.id]]
    BY <1>4 DEF DeleteCheck
  <2> QED
    BY <1>1, <1>4, <2>1 DEF DeleteCheck
<1>5. ASSUME NEW w \in Worker, TakeSnapshot(w) PROVE ClaimsCovered'
  BY <1>2, <1>5, SnapshotCovered DEF TakeSnapshot
<1>6. ASSUME NEW w \in Worker, NEW s \in {"LOCKED", "INSERTED"},
             req[w].stage \in {"WAITING", "LOCKED"}, req' = [req EXCEPT ![w].stage = s],
             UNCHANGED <<transfers, settled, deleted>>
      PROVE  ClaimsCovered'
  <2> DEFINE r == [req[w] EXCEPT !.stage = s]
  <2>1. req[w] \in CreateRequest
    BY <1>6, CreatingRequest DEF Inv
  <2>2. /\ r.from = req[w].from /\ r.amount = req[w].amount /\ r.flow = req[w].flow
    BY <2>1 DEF CreateRequest
  <2>3. req' = [req EXCEPT ![w] = r]
    BY <1>6 DEF Inv, TypeOK
  <2> HIDE DEF r
  <2> QED
    BY <1>6, <2>2, <2>3, NoNewClaims
<1>7. ASSUME NEW w \in Worker, LockGranted(w) \/ Insert(w) PROVE ClaimsCovered'
  BY <1>2, <1>6, <1>7 DEF LockGranted, Insert
<1>8. ASSUME NEW w \in Worker, DeleteCommit(w) \/ Abandon(w) \/ LockTimeout(w)
      PROVE  ClaimsCovered'
  BY <1>2, <1>8 DEF DeleteCommit, Abandon, LockTimeout
<1>9. CASE UNCHANGED vars
  <2>1. ASSUME NEW a \in Account PROVE ClaimsCovered'
    BY <1>9, <2>1, AccountsCovered
  <2>2. CASE Account = {}
    BY <2>2 DEF ClaimsCovered
  <2> QED
    BY <2>1, <2>2
<1> QED
  BY <1>3, <1>4, <1>5, <1>7, <1>8, <1>9, CommitCovered, AccountsCovered DEF Next, Proceed

\* However many requests race, an account never sends more than what it could ever
\* have had and one largest transfer for each request but one.
THEOREM ExposureIsBounded == Spec => []ExposureBounded
<1>1. Init /\ Inv => ClaimsCovered
  <2>1. ASSUME Init, Inv, NEW a \in Account PROVE SumAmount(Claims(a)) <= Headroom(a) + Exposure
    <3>1. Claims(a) = {}
      BY <2>1, IdleRequest DEF Init, Covered, Claims
    <3>2. SumAmount(Claims(a)) = 0
      BY <3>1, SumAmountType
    <3>3. {t \in transfers : t.to = a} = {} /\ {t \in LiveTransfers : t.from = a} = {}
      BY <2>1 DEF Init, LiveTransfers
    <3>4. Headroom(a) = MaxInitial
      <4>1. settled[a].credits = 0
        BY <2>1 DEF Init
      <4>2. /\ SumAmount({t \in transfers : t.to = a}) = 0
            /\ SumAmount({t \in LiveTransfers : t.from = a}) = 0
        BY <3>3, SumAmountType
      <4>3. Headroom(a) = MaxInitial + 0 + 0 - 0
        BY <4>1, <4>2 DEF Headroom
      <4> QED
        BY <4>3, TransferBalanceAssumption
    <3> QED
      BY <3>2, <3>4, ExposureType, TransferBalanceAssumption
  <2> QED
    BY <2>1 DEF ClaimsCovered
<1>2. Inv /\ Inv' /\ ClaimsCovered /\ [Next]_vars => ClaimsCovered'
  BY StepCovered
<1>3. Inv /\ ClaimsCovered => ExposureBounded
  <2>1. ASSUME Inv, ClaimsCovered, NEW a \in Account PROVE Headroom(a) + Exposure >= 0
    <3>1. SumAmount(Claims(a)) \in Nat
      BY <2>1, ClaimsType DEF Inv
    <3>2. Headroom(a) \in Int /\ Exposure \in Nat
      BY <2>1, HeadroomType, ExposureType DEF Inv
    <3>3. SumAmount(Claims(a)) <= Headroom(a) + Exposure
      BY <2>1 DEF ClaimsCovered
    <3> QED
      BY <3>1, <3>2, <3>3
  <2> QED
    BY <2>1 DEF ExposureBounded, Exposure
<1> QED
  BY <1>1, <1>2, <1>3, Inductive, PTL DEF Spec
==============================================================================
