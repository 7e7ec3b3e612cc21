------------------------ MODULE TransferCreationProofs ------------------------
(***************************************************************************)
(* Proofs about TransferCreation, for any sets of requests, quotes, keys   *)
(* and phones.                                                             *)
(***************************************************************************)
EXTENDS TransferCreation, TLAPS

-----------------------------------------------------------------------------
(***************************************************************************)
(* The inductive invariant.                                                *)
(*                                                                         *)
(* Stored says which documents a request has written by the step it has    *)
(* reached, and so which are there for the later steps to update; with the *)
(* types it is inductive.  Owned says that a transfer is for the quote its *)
(* request asked for; Unique, that it is the only one for it.  Linked and  *)
(* Referred say, step by step and for either route, what of quote,         *)
(* transfer and order has been tied together, and Outlives what is left of *)
(* it when the request has ended.                                          *)
(***************************************************************************)
CollectSteps == {"makeKotaniPayTx", "saveCustomer", "newCustomer", "deposit",
                 "saveTransferRef", "saveOrderRef"}
BankSteps == {"getRate", "offRamp", "createBankQuote"}
OrderSteps == {"saveQuote", "saveLink"} \cup BankSteps \cup CollectSteps
TransferSteps == {"saveTransaction", "createOrder"} \cup OrderSteps

Started == \A r \in Request : pc[r] # "idle" => req[r] # None

Stored ==
    \A r \in Request :
        /\ pc[r] \in TransferSteps => transfers[r] # None
        /\ pc[r] \in OrderSteps => orders[r] # None
        /\ pc[r] = "saveOrderRef" => ref[r] \in SavedRef

TypeInv == TypeOK /\ Started /\ Stored

\* A request's documents are for the quote it asked for.
Owned(r) ==
    /\ transfers[r] # None =>
          pc[r] \in TransferSteps \cup {"done"} /\ transfers[r].quote = req[r].quote
    /\ orders[r] # None =>
          /\ pc[r] \in OrderSteps \cup {"done"}
          /\ transfers[r] # None
          /\ orders[r].quote = req[r].quote

\* What the route has tied together by each step.
Linked(r) ==
    /\ pc[r] \in BankSteps => req[r].route = "out"
    /\ pc[r] \in CollectSteps => req[r].route = "in"
    /\ pc[r] \in {"createOrder"} \cup OrderSteps => r \in transactions
    /\ pc[r] = "saveLink" /\ req[r].route = "in" => used[req[r].quote]
    /\ pc[r] = "saveQuote" /\ req[r].route # "in" => transfers[r].orderId = r
    /\ pc[r] \in CollectSteps =>
          used[req[r].quote] /\ transfers[r].orderId = r

\* Which Kotani reference the documents hold.
Referred(r) ==
    /\ transfers[r] # None /\ pc[r] \notin {"saveOrderRef", "done"} =>
          transfers[r].kotaniRef = None
    /\ orders[r] # None /\ pc[r] # "done" => orders[r].orderRef = None
    /\ pc[r] = "saveTransferRef" => ref[r] # None
    /\ pc[r] = "saveOrderRef" =>
          ref[r] # None /\ transfers[r].kotaniRef = ref[r]

OnRecord(r) ==
    /\ orders[r] # None
    /\ transfers[r] # None
    /\ transfers[r].orderId = r
    /\ used[orders[r].quote]

\* What outlives the request.
Outlives(r) ==
    /\ answer[r] # "none" => pc[r] = "done"
    /\ answer[r] = "ok" =>
          /\ OnRecord(r)
          /\ r \in transactions
          /\ transfers[r].kotaniRef = orders[r].orderRef
          /\ req[r].route = "in" => orders[r].orderRef # None
    /\ r \in deposits => OnRecord(r)
    /\ \A p \in Phone : activeOrder[p] = r => OnRecord(r)

Local(r) == Owned(r) /\ Linked(r) /\ Referred(r) /\ Outlives(r)

Unique ==
    \A r, s \in Request :
        /\ transfers[r] # None /\ transfers[s] # None
        /\ transfers[r].quote = transfers[s].quote
        => r = s

Inv == TypeInv /\ (\A r \in Request : Local(r)) /\ Unique

\* Every step a request can be at, spelled out.
LEMMA Steps ==
    PC = {"idle", "done", "getKey", "setKey", "findQuote", "findTransfer",
          "saveTransfer", "saveTransaction", "createOrder", "saveQuote",
          "saveLink", "makeKotaniPayTx", "saveTransferRef", "saveOrderRef",
          "getRate", "offRamp", "createBankQuote", "saveCustomer",
          "newCustomer", "deposit"}
BY DEF PC, Running, GateSteps, HandlerSteps, KotaniSteps

LEMMA TypeInit == Init => TypeInv
<1> SUFFICES ASSUME Init PROVE TypeInv
    OBVIOUS
<1>1. TypeOK
    BY Steps DEF Init, TypeOK
<1>2. Started
    BY DEF Init, Started
<1>3. Stored
    BY DEF Init, Stored, TransferSteps, OrderSteps, BankSteps, CollectSteps
<1> QED
    BY <1>1, <1>2, <1>3 DEF TypeInv

LEMMA TypeNext == TypeInv /\ [Next]_vars => TypeInv'
<1> SUFFICES ASSUME TypeInv, [Next]_vars PROVE TypeInv'
    OBVIOUS
<1> USE Steps DEF TypeInv, TypeOK, Started, Stored, At, Goto, Answer, docs,
             outside, TransferSteps, OrderSteps, BankSteps, CollectSteps
<1>1. CASE UNCHANGED vars
    BY <1>1 DEF vars
<1>2. CASE Crash
    BY <1>2 DEF Crash, Running, GateSteps, HandlerSteps, KotaniSteps
<1>3. ASSUME NEW r \in Request, Arrive(r) PROVE TypeInv'
    BY <1>3, NoneAssumption DEF Arrive
<1>4. ASSUME NEW r \in Request, Step(r) PROVE TypeInv'
  <2> req[r] \in RequestBody
      BY <1>4 DEF Step, GetKey, SetKey, FindQuote, FindTransfer, SaveTransfer,
        SaveTransaction, CreateOrder, SaveQuote, SaveLink, GetRate, OffRamp,
        CreateBankQuote, FindCustomer, SaveCustomer, NewCustomer, Deposit, Tell,
        SaveTransferRef, SaveOrderRef, Refuse, GateFails, HandlerSteps, GateSteps
  <2>1. CASE GetKey(r)
      BY <2>1 DEF GetKey
  <2>2. CASE SetKey(r)
      BY <2>2 DEF SetKey, RequestBody
  <2>3. CASE FindQuote(r)
      BY <2>3 DEF FindQuote
  <2>4. CASE FindTransfer(r)
      BY <2>4 DEF FindTransfer
  <2>5. CASE SaveTransfer(r)
    <3> DEFINE doc == [quote |-> req[r].quote, orderId |-> None,
                       bankOrderId |-> FALSE, kotaniRef |-> None]
    <3>1. doc \in TransferDoc
        BY DEF RequestBody, TransferDoc, SavedRef
    <3>2. doc # None
        BY <3>1, NoneAssumption
    <3>3. \/ Answer(r, "refused") /\ transfers' = transfers
          \/ Goto(r, "saveTransaction") /\ transfers' = [transfers EXCEPT ![r] = doc]
        BY <2>5 DEF SaveTransfer
    <3>4. /\ pc[r] = "saveTransfer"
          /\ UNCHANGED <<req, ref, idempotencyKeys, used, transactions,
                          orders, bankQuotes, outside>>
        BY <2>5 DEF SaveTransfer
    <3> HIDE DEF doc
    <3> QED
        BY <3>1, <3>2, <3>3, <3>4
  <2>6. CASE SaveTransaction(r)
      BY <2>6 DEF SaveTransaction
  <2>7. CASE CreateOrder(r)
    <3> DEFINE doc == [quote |-> req[r].quote, orderRef |-> None]
    <3>1. doc \in OrderDoc
        BY DEF RequestBody, OrderDoc, SavedRef
    <3>2. doc # None
        BY <3>1, NoneAssumption
    <3>3. AfterOrder(req[r]) \in {"saveQuote", "saveLink"} \cup BankSteps
      <4>1. req[r].via \in {"momo", "payCrest", "bankQuote"}
          BY DEF RequestBody, Via
      <4> QED
          BY <4>1 DEF AfterOrder, BeforeLink
    <3>4. orders' = [orders EXCEPT ![r] = doc]
        BY <2>7 DEF CreateOrder
    <3> HIDE DEF doc
    <3> QED
        BY <2>7, <3>1, <3>2, <3>3, <3>4 DEF CreateOrder
  <2>8. CASE SaveQuote(r)
      BY <2>8 DEF SaveQuote, RequestBody
  <2>9. CASE SaveLink(r)
    <3> DEFINE doc == [transfers[r] EXCEPT !.orderId = r,
              !.bankOrderId = (req[r].route = "out" /\ req[r].via = "payCrest")]
    <3>1. transfers[r] \in TransferDoc
        BY <2>9 DEF SaveLink
    <3>2. doc \in TransferDoc
        BY <3>1 DEF TransferDoc
    <3>3. doc # None
        BY <3>2, NoneAssumption
    <3>4. transfers' = [transfers EXCEPT ![r] = doc]
        BY <2>9, <3>1 DEF SaveLink, TransferDoc
    <3>5. /\ pc[r] = "saveLink"
          /\ \/ Goto(r, "makeKotaniPayTx")
             \/ Goto(r, "saveQuote")
          /\ UNCHANGED <<req, ref, idempotencyKeys, used, transactions,
                                 orders, bankQuotes, outside>>
        BY <2>9 DEF SaveLink, AfterLink
    <3> HIDE DEF doc
    <3> QED
        BY <3>2, <3>3, <3>4, <3>5
  <2>10. CASE GetRate(r)
      BY <2>10 DEF GetRate
  <2>11. CASE OffRamp(r)
      BY <2>11 DEF OffRamp
  <2>12. CASE CreateBankQuote(r)
      BY <2>12 DEF CreateBankQuote
  <2>13. CASE FindCustomer(r)
      BY <2>13 DEF FindCustomer, Return, Ref
  <2>14. CASE SaveCustomer(r)
      BY <2>14 DEF SaveCustomer, Return, Ref, RequestBody
  <2>15. CASE NewCustomer(r)
      BY <2>15 DEF NewCustomer, Tell, Return, Ref, RequestBody
  <2>16. CASE Deposit(r)
      BY <2>16 DEF Deposit, Tell, Return, Ref
  <2>17. CASE SaveTransferRef(r)
    <3> DEFINE doc == [transfers[r] EXCEPT !.kotaniRef = ref[r]]
    <3>1. transfers[r] \in TransferDoc
        BY <2>17 DEF SaveTransferRef
    <3>2. CASE Castable(ref[r])
      <4>1. ref[r] \in SavedRef
          BY <3>2 DEF Castable, SavedRef
      <4>2. doc \in TransferDoc
          BY <3>1, <4>1 DEF TransferDoc
      <4>3. doc # None
          BY <4>2, NoneAssumption
      <4>4. transfers' = [transfers EXCEPT ![r] = doc]
          BY <2>17, <3>2 DEF SaveTransferRef
      <4>5. /\ pc[r] = "saveTransferRef"
            /\ Goto(r, "saveOrderRef")
            /\ UNCHANGED <<req, ref, idempotencyKeys, used, transactions,
                                   orders, bankQuotes, outside>>
          BY <2>17, <3>2 DEF SaveTransferRef
      <4> HIDE DEF doc
      <4> QED
          BY <2>17, <4>1, <4>2, <4>3, <4>4, <4>5
    <3>3. CASE ~Castable(ref[r])
        BY <2>17, <3>3 DEF SaveTransferRef
    <3> QED
        BY <3>2, <3>3
  <2>18. CASE SaveOrderRef(r)
    <3> DEFINE doc == [orders[r] EXCEPT !.orderRef = ref[r]]
    <3>1. orders[r] \in OrderDoc
        BY <2>18 DEF SaveOrderRef
    <3>2. ref[r] \in SavedRef
        BY <2>18 DEF SaveOrderRef
    <3>3. doc \in OrderDoc
        BY <3>1, <3>2 DEF OrderDoc
    <3>4. doc # None
        BY <3>3, NoneAssumption
    <3>5. orders' = [orders EXCEPT ![r] = doc]
        BY <2>18 DEF SaveOrderRef
    <3> HIDE DEF doc
    <3> QED
        BY <2>18, <3>3, <3>4, <3>5 DEF SaveOrderRef
  <2>19. CASE Refuse(r)
      BY <2>19 DEF Refuse, HandlerSteps
  <2>20. CASE GateFails(r)
      BY <2>20 DEF GateFails, GateSteps
  <2> QED
      BY <1>4, <2>1, <2>2, <2>3, <2>4, <2>5, <2>6, <2>7, <2>8, <2>9, <2>10,
         <2>11, <2>12, <2>13, <2>14, <2>15, <2>16, <2>17, <2>18, <2>19, <2>20
      DEF Step
<1> QED
    BY <1>1, <1>2, <1>3, <1>4 DEF Next

\* The model's variables keep their types in every behaviour.
THEOREM TypeCorrect == Spec => []TypeOK
<1>1. Spec => []TypeInv
    BY TypeInit, TypeNext, PTL DEF Spec
<1>2. TypeInv => TypeOK
    BY DEF TypeInv
<1> QED
    BY <1>1, <1>2, PTL

-----------------------------------------------------------------------------
(***************************************************************************)
(* Requests do not disturb each other.                                     *)
(***************************************************************************)
Same(s) ==
    /\ pc'[s] = pc[s] /\ req'[s] = req[s] /\ ref'[s] = ref[s]
    /\ answer'[s] = answer[s]
    /\ transfers'[s] = transfers[s] /\ orders'[s] = orders[s]
    /\ s \in transactions' <=> s \in transactions
    /\ s \in deposits' <=> s \in deposits
    /\ \A p \in Phone : activeOrder'[p] = s => activeOrder[p] = s

UsedStays == \A q \in Quote : used[q] => used'[q]

LEMMA OthersSame ==
    ASSUME TypeInv, NEW r \in Request, Arrive(r) \/ Step(r),
           NEW s \in Request, s # r
    PROVE  Same(s) /\ UsedStays
<1> USE DEF TypeInv, TypeOK, At, Goto, Answer, Return, docs, outside, Same, UsedStays
<1>1. CASE Arrive(r)
    BY <1>1 DEF Arrive
<1>2. CASE GetKey(r)
    BY <1>2 DEF GetKey
<1>3. CASE SetKey(r)
    BY <1>3 DEF SetKey
<1>4. CASE FindQuote(r)
    BY <1>4 DEF FindQuote
<1>5. CASE FindTransfer(r)
    BY <1>5 DEF FindTransfer
<1>6. CASE SaveTransfer(r)
    BY <1>6 DEF SaveTransfer
<1>7. CASE SaveTransaction(r)
    BY <1>7 DEF SaveTransaction
<1>8. CASE CreateOrder(r)
    BY <1>8 DEF CreateOrder
<1>9. CASE SaveQuote(r)
    BY <1>9 DEF SaveQuote
<1>10. CASE SaveLink(r)
    BY <1>10 DEF SaveLink
<1>11. CASE GetRate(r)
    BY <1>11 DEF GetRate
<1>12. CASE OffRamp(r)
    BY <1>12 DEF OffRamp
<1>13. CASE CreateBankQuote(r)
    BY <1>13 DEF CreateBankQuote
<1>14. CASE FindCustomer(r)
    BY <1>14 DEF FindCustomer
<1>15. CASE SaveCustomer(r)
    BY <1>15 DEF SaveCustomer
<1>16. CASE NewCustomer(r)
    BY <1>16 DEF NewCustomer, Tell
<1>17. CASE Deposit(r)
    BY <1>17 DEF Deposit, Tell
<1>18. CASE SaveTransferRef(r)
    BY <1>18 DEF SaveTransferRef
<1>19. CASE SaveOrderRef(r)
    BY <1>19 DEF SaveOrderRef
<1>20. CASE Refuse(r) \/ GateFails(r)
    BY <1>20 DEF Refuse, GateFails
<1> QED
    BY <1>1, <1>2, <1>3, <1>4, <1>5, <1>6, <1>7, <1>8, <1>9, <1>10, <1>11,
       <1>12, <1>13, <1>14, <1>15, <1>16, <1>17, <1>18, <1>19, <1>20 DEF Step

LEMMA SameKeepsLocal ==
    ASSUME TypeInv, NEW s \in Request, Same(s), UsedStays, Local(s)
    PROVE  Local(s)'
<1>1. Owned(s)'
    BY DEF Local, Owned, Same
<1>2. pc[s] # "idle" => req[s].quote \in Quote
    BY DEF TypeInv, TypeOK, Started, RequestBody
<1>3. orders[s] # None => orders[s].quote \in Quote
    BY DEF TypeInv, TypeOK, OrderDoc
<1>4. OnRecord(s) => OnRecord(s)'
    BY <1>3 DEF OnRecord, Same, UsedStays
<1>5. Linked(s)'
    BY <1>2 DEF Local, Linked, Same, UsedStays, CollectSteps
<1>6. Referred(s)'
    BY DEF Local, Referred, Same
<1>7. Outlives(s)'
    BY <1>4 DEF Local, Outlives, Same
<1> QED
    BY <1>1, <1>5, <1>6, <1>7 DEF Local

(***************************************************************************)
(* What a request does keeps what it has tied together.                    *)
(***************************************************************************)
LEMMA StepKeepsLocal ==
    ASSUME TypeInv, NEW r \in Request, Local(r), Arrive(r) \/ Step(r)
    PROVE  Local(r)'
<1> USE DEF TypeInv, TypeOK, Started, Stored, Local, Owned, Linked, Referred,
            Outlives, OnRecord, At, Goto, Answer, docs, outside, TransferSteps,
            OrderSteps, BankSteps, CollectSteps
<1>0. /\ pc[r] # "idle" => /\ req[r] \in RequestBody
                            /\ req[r].quote \in Quote
                            /\ req[r].route \in {"in", "out"}
      /\ orders[r] # None => orders[r].quote \in Quote
    BY DEF RequestBody, Route, OrderDoc
<1>1. CASE Arrive(r)
    BY <1>1 DEF Arrive
<1>2. CASE GetKey(r)
    BY <1>2 DEF GetKey
<1>3. CASE SetKey(r)
    BY <1>3 DEF SetKey
<1>4. CASE FindQuote(r)
    BY <1>4 DEF FindQuote
<1>5. CASE FindTransfer(r)
    BY <1>5 DEF FindTransfer
<1>6. CASE SaveTransfer(r)
    BY <1>6 DEF SaveTransfer
<1>7. CASE SaveTransaction(r)
    BY <1>7 DEF SaveTransaction
<1>8. CASE CreateOrder(r)
  <2>1. /\ pc[r] = "createOrder"
        /\ pc'[r] = AfterOrder(req[r])
        /\ orders'[r] = [quote |-> req[r].quote, orderRef |-> None]
        /\ UNCHANGED <<req, ref, answer, used, transfers, transactions, outside>>
      BY <1>8 DEF CreateOrder
  <2>2. /\ pc'[r] \in {"saveQuote", "saveLink"} \cup BankSteps
        /\ req[r].route = "in" <=> pc'[r] = "saveQuote"
    <3>1. req[r].via \in {"momo", "payCrest", "bankQuote"}
        BY <1>0, <2>1 DEF RequestBody, Via
    <3> QED
        BY <2>1, <3>1 DEF AfterOrder, BeforeLink
  <2>3. Owned(r)'
      BY <2>1, <2>2
  <2>4. Linked(r)'
      BY <1>0, <2>1, <2>2
  <2>5. Referred(r)'
      BY <2>1, <2>2
  <2>6. Outlives(r)'
      BY <2>1, <2>2
  <2> QED
      BY <2>3, <2>4, <2>5, <2>6
<1>9. CASE SaveQuote(r)
  <2>1. /\ pc[r] = "saveQuote"
        /\ used'[req[r].quote]
        /\ orders[r] # None => (used[orders[r].quote] => used'[orders[r].quote])
        /\ \/ /\ req[r].route = "in"
              /\ pc'[r] = "saveLink" /\ answer'[r] = answer[r]
           \/ /\ req[r].route # "in"
              /\ pc'[r] = "done" /\ answer'[r] = "ok"
        /\ UNCHANGED <<req, ref, transfers, orders, transactions, outside>>
      BY <1>0, <1>9 DEF SaveQuote
  <2>2. orders[r] # None /\ transfers[r] # None
      BY <2>1
  <2>3. Owned(r)'
      BY <2>1
  <2>4. Linked(r)'
      BY <2>1
  <2>5. Referred(r)'
      BY <2>1
  <2>6. Outlives(r)'
      BY <2>1, <2>2
  <2> QED
      BY <2>3, <2>4, <2>5, <2>6
<1>10. CASE SaveLink(r)
  <2>1. transfers[r] \in TransferDoc /\ transfers[r] # None
      BY <1>10 DEF SaveLink
  <2>2. /\ pc[r] = "saveLink"
        /\ pc'[r] = IF req[r].route = "in" THEN "makeKotaniPayTx" ELSE "saveQuote"
        /\ transfers'[r].quote = transfers[r].quote
        /\ transfers'[r].orderId = r
        /\ transfers'[r].kotaniRef = transfers[r].kotaniRef
        /\ UNCHANGED <<req, ref, answer, used, orders, transactions, outside>>
      BY <1>10, <2>1 DEF SaveLink, AfterLink, TransferDoc
  <2>3. transfers'[r] # None
      BY <2>2, TypeNext, <1>10 DEF Next, Step
  <2>4. Owned(r)'
      BY <2>1, <2>2, <2>3
  <2>5. Linked(r)'
      BY <2>2
  <2>6. Referred(r)'
      BY <2>1, <2>2
  <2>7. Outlives(r)'
      BY <2>2, <2>3
  <2> QED
      BY <2>4, <2>5, <2>6, <2>7
<1>11. CASE GetRate(r)
    BY <1>11 DEF GetRate
<1>12. CASE OffRamp(r)
    BY <1>12 DEF OffRamp
<1>13. CASE CreateBankQuote(r)
    BY <1>13 DEF CreateBankQuote
<1>14. CASE FindCustomer(r)
  <2>1. /\ pc[r] = "makeKotaniPayTx"
        /\ pc'[r] \in CollectSteps \ {"makeKotaniPayTx", "saveOrderRef"}
        /\ pc'[r] = "saveTransferRef" => ref'[r] \in Ref
        /\ UNCHANGED <<req, answer, docs>>
      BY <1>14 DEF FindCustomer, Return, Ref
  <2>2. OnRecord(r) /\ OnRecord(r)'
      BY <2>1
  <2>3. Owned(r)'
      BY <2>1
  <2>4. Linked(r)'
      BY <2>1
  <2>5. Referred(r)'
      BY <2>1, NoneAssumption
  <2>6. Outlives(r)'
      BY <2>1, <2>2
  <2> QED
      BY <2>3, <2>4, <2>5, <2>6
<1>15. CASE SaveCustomer(r)
  <2>1. /\ pc[r] = "saveCustomer"
        /\ pc'[r] \in CollectSteps \ {"makeKotaniPayTx", "saveOrderRef"}
        /\ pc'[r] = "saveTransferRef" => ref'[r] \in Ref
        /\ UNCHANGED <<req, answer, docs>>
      BY <1>15 DEF SaveCustomer, Return, Ref
  <2>2. OnRecord(r) /\ OnRecord(r)'
      BY <2>1
  <2>3. Owned(r)'
      BY <2>1
  <2>4. Linked(r)'
      BY <2>1
  <2>5. Referred(r)'
      BY <2>1, NoneAssumption
  <2>6. Outlives(r)'
      BY <2>1, <2>2
  <2> QED
      BY <2>3, <2>4, <2>5, <2>6
<1>16. CASE NewCustomer(r)
  <2>1. /\ pc[r] = "newCustomer"
        /\ pc'[r] \in CollectSteps \ {"makeKotaniPayTx", "saveOrderRef"}
        /\ pc'[r] = "saveTransferRef" => ref'[r] \in Ref
        /\ UNCHANGED <<req, answer, docs>>
      BY <1>16 DEF NewCustomer, Tell, Return, Ref
  <2>2. OnRecord(r) /\ OnRecord(r)'
      BY <2>1
  <2>3. Owned(r)'
      BY <2>1
  <2>4. Linked(r)'
      BY <2>1
  <2>5. Referred(r)'
      BY <2>1, NoneAssumption
  <2>6. Outlives(r)'
      BY <2>1, <2>2
  <2> QED
      BY <2>3, <2>4, <2>5, <2>6
<1>17. CASE Deposit(r)
  <2>1. /\ pc[r] = "deposit"
        /\ pc'[r] \in CollectSteps \ {"makeKotaniPayTx", "saveOrderRef"}
        /\ pc'[r] = "saveTransferRef" => ref'[r] \in Ref
        /\ UNCHANGED <<req, answer, docs>>
      BY <1>17 DEF Deposit, Tell, Return, Ref
  <2>2. OnRecord(r) /\ OnRecord(r)'
      BY <2>1
  <2>3. Owned(r)'
      BY <2>1
  <2>4. Linked(r)'
      BY <2>1
  <2>5. Referred(r)'
      BY <2>1, NoneAssumption
  <2>6. Outlives(r)'
      BY <2>1, <2>2
  <2> QED
      BY <2>3, <2>4, <2>5, <2>6
<1>18. CASE SaveTransferRef(r)
  <2>1. /\ pc[r] = "saveTransferRef"
        /\ transfers[r] \in TransferDoc /\ transfers[r] # None /\ orders[r] # None
        /\ UNCHANGED <<req, ref, used, orders, transactions, outside>>
      BY <1>18 DEF SaveTransferRef
  <2>2. CASE Castable(ref[r])
    <3>1. /\ pc'[r] = "saveOrderRef" /\ answer'[r] = answer[r]
          /\ transfers'[r].quote = transfers[r].quote
          /\ transfers'[r].orderId = transfers[r].orderId
          /\ transfers'[r].kotaniRef = ref[r]
        BY <1>18, <2>1, <2>2 DEF SaveTransferRef, TransferDoc
    <3>2. transfers'[r] # None
        BY <2>1, <1>18, TypeNext, <3>1 DEF Next, Step
    <3>3. OnRecord(r)'
        BY <2>1, <3>1, <3>2
    <3>4. Owned(r)' /\ Linked(r)'
        BY <2>1, <3>1, <3>2
    <3>5. Referred(r)' /\ Outlives(r)'
        BY <2>1, <3>1, <3>3
    <3> QED
        BY <3>4, <3>5
  <2>3. CASE ~Castable(ref[r])
      BY <1>18, <2>1, <2>3 DEF SaveTransferRef
  <2> QED
      BY <2>2, <2>3
<1>19. CASE SaveOrderRef(r)
  <2>1. /\ pc[r] = "saveOrderRef"
        /\ orders[r] \in OrderDoc /\ orders[r] # None /\ transfers[r] # None
        /\ UNCHANGED <<req, ref, used, transfers, transactions, outside>>
      BY <1>19 DEF SaveOrderRef
  <2>2. /\ pc'[r] = "done" /\ answer'[r] = "ok"
        /\ orders'[r].quote = orders[r].quote
        /\ orders'[r].orderRef = ref[r]
      BY <1>19, <2>1 DEF SaveOrderRef, OrderDoc
  <2>3. orders'[r] # None
    <3>1. ref[r] \in SavedRef
        BY <2>1
    <3>2. orders'[r] \in OrderDoc
        BY <1>19, <2>1, <3>1 DEF SaveOrderRef, OrderDoc
    <3> QED
        BY <3>2, NoneAssumption
  <2>4. Owned(r)' /\ Linked(r)'
      BY <2>1, <2>2, <2>3
  <2>5. Referred(r)' /\ Outlives(r)'
      BY <2>1, <2>2, <2>3
  <2> QED
      BY <2>4, <2>5
<1>20. CASE Refuse(r) \/ GateFails(r)
    BY <1>20 DEF Refuse, GateFails, HandlerSteps, GateSteps
<1> QED
    BY <1>1, <1>2, <1>3, <1>4, <1>5, <1>6, <1>7, <1>8, <1>9, <1>10, <1>11,
       <1>12, <1>13, <1>14, <1>15, <1>16, <1>17, <1>18, <1>19, <1>20 DEF Step

-----------------------------------------------------------------------------
\* Only SaveTransfer adds a transfer, and the unique index keeps it from
\* adding a second one for a quote.
LEMMA StepKeepsUnique ==
    ASSUME Inv, NEW r \in Request, Arrive(r) \/ Step(r)
    PROVE  Unique'
<1>1. ASSUME NEW s \in Request, s # r
      PROVE  transfers'[s] = transfers[s]
    BY <1>1, OthersSame DEF Inv, Same
<1>2. CASE transfers[r] = None /\ transfers'[r] # None
  <2>1. ~SaveLink(r) /\ ~SaveTransferRef(r)
      BY <1>2 DEF Inv, TypeInv, Stored, TransferSteps, OrderSteps, CollectSteps,
        At, SaveLink, SaveTransferRef
  <2>2. SaveTransfer(r)
      BY <1>2, <2>1 DEF Step, Arrive, GetKey, SetKey, FindQuote, FindTransfer,
        SaveTransaction, CreateOrder, SaveQuote, GetRate, OffRamp,
        CreateBankQuote, FindCustomer, SaveCustomer, NewCustomer, Deposit,
        SaveOrderRef, Refuse, GateFails, docs
  <2>3. /\ ~HasTransfer(req[r].quote)
        /\ transfers'[r].quote = req[r].quote
      BY <1>2, <2>2 DEF Inv, TypeInv, TypeOK, SaveTransfer, DuplicateQuote
  <2> QED
      BY <1>1, <2>3 DEF Inv, Unique, HasTransfer
<1>3. CASE transfers[r] # None
  <2>1. transfers'[r] # None => transfers'[r].quote = transfers[r].quote
    <3>1. Local(r) /\ Local(r)'
        BY StepKeepsLocal DEF Inv
    <3>2. pc[r] # "idle"
        BY <1>3, <3>1 DEF Local, Owned, TransferSteps, OrderSteps, BankSteps,
                          CollectSteps
    <3>3. req' = req
        BY <3>2 DEF Step, Arrive, At, GetKey, SetKey, FindQuote, FindTransfer,
          SaveTransfer, SaveTransaction, CreateOrder, SaveQuote, SaveLink,
          GetRate, OffRamp, CreateBankQuote, FindCustomer, SaveCustomer,
          NewCustomer, Deposit, Tell, SaveTransferRef, SaveOrderRef, Refuse,
          GateFails
    <3> QED
        BY <1>3, <3>1, <3>3 DEF Local, Owned
  <2> QED
      BY <1>1, <1>3, <2>1 DEF Inv, Unique
<1>4. CASE transfers[r] = None /\ transfers'[r] = None
    BY <1>1, <1>4 DEF Inv, Unique
<1> QED
    BY <1>2, <1>3, <1>4

LEMMA InvInit == Init => Inv
<1> SUFFICES ASSUME Init PROVE Inv
    OBVIOUS
<1>1. \A r \in Request : Local(r)
    BY NoneAssumption, EarlierAssumption DEF Init, Local, Owned, Linked,
       Referred, Outlives, BankSteps, CollectSteps, OrderSteps
<1>2. Unique
    BY DEF Init, Unique
<1> QED
    BY <1>1, <1>2, TypeInit DEF Inv

LEMMA InvNext == Inv /\ [Next]_vars => Inv'
<1> SUFFICES ASSUME Inv, [Next]_vars PROVE Inv'
    OBVIOUS
<1>1. TypeInv'
    BY TypeNext DEF Inv
<1>2. ASSUME NEW r \in Request, Arrive(r) \/ Step(r) PROVE Inv'
  <2>1. ASSUME NEW s \in Request PROVE Local(s)'
      BY <1>2, OthersSame, SameKeepsLocal, StepKeepsLocal DEF Inv
  <2> QED
      BY <1>1, <1>2, <2>1, StepKeepsUnique DEF Inv
<1>3. CASE Crash
  <2>1. ASSUME NEW s \in Request PROVE Local(s)'
    <3>1. Local(s)
        BY DEF Inv
    <3>2. /\ UNCHANGED <<req, ref, docs, outside>>
          /\ \/ pc'[s] = pc[s] /\ answer'[s] = answer[s]
             \/ pc[s] # "idle" /\ pc'[s] = "done" /\ answer'[s] = "lost"
        BY <1>3 DEF Crash, Running, GateSteps, HandlerSteps, KotaniSteps
    <3>3. Owned(s)' /\ Linked(s)' /\ Referred(s)'
        BY <3>1, <3>2 DEF Local, Owned, Linked, Referred, docs, outside,
           TransferSteps, OrderSteps, BankSteps, CollectSteps
    <3>4. Outlives(s)'
        BY <3>1, <3>2 DEF Local, Outlives, OnRecord, docs, outside
    <3> QED
        BY <3>3, <3>4 DEF Local
  <2>2. Unique'
      BY <1>3 DEF Inv, Unique, Crash, docs
  <2> QED
      BY <1>1, <2>1, <2>2 DEF Inv
<1>4. CASE UNCHANGED vars
  <2>1. ASSUME NEW s \in Request PROVE Local(s)'
      BY <1>4 DEF Inv, Local, Owned, Linked, Referred, Outlives, OnRecord, vars,
         docs, outside
  <2>2. Unique'
      BY <1>4 DEF Inv, Unique, vars, docs
  <2> QED
      BY <1>1, <2>1, <2>2 DEF Inv
<1> QED
    BY <1>2, <1>3, <1>4 DEF Next

LEMMA Invariance == Spec => []Inv
<1> QED
    BY InvInit, InvNext, PTL DEF Spec

-----------------------------------------------------------------------------
\* However many requests pass the checks on a quote before any of them stores
\* a transfer, one order at most comes of it.
THEOREM OneOrder == Spec => []OneOrderPerQuote
<1>1. Inv => OneOrderPerQuote
    BY DEF Inv, Local, Owned, Unique, OneOrderPerQuote
<1> QED
    BY <1>1, Invariance, PTL

\* Money is never collected, nor Kotani's callback pointed at an order, before
\* the order is on record and its quote used.
THEOREM CollectedOnRecord == Spec => []CollectsOnRecord
<1>1. Inv => CollectsOnRecord
    BY DEF Inv, Local, Outlives, OnRecord, CollectsOnRecord
<1> QED
    BY <1>1, Invariance, PTL

-----------------------------------------------------------------------------
(***************************************************************************)
(* What the store was told, and retries.                                   *)
(*                                                                         *)
(* Told says that a request whose store was sent TransferFailed still      *)
(* holds the object the next save rejects, or has ended.  Keyed says that  *)
(* the key of every request that was let through is in Redis: it is what   *)
(* Retried needs to refuse the retry, and it never fails again, because    *)
(* nothing deletes a key.  Opened says whose order PayCrest can hold.      *)
(* Telling says that a request asks Kotani once, and holds what came of it *)
(* until it is saved.                                                      *)
(***************************************************************************)
Told(r) ==
    "TransferFailed" \in events[r] =>
        /\ pc[r] \in {"saveTransferRef", "done"}
        /\ pc[r] = "saveTransferRef" => ref[r] = "failure"
        /\ answer[r] # "ok"

Keyed(r) == Served(r) => req[r].key \in idempotencyKeys

Retried(r) ==
    req[r] # None /\ req[r].late =>
        /\ req[r].key \in idempotencyKeys
        /\ pc[r] \in {"getKey", "done"}
        /\ answer[r] \in {"none", "keyUsed", "refused", "lost"}
        /\ transfers[r] = None

Opened(r) == r \in payCrestOrders => transfers[r] # None

Telling(r) ==
    /\ r \in deposits =>
          pc[r] \in {"saveTransferRef", "saveOrderRef", "done"}
    /\ pc[r] \in {"saveTransferRef", "saveOrderRef"} /\ Castable(ref[r]) =>
          TellsCollection(r, ref[r])
    /\ answer[r] = "ok" /\ req[r].route = "in" =>
          TellsCollection(r, orders[r].orderRef)

Aftermath(r) ==
    Told(r) /\ Keyed(r) /\ Retried(r) /\ Opened(r) /\ Telling(r)

FullInv == Inv /\ \A r \in Request : Aftermath(r)

\* A request tells its own store, and opens its own PayCrest order.
LEMMA OthersBeside ==
    ASSUME TypeInv, NEW r \in Request, Arrive(r) \/ Step(r),
           NEW s \in Request, s # r
    PROVE  /\ events'[s] = events[s]
           /\ s \in payCrestOrders' <=> s \in payCrestOrders
<1> USE DEF TypeInv, TypeOK, outside
<1>1. CASE NewCustomer(r)
    BY <1>1 DEF NewCustomer, Tell
<1>2. CASE Deposit(r)
    BY <1>2 DEF Deposit, Tell
<1>3. CASE OffRamp(r)
    BY <1>3 DEF OffRamp
<1>4. CASE ~NewCustomer(r) /\ ~Deposit(r) /\ ~OffRamp(r)
    BY <1>4 DEF Step, Arrive, GetKey, SetKey, FindQuote, FindTransfer,
       SaveTransfer, SaveTransaction, CreateOrder, SaveQuote, SaveLink, GetRate,
       CreateBankQuote, FindCustomer, SaveCustomer, SaveTransferRef,
       SaveOrderRef, Refuse, GateFails
<1> QED
    BY <1>1, <1>2, <1>3, <1>4

\* A key stored in Redis stays there.
LEMMA KeysStay ==
    ASSUME [Next]_vars
    PROVE  idempotencyKeys \subseteq idempotencyKeys'
<1>1. ASSUME NEW r \in Request, Arrive(r) \/ Step(r)
      PROVE  idempotencyKeys \subseteq idempotencyKeys'
    BY <1>1 DEF Step, Arrive, GetKey, SetKey, FindQuote, FindTransfer, SaveTransfer,
       SaveTransaction, CreateOrder, SaveQuote, SaveLink, GetRate, OffRamp,
       CreateBankQuote, FindCustomer, SaveCustomer, NewCustomer, Deposit,
       SaveTransferRef, SaveOrderRef, Refuse, GateFails
<1> QED
    BY <1>1 DEF Next, Crash, vars

\* A request is in its handler only after its key was stored, and only Arrive
\* changes what it asks for.
LEMMA StepKeepsKeyed ==
    ASSUME TypeInv, NEW r \in Request, Local(r), Keyed(r), Arrive(r) \/ Step(r)
    PROVE  Keyed(r)'
<1> USE DEF TypeInv, TypeOK, Keyed, Served, At, Goto, Answer, docs, HandlerSteps,
            KotaniSteps
<1>1. CASE Arrive(r)
  <2>1. transfers[r] = None /\ transfers' = transfers /\ pc'[r] = "getKey"
      BY <1>1 DEF Arrive, Local, Owned, TransferSteps, OrderSteps, BankSteps,
         CollectSteps
  <2> QED
      BY <2>1
<1>2. CASE GetKey(r)
    BY <1>2 DEF GetKey
<1>3. CASE SetKey(r)
    BY <1>3 DEF SetKey
<1>4. CASE GateFails(r)
    BY <1>4 DEF GateFails, GateSteps
<1>5. CASE Step(r) /\ ~GetKey(r) /\ ~SetKey(r) /\ ~GateFails(r)
  <2>1. pc[r] \in HandlerSteps \cup KotaniSteps /\ req' = req
      BY <1>5 DEF Step, FindQuote, FindTransfer, SaveTransfer, SaveTransaction,
         CreateOrder, SaveQuote, SaveLink, GetRate, OffRamp, CreateBankQuote,
         FindCustomer, SaveCustomer, NewCustomer, Deposit, SaveTransferRef,
         SaveOrderRef, Refuse
  <2> QED
      BY <1>5, <2>1, KeysStay DEF Next
<1> QED
    BY <1>1, <1>2, <1>3, <1>4, <1>5

LEMMA StepKeepsRetried ==
    ASSUME Inv, \A s \in Request : Keyed(s), NEW r \in Request, Retried(r),
           Arrive(r) \/ Step(r)
    PROVE  Retried(r)'
<1> USE DEF Retried, At, Goto, Answer, docs
<1>0. TypeInv /\ TypeOK /\ Started /\ Local(r)
    BY DEF Inv, TypeInv
<1>1. CASE Arrive(r)
  <2>1. /\ pc[r] = "idle"
        /\ pc'[r] = "getKey" /\ answer'[r] = answer[r]
        /\ UNCHANGED <<transfers, idempotencyKeys>>
      BY <1>0, <1>1 DEF Arrive, TypeOK
  <2>2. answer[r] = "none" /\ transfers[r] = None
      BY <1>0, <2>1 DEF Local, Owned, Outlives, TransferSteps, OrderSteps,
         BankSteps, CollectSteps
  <2>3. req'[r].late =>
          \E s \in Request : Served(s) /\ req[s].key = req'[r].key
      BY <1>0, <1>1 DEF Arrive, TypeOK
  <2>4. req'[r].late => req'[r].key \in idempotencyKeys
      BY <2>3 DEF Keyed
  <2> QED
      BY <2>1, <2>2, <2>4
<1>2. CASE GetKey(r)
    BY <1>0, <1>2 DEF GetKey, TypeOK
<1>3. CASE GateFails(r)
    BY <1>0, <1>3 DEF GateFails, GateSteps, TypeOK
<1>4. CASE Step(r) /\ ~GetKey(r) /\ ~GateFails(r)
  <2>1. pc[r] \notin {"getKey", "done"} /\ req[r] # None /\ req' = req
      BY <1>0, <1>4 DEF Step, SetKey, FindQuote, FindTransfer, SaveTransfer,
         SaveTransaction, CreateOrder, SaveQuote, SaveLink, GetRate, OffRamp,
         CreateBankQuote, FindCustomer, SaveCustomer, NewCustomer, Deposit,
         SaveTransferRef, SaveOrderRef, Refuse, HandlerSteps, Started
  <2> QED
      BY <2>1
<1> QED
    BY <1>1, <1>2, <1>3, <1>4

LEMMA StepKeepsTold ==
    ASSUME TypeInv, NEW r \in Request, Local(r), Told(r), Arrive(r) \/ Step(r)
    PROVE  Told(r)'
<1> USE DEF TypeInv, TypeOK, Told, At, Goto, Answer, Return, outside
<1>0. answer[r] # "none" => pc[r] = "done"
    BY DEF Local, Outlives
<1>1. CASE NewCustomer(r)
    BY <1>0, <1>1 DEF NewCustomer, Tell
<1>2. CASE Deposit(r)
    BY <1>0, <1>2 DEF Deposit, Tell
<1>3. CASE SaveTransferRef(r)
    BY <1>3 DEF SaveTransferRef, Castable
<1>4. CASE Refuse(r) \/ GateFails(r)
    BY <1>4 DEF Refuse, GateFails
<1>5. CASE /\ ~NewCustomer(r) /\ ~Deposit(r) /\ ~SaveTransferRef(r)
           /\ ~Refuse(r) /\ ~GateFails(r)
  <2>1. pc[r] \notin {"saveTransferRef", "done"} /\ events' = events
      BY <1>5 DEF Step, Arrive, GetKey, SetKey, FindQuote, FindTransfer,
         SaveTransfer, SaveTransaction, CreateOrder, SaveQuote, SaveLink,
         GetRate, OffRamp, CreateBankQuote, FindCustomer, SaveCustomer,
         SaveOrderRef
  <2> QED
      BY <2>1
<1> QED
    BY <1>1, <1>2, <1>3, <1>4, <1>5

\* A stored transfer is never removed.
LEMMA TransferStays ==
    ASSUME Inv, [Next]_vars, NEW r \in Request, transfers[r] # None
    PROVE  transfers'[r] # None /\ transfers'[r].quote = transfers[r].quote
<1>1. TypeInv /\ Local(r) /\ TypeInv'
    BY TypeNext DEF Inv
<1>2. CASE Crash \/ UNCHANGED vars
    BY <1>2 DEF Crash, vars, docs
<1>3. ASSUME NEW s \in Request \ {r}, Arrive(s) \/ Step(s)
      PROVE  transfers'[r] = transfers[r]
    BY <1>1, <1>3, OthersSame DEF Same
<1>4. CASE SaveTransfer(r)
    BY <1>1, <1>4 DEF SaveTransfer, At, Local, Owned, TransferSteps, OrderSteps,
       BankSteps, CollectSteps
<1>5. CASE SaveLink(r)
  <2>1. transfers[r] \in TransferDoc
      BY <1>1 DEF TypeInv, TypeOK
  <2>2. /\ transfers'[r].quote = transfers[r].quote
        /\ pc'[r] \in TransferSteps
      BY <1>1, <1>5, <2>1 DEF SaveLink, Goto, AfterLink, TypeInv, TypeOK,
         TransferDoc, TransferSteps, OrderSteps, CollectSteps
  <2> QED
      BY <1>1, <2>2 DEF TypeInv, Stored
<1>6. CASE SaveTransferRef(r)
  <2>1. transfers[r] \in TransferDoc
      BY <1>1 DEF TypeInv, TypeOK
  <2>2. CASE Castable(ref[r])
    <3>1. /\ transfers'[r].quote = transfers[r].quote
          /\ pc'[r] \in TransferSteps
        BY <1>1, <1>6, <2>1, <2>2 DEF SaveTransferRef, Goto, TypeInv, TypeOK,
           TransferDoc, TransferSteps, OrderSteps, CollectSteps
    <3> QED
        BY <1>1, <3>1 DEF TypeInv, Stored
  <2>3. CASE ~Castable(ref[r])
      BY <1>6, <2>3 DEF SaveTransferRef
  <2> QED
      BY <2>2, <2>3
<1>7. CASE /\ Arrive(r) \/ Step(r)
           /\ ~SaveTransfer(r) /\ ~SaveLink(r) /\ ~SaveTransferRef(r)
    BY <1>7 DEF Step, Arrive, GetKey, SetKey, FindQuote, FindTransfer,
       SaveTransaction, CreateOrder, SaveQuote, GetRate, OffRamp,
       CreateBankQuote, FindCustomer, SaveCustomer, NewCustomer, Deposit,
       SaveOrderRef, Refuse, GateFails, docs
<1> QED
    BY <1>2, <1>3, <1>4, <1>5, <1>6, <1>7 DEF Next

LEMMA StepKeepsOpened ==
    ASSUME Inv, NEW r \in Request, Opened(r), Arrive(r) \/ Step(r)
    PROVE  Opened(r)'
<1>1. CASE OffRamp(r)
  <2>1. transfers[r] # None
      BY <1>1 DEF OffRamp, At, Inv, TypeInv, Stored, TransferSteps, OrderSteps,
         BankSteps
  <2> QED
      BY <1>1, <2>1 DEF OffRamp, docs, Opened
<1>2. CASE ~OffRamp(r)
  <2>1. payCrestOrders' = payCrestOrders
      BY <1>2 DEF Step, Arrive, GetKey, SetKey, FindQuote, FindTransfer,
         SaveTransfer, SaveTransaction, CreateOrder, SaveQuote, SaveLink,
         GetRate, CreateBankQuote, FindCustomer, SaveCustomer, NewCustomer,
         Deposit, SaveTransferRef, SaveOrderRef, Refuse, GateFails, outside
  <2> QED
      BY <2>1, TransferStays DEF Opened, Next
<1> QED
    BY <1>1, <1>2

LEMMA StepKeepsTelling ==
    ASSUME Inv, NEW r \in Request, Telling(r), Arrive(r) \/ Step(r)
    PROVE  Telling(r)'
<1> USE DEF Telling, TellsCollection, Castable, At, Goto, Answer, Return
<1>0. /\ TypeOK
      /\ answer[r] # "none" => pc[r] = "done"
      /\ pc[r] = "saveOrderRef" => ref[r] \in SavedRef /\ orders[r] # None
      /\ pc[r] = "saveQuote" /\ req[r].route = "in" => r \notin deposits
    BY DEF Inv, TypeInv, Local, Outlives, Stored, OrderSteps, CollectSteps
<1>1. CASE Deposit(r)
  <2>1. r \notin deposits /\ pc'[r] = "saveTransferRef" /\ answer' = answer
        /\ answer[r] # "ok"
      BY <1>0, <1>1 DEF Deposit, TypeOK
  <2>2. \/ r \in deposits' /\ ref'[r] = "reference"
        \/ ref'[r] = "failure"
        \/ r \notin deposits' /\ ref'[r] = "errorText"
      BY <1>0, <1>1, <2>1 DEF Deposit, TypeOK
  <2> QED
      BY <2>1, <2>2
<1>2. CASE FindCustomer(r) \/ SaveCustomer(r) \/ NewCustomer(r)
  <2>1. /\ r \notin deposits /\ deposits' = deposits /\ answer' = answer
        /\ answer[r] # "ok" /\ pc'[r] # "saveOrderRef"
        /\ pc'[r] = "saveTransferRef" => ref'[r] \in {"failure", "errorText"}
      BY <1>0, <1>2 DEF FindCustomer, SaveCustomer, NewCustomer, TypeOK, outside
  <2> QED
      BY <2>1
<1>3. CASE SaveTransferRef(r)
  <2>1. UNCHANGED <<ref, deposits, req, orders>> /\ answer[r] # "ok"
      BY <1>0, <1>3 DEF SaveTransferRef, outside
  <2>2. \/ pc'[r] = "saveOrderRef" /\ answer' = answer
        \/ pc'[r] = "done" /\ answer'[r] = "refused"
      BY <1>0, <1>3 DEF SaveTransferRef, TypeOK
  <2> QED
      BY <1>0, <1>3, <2>1, <2>2 DEF SaveTransferRef
<1>4. CASE SaveOrderRef(r)
  <2>1. /\ pc[r] = "saveOrderRef" /\ UNCHANGED <<ref, deposits, req>>
        /\ pc'[r] = "done"
      BY <1>0, <1>4 DEF SaveOrderRef, TypeOK, outside
  <2>2. orders[r] \in OrderDoc /\ orders' = [orders EXCEPT ![r].orderRef = ref[r]]
      BY <1>0, <1>4 DEF SaveOrderRef, TypeOK
  <2>3. orders'[r].orderRef = ref[r]
      BY <1>0, <2>2 DEF TypeOK, OrderDoc
  <2>4. Castable(ref[r])
      BY <1>0, <2>1, NoneAssumption DEF SavedRef, Ref
  <2> QED
      BY <2>1, <2>3, <2>4
<1>5. CASE SaveQuote(r)
  <2>1. /\ UNCHANGED <<ref, deposits, req, orders>>
        /\ r \notin deposits /\ pc'[r] \notin {"saveTransferRef", "saveOrderRef"}
        /\ req[r].route = "in" => answer'[r] # "ok"
      BY <1>0, <1>5 DEF SaveQuote, TypeOK, outside
  <2> QED
      BY <2>1
<1>6. CASE Arrive(r)
  <2>1. /\ pc'[r] = "getKey" /\ deposits' = deposits /\ answer'[r] # "ok"
        /\ r \notin deposits
      BY <1>0, <1>6 DEF Arrive, TypeOK, outside
  <2> QED
      BY <2>1
<1>7. CASE Refuse(r) \/ GateFails(r)
  <2>1. pc'[r] = "done" /\ answer'[r] = "refused" /\ deposits' = deposits
      BY <1>0, <1>7 DEF Refuse, GateFails, TypeOK, outside
  <2> QED
      BY <2>1
<1>8. CASE /\ Step(r) /\ ~Deposit(r) /\ ~FindCustomer(r) /\ ~SaveCustomer(r)
           /\ ~NewCustomer(r) /\ ~SaveTransferRef(r) /\ ~SaveOrderRef(r)
           /\ ~SaveQuote(r) /\ ~Refuse(r) /\ ~GateFails(r)
  <2>1. /\ pc[r] \notin {"saveTransferRef", "saveOrderRef", "done"}
        /\ pc'[r] \notin {"saveTransferRef", "saveOrderRef"}
        /\ deposits' = deposits /\ answer'[r] # "ok"
    <3>1. req[r] \in RequestBody
        BY <1>0, <1>8 DEF Step, GetKey, SetKey, FindQuote, FindTransfer,
           SaveTransfer, SaveTransaction, CreateOrder, SaveLink, GetRate,
           OffRamp, CreateBankQuote, TypeOK, Inv, TypeInv, Started
    <3>2. AfterOrder(req[r]) \notin {"saveTransferRef", "saveOrderRef"}
        BY <3>1 DEF AfterOrder, BeforeLink, RequestBody, Via
    <3>3. CASE CreateOrder(r)
        BY <1>0, <3>2, <3>3 DEF CreateOrder, TypeOK, outside
    <3>4. CASE SaveLink(r)
        BY <1>0, <3>4 DEF SaveLink, AfterLink, TypeOK, outside
    <3>5. CASE ~CreateOrder(r) /\ ~SaveLink(r)
        BY <1>0, <1>8, <3>5 DEF Step, GetKey, SetKey, FindQuote, FindTransfer,
           SaveTransfer, SaveTransaction, GetRate, OffRamp, CreateBankQuote,
           TypeOK, outside
    <3> QED
        BY <3>3, <3>4, <3>5
  <2> QED
      BY <2>1
<1> QED
    BY <1>1, <1>2, <1>3, <1>4, <1>5, <1>6, <1>7, <1>8

LEMMA FullInit == Init => FullInv
<1> SUFFICES ASSUME Init, NEW r \in Request PROVE Aftermath(r)
    BY InvInit DEF FullInv
<1> QED
    BY DEF Init, Aftermath, Told, Keyed, Served, Retried, Opened, Telling,
       HandlerSteps, KotaniSteps

LEMMA FullNext == FullInv /\ [Next]_vars => FullInv'
<1> SUFFICES ASSUME FullInv, [Next]_vars, NEW s \in Request PROVE Aftermath(s)'
    BY InvNext DEF FullInv
<1>1. /\ Inv /\ TypeInv /\ Local(s) /\ Aftermath(s)
      /\ \A r \in Request : Keyed(r)
    BY DEF FullInv, Inv, Aftermath
<1>2. CASE Arrive(s) \/ Step(s)
    BY <1>1, <1>2, StepKeepsKeyed, StepKeepsRetried, StepKeepsTold,
       StepKeepsOpened, StepKeepsTelling DEF Aftermath
<1>3. ASSUME NEW r \in Request \ {s}, Arrive(r) \/ Step(r)
      PROVE  Aftermath(s)'
  <2>1. Same(s)
      BY <1>1, <1>3, OthersSame
  <2>2. /\ events'[s] = events[s]
        /\ s \in payCrestOrders' <=> s \in payCrestOrders
      BY <1>1, <1>3, OthersBeside
  <2>3. Told(s)' /\ Opened(s)' /\ Telling(s)'
    <3>1. Told(s)' /\ Opened(s)'
        BY <1>1, <2>1, <2>2 DEF Aftermath, Told, Opened, Same
    <3>2. Telling(s)'
        BY <1>1, <2>1 DEF Aftermath, Telling, TellsCollection, Same
    <3> QED
        BY <3>1, <3>2
  <2>4. Keyed(s)' /\ Retried(s)'
      BY <1>1, <2>1, KeysStay DEF Aftermath, Keyed, Served, Retried, Same
  <2> QED
      BY <2>3, <2>4 DEF Aftermath
<1>4. CASE Crash
  <2>1. /\ UNCHANGED <<req, ref, idempotencyKeys, docs, outside>>
        /\ \/ pc'[s] = pc[s] /\ answer'[s] = answer[s]
           \/ pc'[s] = "done" /\ answer'[s] = "lost"
      BY <1>4 DEF Crash
  <2>2. Told(s)' /\ Opened(s)' /\ Telling(s)'
      BY <1>1, <2>1 DEF Aftermath, Told, Opened, Telling, TellsCollection, docs,
         outside
  <2>3. Keyed(s)' /\ Retried(s)'
      BY <1>1, <2>1 DEF Aftermath, Keyed, Served, Retried, docs, HandlerSteps,
         KotaniSteps
  <2> QED
      BY <2>2, <2>3 DEF Aftermath
<1>5. CASE UNCHANGED vars
    BY <1>1, <1>5 DEF vars, docs, outside, Aftermath, Told, Keyed, Served,
       Retried, Opened, Telling, TellsCollection
<1> QED
    BY <1>2, <1>3, <1>4, <1>5 DEF Next

LEMMA FullInvariance == Spec => []FullInv
<1> QED
    BY FullInit, FullNext, PTL DEF Spec

\* Whatever the interleaving, failures and crashes, a request told "ok" left
\* its transaction, order, linked transfer and used quote behind, and on both
\* documents what says whether a collection runs.
THEOREM AcceptedRecorded == Spec => []AcceptedIsRecorded
<1>1. FullInv => AcceptedIsRecorded
  <2> SUFFICES ASSUME FullInv, NEW r \in Request, answer[r] = "ok"
               PROVE  /\ r \in transactions
                      /\ orders[r] # None
                      /\ transfers[r] # None
                      /\ transfers[r].orderId = r
                      /\ transfers[r].quote = orders[r].quote
                      /\ used[req[r].quote]
                      /\ transfers[r].kotaniRef = orders[r].orderRef
                      /\ req[r].route = "in" =>
                            TellsCollection(r, orders[r].orderRef)
      BY DEF AcceptedIsRecorded
  <2>1. Local(r) /\ Telling(r)
      BY DEF FullInv, Inv, Aftermath
  <2> QED
      BY <2>1 DEF Local, Owned, Outlives, OnRecord, Telling
<1> QED
    BY <1>1, FullInvariance, PTL

\* A request whose store was sent TransferFailed is never told "ok": the
\* object makeKotaniPayTx returned is still there when the transfer is saved.
THEOREM FailureNotAccepted == Spec => []FailureToldIsNotAccepted
<1>1. FullInv => FailureToldIsNotAccepted
    BY DEF FullInv, Aftermath, Told, FailureToldIsNotAccepted
<1> QED
    BY <1>1, FullInvariance, PTL

\* However the first attempt went, a retry sent after its handler started
\* stops at the key in Redis, and stores nothing.
THEOREM RetryRefused == Spec => []RetryIsRefused
<1>1. FullInv => RetryIsRefused
    BY DEF FullInv, Aftermath, Retried, RetryIsRefused
<1> QED
    BY <1>1, FullInvariance, PTL

-----------------------------------------------------------------------------
(***************************************************************************)
(* After the end.                                                          *)
(***************************************************************************)
\* A quote is marked used only by the request whose transfer is for it.
LEMMA OnlyOwnerUses ==
    ASSUME Inv, [Next]_vars, NEW q \in Quote, used'[q] # used[q]
    PROVE  \E r \in Request : SaveQuote(r) /\ req[r].quote = q
                              /\ transfers[r] # None /\ transfers[r].quote = q
<1>1. PICK r \in Request : SaveQuote(r)
    BY DEF Next, Crash, vars, docs, Step, Arrive, GetKey, SetKey, FindQuote,
       FindTransfer, SaveTransfer,
       SaveTransaction, CreateOrder, SaveQuote, SaveLink, GetRate, OffRamp,
       CreateBankQuote, FindCustomer, SaveCustomer, NewCustomer, Deposit,
       SaveTransferRef, SaveOrderRef, Refuse, GateFails
<1>2. req[r].quote = q
    BY <1>1 DEF SaveQuote, Inv, TypeInv, TypeOK
<1>3. transfers[r] # None /\ transfers[r].quote = req[r].quote
    BY <1>1 DEF SaveQuote, At, Inv, TypeInv, Stored, Local, Owned, TransferSteps,
       OrderSteps
<1> QED
    BY <1>1, <1>2, <1>3

LEMMA StepFreezes ==
    ASSUME Inv, [Next]_vars, NEW r \in Request, pc[r] = "done"
    PROVE  /\ transfers'[r] = transfers[r]
           /\ orders'[r] = orders[r]
           /\ transfers[r] # None =>
                 used'[transfers[r].quote] = used[transfers[r].quote]
<1>1. TypeInv /\ Unique
    BY DEF Inv
<1>2. transfers'[r] = transfers[r] /\ orders'[r] = orders[r]
  <2>1. ASSUME NEW s \in Request \ {r}, Arrive(s) \/ Step(s)
        PROVE  transfers'[r] = transfers[r] /\ orders'[r] = orders[r]
      BY <1>1, <2>1, OthersSame DEF Same
  <2>2. ~Arrive(r) /\ ~Step(r)
      BY DEF At, HandlerSteps, GateSteps, Step, Arrive, GetKey, SetKey,
         FindQuote, FindTransfer, SaveTransfer,
       SaveTransaction, CreateOrder, SaveQuote, SaveLink, GetRate, OffRamp,
       CreateBankQuote, FindCustomer, SaveCustomer, NewCustomer, Deposit,
       SaveTransferRef, SaveOrderRef, Refuse, GateFails
  <2> QED
      BY <2>1, <2>2 DEF Next, Crash, vars, docs
<1>3. ASSUME transfers[r] # None,
             used'[transfers[r].quote] # used[transfers[r].quote]
      PROVE  FALSE
  <2>1. transfers[r].quote \in Quote
      BY <1>1, <1>3 DEF TypeInv, TypeOK, TransferDoc
  <2>2. PICK s \in Request : /\ SaveQuote(s) /\ transfers[s] # None
                             /\ transfers[s].quote = transfers[r].quote
      BY <1>3, <2>1, OnlyOwnerUses
  <2>3. s = r
      BY <1>1, <1>3, <2>2 DEF Unique
  <2> QED
      BY <2>2, <2>3 DEF SaveQuote, At
<1> QED
    BY <1>2, <1>3

\* Once the request that stored a quote's transfer has ended, nothing another
\* request does changes the transfer, its order or its quote.
THEOREM EndedFrozen == Spec => EndedIsFrozen
<1>1. Inv /\ [Next]_vars =>
        [\A r \in Request : pc[r] = "done" =>
            /\ transfers'[r] = transfers[r]
            /\ orders'[r] = orders[r]
            /\ transfers[r] # None =>
                  used'[transfers[r].quote] = used[transfers[r].quote]]_vars
    BY StepFreezes
<1> QED
    BY <1>1, Invariance, PTL DEF Spec, EndedIsFrozen

-----------------------------------------------------------------------------
(***************************************************************************)
(* The refinement of QuoteClaim.  Holds, Collects and Accepts say of one   *)
(* request and one quote what the mapped variables say of all of them;     *)
(* a step of the handlers is described by these, and the five lemmas after *)
(* them turn such a description into a step of QuoteClaim.                 *)
(***************************************************************************)
Holds(r, q) == transfers[r] # None /\ transfers[r].quote = q
Collects(r, q) == r \in For(q, deposits \cup payCrestOrders)
Accepts(r, q) == answer[r] = "ok" /\ req[r] # None /\ req[r].quote = q

claimantsOf ==
    [q \in Quote |->
        {r \in Request : transfers[r] # None /\ transfers[r].quote = q}]
collectorsOf == [q \in Quote |-> For(q, deposits \cup payCrestOrders)]
acceptedOf == [q \in Quote |-> For(q, {r \in Request : answer[r] = "ok"})]

HoldsSame ==
    \A r \in Request, q \in Quote : Holds(r, q)' <=> Holds(r, q)
CollectsSame ==
    \A r \in Request, q \in Quote : Collects(r, q)' <=> Collects(r, q)
AcceptsSame ==
    \A r \in Request, q \in Quote : Accepts(r, q)' <=> Accepts(r, q)

LEMMA ClaimantsSame == HoldsSame => claimantsOf' = claimantsOf
<1> SUFFICES ASSUME HoldsSame, NEW q \in Quote
             PROVE  {r \in Request : Holds(r, q)}' = {r \in Request : Holds(r, q)}
    BY DEF claimantsOf, Holds
<1> QED
    BY DEF HoldsSame

LEMMA CollectorsSame ==
    ASSUME TypeOK, TypeOK', CollectsSame
    PROVE  collectorsOf' = collectorsOf
<1> SUFFICES ASSUME NEW q \in Quote
             PROVE  For(q, deposits \cup payCrestOrders)'
                        = For(q, deposits \cup payCrestOrders)
    BY DEF collectorsOf
<1>1. For(q, deposits \cup payCrestOrders) \subseteq Request
    BY DEF TypeOK, For
<1>2. For(q, deposits \cup payCrestOrders)' \subseteq Request
    BY DEF TypeOK, For
<1>3. \A r \in Request : r \in For(q, deposits \cup payCrestOrders)'
                            <=> r \in For(q, deposits \cup payCrestOrders)
    BY DEF CollectsSame, Collects
<1> QED
    BY <1>1, <1>2, <1>3

LEMMA AcceptedSame == AcceptsSame => acceptedOf' = acceptedOf
<1> SUFFICES ASSUME AcceptsSame, NEW q \in Quote
             PROVE  {r \in Request : Accepts(r, q)}'
                        = {r \in Request : Accepts(r, q)}
  <2>1. \A p \in Quote : For(p, {r \in Request : answer[r] = "ok"})
                           = {r \in Request : Accepts(r, p)}
      BY DEF For, Accepts
  <2>2. \A p \in Quote : For(p, {r \in Request : answer[r] = "ok"})'
                           = {r \in Request : Accepts(r, p)}'
      BY DEF For, Accepts
  <2> QED
      BY <2>1, <2>2 DEF acceptedOf
<1> QED
    BY DEF AcceptsSame

LEMMA Stutters ==
    ASSUME TypeOK, TypeOK', HoldsSame, CollectsSame, AcceptsSame, used' = used
    PROVE  UNCHANGED Claims!vars
<1>1. UNCHANGED <<claimantsOf, collectorsOf, acceptedOf>>
    BY ClaimantsSame, CollectorsSame, AcceptedSame
<1> QED
    BY <1>1 DEF claimantsOf, collectorsOf, acceptedOf, Claims!vars

LEMMA Claiming ==
    ASSUME TypeOK, TypeOK', CollectsSame, AcceptsSame, used' = used,
           NEW r \in Request, NEW q \in Quote,
           \A s \in Request : ~Holds(s, q),
           \A s \in Request, p \in Quote :
               Holds(s, p)' <=> Holds(s, p) \/ (s = r /\ p = q)
    PROVE  Claims!Claim(r, q)
<1>1. claimantsOf[q] = {}
    BY DEF claimantsOf, Holds
<1>2. claimantsOf' = [claimantsOf EXCEPT ![q] = {r}]
  <2>1. ASSUME NEW p \in Quote
        PROVE  {s \in Request : Holds(s, p)}'
                  = IF p = q THEN {r} ELSE {s \in Request : Holds(s, p)}
      OBVIOUS
  <2> QED
      BY <2>1 DEF claimantsOf, Holds
<1>3. UNCHANGED <<collectorsOf, used, acceptedOf>>
    BY CollectorsSame, AcceptedSame
<1> QED
    BY <1>1, <1>2, <1>3 DEF claimantsOf, collectorsOf, acceptedOf, Claims!Claim

LEMMA Collecting ==
    ASSUME TypeOK, TypeOK', HoldsSame, AcceptsSame, used' = used,
           NEW r \in Request, NEW q \in Quote, Holds(r, q),
           \A s \in Request, p \in Quote :
               Collects(s, p)' <=> Collects(s, p) \/ (s = r /\ p = q)
    PROVE  Claims!Collect(r, q)
<1>1. r \in claimantsOf[q]
    BY DEF claimantsOf, Holds
<1>2. collectorsOf' = [collectorsOf EXCEPT ![q] = @ \cup {r}]
  <2>1. ASSUME NEW p \in Quote
        PROVE  For(p, deposits \cup payCrestOrders)'
                  = IF p = q THEN For(q, deposits \cup payCrestOrders) \cup {r}
                             ELSE For(p, deposits \cup payCrestOrders)
    <3>1. /\ For(p, deposits \cup payCrestOrders) \subseteq Request
          /\ For(p, deposits \cup payCrestOrders)' \subseteq Request
        BY DEF TypeOK, For
    <3>2. \A s \in Request :
            s \in For(p, deposits \cup payCrestOrders)'
              <=> s \in For(p, deposits \cup payCrestOrders) \/ (s = r /\ p = q)
        BY DEF Collects
    <3> QED
        BY <3>1, <3>2
  <2> QED
      BY <2>1 DEF collectorsOf
<1>3. UNCHANGED <<claimantsOf, used, acceptedOf>>
    BY ClaimantsSame, AcceptedSame
<1> QED
    BY <1>1, <1>2, <1>3 DEF claimantsOf, collectorsOf, acceptedOf, Claims!Collect

LEMMA Using ==
    ASSUME TypeOK, TypeOK', HoldsSame, CollectsSame, AcceptsSame,
           NEW r \in Request, NEW q \in Quote, Holds(r, q),
           used' = [used EXCEPT ![q] = TRUE]
    PROVE  Claims!Use(r, q)
<1>1. r \in claimantsOf[q]
    BY DEF claimantsOf, Holds
<1>2. UNCHANGED <<claimantsOf, collectorsOf, acceptedOf>>
    BY ClaimantsSame, CollectorsSame, AcceptedSame
<1> QED
    BY <1>1, <1>2 DEF claimantsOf, collectorsOf, acceptedOf, Claims!Use

LEMMA Accepting ==
    ASSUME TypeOK, TypeOK', HoldsSame, CollectsSame,
           NEW r \in Request, NEW q \in Quote, Holds(r, q),
           used' = [used EXCEPT ![q] = TRUE],
           \A s \in Request, p \in Quote :
               Accepts(s, p)' <=> Accepts(s, p) \/ (s = r /\ p = q)
    PROVE  Claims!Accept(r, q)
<1>1. r \in claimantsOf[q]
    BY DEF claimantsOf, Holds
<1>2. acceptedOf' = [acceptedOf EXCEPT ![q] = @ \cup {r}]
  <2>1. \A p \in Quote : For(p, {s \in Request : answer[s] = "ok"})
                           = {s \in Request : Accepts(s, p)}
      BY DEF For, Accepts
  <2>2. \A p \in Quote : For(p, {s \in Request : answer[s] = "ok"})'
                           = {s \in Request : Accepts(s, p)}'
      BY DEF For, Accepts
  <2>3. ASSUME NEW p \in Quote
        PROVE  {s \in Request : Accepts(s, p)}'
                  = IF p = q THEN {s \in Request : Accepts(s, p)} \cup {r}
                             ELSE {s \in Request : Accepts(s, p)}
      OBVIOUS
  <2> QED
      BY <2>1, <2>2, <2>3 DEF acceptedOf
<1>3. UNCHANGED <<claimantsOf, collectorsOf>>
    BY ClaimantsSame, CollectorsSame
<1> QED
    BY <1>1, <1>2, <1>3 DEF claimantsOf, collectorsOf, acceptedOf, Claims!Accept

(***************************************************************************)
(* Which steps change what QuoteClaim speaks of.                           *)
(***************************************************************************)
LEMMA OnlySaveTransferHolds ==
    ASSUME Inv, [Next]_vars, \A r \in Request : ~SaveTransfer(r)
    PROVE  HoldsSame
<1> SUFFICES ASSUME NEW r \in Request, NEW q \in Quote
             PROVE  Holds(r, q)' <=> Holds(r, q)
    BY DEF HoldsSame
<1>1. CASE transfers[r] # None
    BY <1>1, TransferStays DEF Holds
<1>2. CASE transfers[r] = None
  <2>1. TypeInv
      BY DEF Inv
  <2>2. ASSUME NEW s \in Request \ {r}, Arrive(s) \/ Step(s)
        PROVE  transfers'[r] = None
      BY <1>2, <2>1, <2>2, OthersSame DEF Same
  <2>3. ~SaveLink(r) /\ ~SaveTransferRef(r)
      BY <1>2, <2>1 DEF TypeInv, Stored, TransferSteps, OrderSteps,
         CollectSteps, At, SaveLink, SaveTransferRef
  <2>4. ASSUME Arrive(r) \/ Step(r)
        PROVE  transfers' = transfers
      BY <2>3, <2>4 DEF Step, Arrive, GetKey, SetKey, FindQuote, FindTransfer,
         SaveTransaction, CreateOrder, SaveQuote, GetRate, OffRamp,
         CreateBankQuote, FindCustomer, SaveCustomer, NewCustomer, Deposit,
         SaveOrderRef, Refuse, GateFails, docs
  <2>5. transfers'[r] = None
    <3>1. CASE Crash \/ UNCHANGED vars
        BY <1>2, <3>1 DEF Crash, vars, docs
    <3>2. CASE Arrive(r) \/ Step(r)
        BY <1>2, <2>4, <3>2
    <3>3. CASE \E s \in Request \ {r} : Arrive(s) \/ Step(s)
        BY <2>2, <3>3
    <3> QED
        BY <3>1, <3>2, <3>3 DEF Next
  <2> QED
      BY <1>2, <2>5 DEF Holds
<1> QED
    BY <1>1, <1>2

\* What a request asks for changes only when it arrives, and then it has
\* neither opened a collection nor been answered.
LEMMA ReqSettled ==
    ASSUME FullInv, [Next]_vars, NEW r \in Request
    PROVE  req'[r] = req[r] \/ (/\ r \notin deposits \cup payCrestOrders
                                /\ answer[r] # "ok")
<1>1. TypeInv /\ Local(r) /\ Opened(r)
    BY DEF FullInv, Inv, Aftermath
<1>2. CASE Arrive(r)
    BY <1>1, <1>2 DEF Arrive, At, Local, Owned, Outlives, OnRecord, Opened,
       TransferSteps, OrderSteps, BankSteps, CollectSteps
<1>3. ASSUME NEW s \in Request \ {r}, Arrive(s)
      PROVE  req'[r] = req[r]
    BY <1>1, <1>3 DEF Arrive, TypeInv, TypeOK
<1>4. ASSUME NEW s \in Request, Step(s)
      PROVE  req' = req
    BY <1>4 DEF Step, GetKey, SetKey, FindQuote, FindTransfer, SaveTransfer,
       SaveTransaction, CreateOrder, SaveQuote, SaveLink, GetRate, OffRamp,
       CreateBankQuote, FindCustomer, SaveCustomer, NewCustomer, Deposit,
       SaveTransferRef, SaveOrderRef, Refuse, GateFails
<1> QED
    BY <1>2, <1>3, <1>4 DEF Next, Crash, vars

LEMMA CollectsStays ==
    ASSUME FullInv, [Next]_vars, UNCHANGED <<deposits, payCrestOrders>>
    PROVE  CollectsSame
<1> QED
    BY ReqSettled DEF CollectsSame, Collects, For

LEMMA OnlyProvidersCollect ==
    ASSUME FullInv, [Next]_vars, \A r \in Request : ~Deposit(r) /\ ~OffRamp(r)
    PROVE  CollectsSame
<1>1. ASSUME NEW r \in Request, Arrive(r) \/ Step(r)
      PROVE  UNCHANGED <<deposits, payCrestOrders>>
    BY <1>1 DEF Step, Arrive, GetKey, SetKey, FindQuote, FindTransfer,
       SaveTransfer, SaveTransaction, CreateOrder, SaveQuote, SaveLink,
       GetRate, CreateBankQuote, FindCustomer, SaveCustomer, NewCustomer,
       SaveTransferRef, SaveOrderRef, Refuse, GateFails, outside
<1>2. UNCHANGED <<deposits, payCrestOrders>>
    BY <1>1 DEF Next, Crash, vars, outside
<1> QED
    BY <1>2, CollectsStays

LEMMA AcceptsStays ==
    ASSUME FullInv, [Next]_vars,
           \A r \in Request : answer'[r] = "ok" <=> answer[r] = "ok"
    PROVE  AcceptsSame
<1> QED
    BY ReqSettled DEF AcceptsSame, Accepts

LEMMA OnlyEndsAccept ==
    ASSUME FullInv, [Next]_vars, \A r \in Request : ~SaveQuote(r) /\ ~SaveOrderRef(r)
    PROVE  AcceptsSame
<1>1. ASSUME NEW r \in Request
      PROVE  answer'[r] = "ok" <=> answer[r] = "ok"
  <2>1. TypeInv /\ (answer[r] = "ok" => pc[r] = "done")
      BY DEF FullInv, Inv, Local, Outlives
  <2>2. ASSUME NEW s \in Request \ {r}, Arrive(s) \/ Step(s)
        PROVE  answer'[r] = answer[r]
      BY <2>1, <2>2, OthersSame DEF Same
  <2>3. CASE Crash \/ UNCHANGED vars
      BY <2>1, <2>3 DEF Crash, vars, Running, GateSteps, HandlerSteps, KotaniSteps
  <2>4. CASE Arrive(r) \/ Step(r)
    <3>1. \/ answer' = answer
          \/ pc[r] # "done" /\ \E code \in {"refused", "keyUsed"} : Answer(r, code)
        BY <2>4 DEF Step, Arrive, GetKey, SetKey, FindQuote, FindTransfer,
           SaveTransfer, SaveTransaction, CreateOrder, SaveLink, GetRate,
           OffRamp, CreateBankQuote, FindCustomer, SaveCustomer, NewCustomer,
           Deposit, SaveTransferRef, Refuse, GateFails, At, Goto, Return,
           GateSteps, HandlerSteps
    <3> QED
        BY <2>1, <3>1 DEF Answer, TypeInv, TypeOK
  <2> QED
      BY <2>2, <2>3, <2>4 DEF Next
<1> QED
    BY <1>1, AcceptsStays

LEMMA OnlySaveQuoteUses ==
    ASSUME [Next]_vars, \A r \in Request : ~SaveQuote(r)
    PROVE  used' = used
<1>1. ASSUME NEW r \in Request, Arrive(r) \/ Step(r) PROVE used' = used
    BY <1>1 DEF Step, Arrive, GetKey, SetKey, FindQuote, FindTransfer,
       SaveTransfer, SaveTransaction, CreateOrder, SaveLink, GetRate, OffRamp,
       CreateBankQuote, FindCustomer, SaveCustomer, NewCustomer, Deposit,
       SaveTransferRef, SaveOrderRef, Refuse, GateFails, docs
<1> QED
    BY <1>1 DEF Next, Crash, vars, docs

LEMMA StepClaims == FullInv /\ [Next]_vars => [Claims!Next]_(Claims!vars)
<1> SUFFICES ASSUME FullInv, [Next]_vars PROVE [Claims!Next]_(Claims!vars)
    OBVIOUS
<1>1. /\ Inv /\ TypeInv /\ TypeOK /\ TypeOK'
      /\ \A r \in Request : Local(r)
    BY TypeNext DEF FullInv, Inv, TypeInv
<1>2. ASSUME NEW r \in Request, NEW q \in Quote,
             \/ Claims!Claim(r, q) \/ Claims!Collect(r, q)
             \/ Claims!Use(r, q) \/ Claims!Accept(r, q)
      PROVE  [Claims!Next]_(Claims!vars)
    BY <1>2 DEF Claims!Next
<1>3. ASSUME NEW r \in Request, pc[r] \in TransferSteps
      PROVE  /\ req[r] # None /\ req[r].quote \in Quote
             /\ Holds(r, req[r].quote)
    BY <1>1, <1>3 DEF TypeInv, Started, Stored, TypeOK, RequestBody, Local,
       Owned, Holds, TransferSteps, OrderSteps, BankSteps, CollectSteps
<1>4. transfers' = transfers => HoldsSame
    BY DEF HoldsSame, Holds
<1>5. ASSUME NEW r \in Request, SaveTransfer(r) PROVE [Claims!Next]_(Claims!vars)
  <2> DEFINE q == req[r].quote
  <2>1. /\ pc[r] = "saveTransfer"
        /\ UNCHANGED <<used, deposits, payCrestOrders, req>>
      BY <1>5 DEF SaveTransfer, At, outside
  <2>2. transfers[r] = None /\ answer[r] = "none" /\ q \in Quote
      BY <1>1, <2>1 DEF TypeInv, Started, TypeOK, RequestBody, Local, Owned,
         Outlives, TransferSteps, OrderSteps, BankSteps, CollectSteps
  <2>3. AcceptsSame
    <3>1. \A s \in Request : answer'[s] = "ok" <=> answer[s] = "ok"
        BY <1>1, <1>5, <2>2 DEF SaveTransfer, Goto, Answer, TypeOK
    <3> QED
        BY <3>1, AcceptsStays
  <2>4. CollectsSame
      BY <2>1, CollectsStays
  <2>5. CASE DuplicateQuote(q)
    <3>1. HoldsSame
        BY <1>4, <1>5, <2>5 DEF SaveTransfer
    <3> QED
        BY <1>1, <2>1, <2>3, <2>4, <3>1, Stutters
  <2>6. CASE ~DuplicateQuote(q)
    <3>1. \A s \in Request : ~Holds(s, q)
        BY <2>6 DEF DuplicateQuote, HasTransfer, Holds
    <3>2. /\ transfers'[r].quote = q
          /\ \A s \in Request \ {r} : transfers'[s] = transfers[s]
          /\ pc'[r] = "saveTransaction"
        BY <1>1, <1>5, <2>6 DEF SaveTransfer, Goto, TypeOK
    <3>3. transfers'[r] # None
        BY <3>2, TypeNext, <1>1 DEF TypeInv, Stored, TransferSteps
    <3>4. \A s \in Request, p \in Quote :
            Holds(s, p)' <=> Holds(s, p) \/ (s = r /\ p = q)
        BY <2>2, <3>2, <3>3 DEF Holds
    <3> HIDE DEF q
    <3> QED
        BY <1>1, <1>2, <2>1, <2>2, <2>3, <2>4, <3>1, <3>4, Claiming
  <2> QED
      BY <2>5, <2>6
<1>6. ASSUME NEW r \in Request, Deposit(r) \/ OffRamp(r)
      PROVE  [Claims!Next]_(Claims!vars)
  <2> DEFINE q == req[r].quote
  <2>1. /\ pc[r] \in {"deposit", "offRamp"}
        /\ UNCHANGED <<used, transfers, req>>
        /\ \/ UNCHANGED <<deposits, payCrestOrders>>
           \/ deposits' = deposits \cup {r} /\ UNCHANGED payCrestOrders
           \/ payCrestOrders' = payCrestOrders \cup {r} /\ UNCHANGED deposits
      BY <1>6 DEF Deposit, OffRamp, At, docs
  <2>2. q \in Quote /\ Holds(r, q) /\ req[r] # None
      BY <1>3, <2>1 DEF TransferSteps, OrderSteps, BankSteps, CollectSteps
  <2>3. AcceptsSame
    <3>1. answer[r] # "ok"
        BY <1>1, <2>1 DEF Local, Outlives
    <3>2. \A s \in Request : answer'[s] = "ok" <=> answer[s] = "ok"
        BY <1>1, <1>6, <3>1 DEF Deposit, OffRamp, Return, Goto, Answer, TypeOK
    <3> QED
        BY <3>2, AcceptsStays
  <2>4. HoldsSame
      BY <1>4, <2>1
  <2>5. CASE UNCHANGED <<deposits, payCrestOrders>>
      BY <1>1, <2>1, <2>3, <2>4, <2>5, CollectsStays, Stutters
  <2>6. CASE \/ deposits' = deposits \cup {r} /\ UNCHANGED payCrestOrders
             \/ payCrestOrders' = payCrestOrders \cup {r} /\ UNCHANGED deposits
    <3>1. \A s \in Request, p \in Quote :
            Collects(s, p)' <=> Collects(s, p) \/ (s = r /\ p = q)
        BY <2>1, <2>2, <2>6 DEF Collects, For
    <3> HIDE DEF q
    <3> QED
        BY <1>1, <1>2, <2>1, <2>2, <2>3, <2>4, <3>1, Collecting
  <2> QED
      BY <2>1, <2>5, <2>6
<1>7. ASSUME NEW r \in Request, SaveQuote(r) PROVE [Claims!Next]_(Claims!vars)
  <2> DEFINE q == req[r].quote
  <2>1. /\ pc[r] = "saveQuote"
        /\ used' = [used EXCEPT ![q] = TRUE]
        /\ UNCHANGED <<transfers, req, deposits, payCrestOrders>>
      BY <1>7 DEF SaveQuote, At, outside
  <2>2. q \in Quote /\ Holds(r, q) /\ req[r] # None
      BY <1>3, <2>1 DEF TransferSteps, OrderSteps
  <2>3. HoldsSame /\ CollectsSame
      BY <1>4, <2>1, CollectsStays
  <2>4. CASE req[r].route = "in"
    <3>1. AcceptsSame
        BY <1>7, <2>4, AcceptsStays DEF SaveQuote, Goto
    <3> HIDE DEF q
    <3> QED
        BY <1>1, <1>2, <2>1, <2>2, <2>3, <3>1, Using
  <2>5. CASE req[r].route # "in"
    <3>1. \A s \in Request : answer'[s] = IF s = r THEN "ok" ELSE answer[s]
        BY <1>1, <1>7, <2>5 DEF SaveQuote, Answer, TypeOK
    <3>2. \A s \in Request, p \in Quote :
            Accepts(s, p)' <=> Accepts(s, p) \/ (s = r /\ p = q)
        BY <2>1, <2>2, <3>1 DEF Accepts
    <3> HIDE DEF q
    <3> QED
        BY <1>1, <1>2, <2>1, <2>2, <2>3, <3>2, Accepting
  <2> QED
      BY <2>4, <2>5
<1>8. ASSUME NEW r \in Request, SaveOrderRef(r) PROVE [Claims!Next]_(Claims!vars)
  <2> DEFINE q == req[r].quote
  <2>1. /\ pc[r] = "saveOrderRef"
        /\ UNCHANGED <<used, transfers, req, deposits, payCrestOrders>>
      BY <1>8 DEF SaveOrderRef, At, outside
  <2>2. q \in Quote /\ Holds(r, q) /\ req[r] # None
      BY <1>3, <2>1 DEF TransferSteps, OrderSteps, CollectSteps
  <2>3. used' = [used EXCEPT ![q] = TRUE]
      BY <1>1, <2>1, <2>2 DEF Local, Linked, CollectSteps, TypeOK
  <2>4. HoldsSame /\ CollectsSame
      BY <1>4, <2>1, CollectsStays
  <2>5. \A s \in Request : answer'[s] = IF s = r THEN "ok" ELSE answer[s]
      BY <1>1, <1>8 DEF SaveOrderRef, Answer, TypeOK
  <2>6. \A s \in Request, p \in Quote :
          Accepts(s, p)' <=> Accepts(s, p) \/ (s = r /\ p = q)
      BY <2>1, <2>2, <2>5 DEF Accepts
  <2> HIDE DEF q
  <2> QED
      BY <1>1, <1>2, <2>2, <2>3, <2>4, <2>6, Accepting
<1>9. CASE \A r \in Request : /\ ~SaveTransfer(r) /\ ~Deposit(r) /\ ~OffRamp(r)
                             /\ ~SaveQuote(r) /\ ~SaveOrderRef(r)
    BY <1>1, <1>9, OnlySaveTransferHolds, OnlyProvidersCollect, OnlyEndsAccept,
       OnlySaveQuoteUses, Stutters
<1> QED
    BY <1>5, <1>6, <1>7, <1>8, <1>9

\* Accepting transfers implements QuoteClaim: whatever interleaves, fails or
\* crashes, one request claims a quote, and only it collects under the quote,
\* marks it used and is accepted for it.
THEOREM QuotesClaimedOnce == Spec => ClaimsSpec
<1>1. Init => Claims!Init
  <2> SUFFICES ASSUME Init PROVE Claims!Init
      OBVIOUS
  <2>1. /\ \A q \in Quote : {r \in Request : transfers[r] # None
                                             /\ transfers[r].quote = q} = {}
        /\ \A q \in Quote : For(q, deposits \cup payCrestOrders) = {}
        /\ \A q \in Quote : For(q, {r \in Request : answer[r] = "ok"}) = {}
      BY DEF Init, For
  <2> QED
      BY <2>1 DEF Init, Claims!Init
<1> QED
    BY <1>1, StepClaims, FullInvariance, PTL DEF Spec, ClaimsSpec, Claims!Spec

=============================================================================
