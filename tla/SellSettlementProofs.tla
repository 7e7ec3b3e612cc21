-------------------------- MODULE SellSettlementProofs --------------------------
(***************************************************************************)
(* Proofs about SellSettlement, for any calls and any number in flight.    *)
(***************************************************************************)
EXTENDS SellSettlement, TLAPS

-----------------------------------------------------------------------------
(***************************************************************************)
(* Where a call stands.                                                    *)
(*                                                                         *)
(* Targets says what a call is about to write and where it goes on after   *)
(* changeOrderStatusFunc.  Moved says how far a call is that moved money.  *)
(***************************************************************************)
Early == {"idle", "readTransfer", "readOrder", "claim"}
Func == {"changeOrderStatusFunc", "updateTransfer"}
Thens == {"done", "bankQuote", "momo", "tellFailed", "saveTransaction", "tellStatus"}

Targets(c) ==
    /\ mem[c].then \in Thens /\ (pc[c] \notin Func => mem[c].then = "done")
    /\ pc[c] = "tellStatus" \/ mem[c].then = "tellStatus" =>
          mem[c].target \in BankStatus
    /\ pc[c] = "changeOrderStatusFunc" => mem[c].target \in OrderStatus
    /\ pc[c] = "updateTransfer" => mem[c].target \in facts
    /\ pc[c] = "saveTransaction" =>
          op[c] = "confirm" \/ mem[c].target \in TransactionStatus
    /\ mem[c].then = "saveTransaction" => op[c] = "confirm"

Moved(c) ==
    /\ pc[c] = "idle" => op[c] = None
    /\ withdrawals[c] # "none" =>
          \/ pc[c] \in {"saveRef", "saveManual", "saveFailed", "done"}
          \/ pc[c] \in Func /\ mem[c].then = "done"
    /\ c \in bankPayouts \cup refunds => pc[c] \notin Early \cup {"checkChain"}

-----------------------------------------------------------------------------
LEMMA StatusesDiffer ==
    /\ OrderStatus \cap TransactionStatus = {}
    /\ OrderStatus \cup TransactionStatus \cup BankStatus = Fact
    /\ Claimed \subseteq OrderStatus
BY DEF OrderStatus, TransactionStatus, BankStatus, Fact, Claimed

\* What the transfer shows is a transfer status.
LEMMA ShownIsStatus ==
    ASSUME NEW f \in Fact
    PROVE  /\ Shown(f) \in TransferStatus
           /\ Shown(f) = "TransferRefunded" => f = "REFUNDED"
BY DEF Shown, TransferStatusFor, TransactionTransferStatus, BankTransferStatus,
       TransferStatus, Fact, OrderStatus, BankStatus, TransactionStatus

\* The copies a call goes on with are ones it can hold.
LEMMA MemoryOK ==
    /\ NoMemory \in Memory
    /\ \A m \in Memory :
         /\ \A b \in Call \cup {None} : [m EXCEPT !.bank = b] \in Memory
         /\ \A r \in Call \cup {None} : [m EXCEPT !.ref = r] \in Memory
         /\ \A s \in OrderStatus \cup {None} : [m EXCEPT !.status = s] \in Memory
         /\ \A f \in Fact : [m EXCEPT !.target = f] \in Memory
         /\ \A h \in PayoutResult : [m EXCEPT !.txHash = h] \in Memory
         /\ \A f \in Fact, t \in PC :
              [m EXCEPT !.target = f, !.then = t] \in Memory
         /\ \A f \in Fact, h \in PayoutResult, t \in PC :
              [m EXCEPT !.target = f, !.txHash = h, !.then = t] \in Memory
         /\ \A s \in OrderStatus \cup {None}, f \in Fact :
              [NoMemory EXCEPT !.status = s, !.target = f] \in Memory
<1>1. NoMemory \in Memory
    BY DEF Memory, NoMemory, Target, Fact, OrderStatus, PayoutResult, PC
<1>2. ASSUME NEW m \in Memory, NEW r \in Call \cup {None}
      PROVE  [m EXCEPT !.bank = r] \in Memory /\ [m EXCEPT !.ref = r] \in Memory
    BY DEF Memory
<1>3. ASSUME NEW m \in Memory, NEW s \in OrderStatus \cup {None}
      PROVE  [m EXCEPT !.status = s] \in Memory
    BY DEF Memory
<1>4. ASSUME NEW m \in Memory, NEW f \in Fact, NEW h \in PayoutResult, NEW t \in PC
      PROVE  /\ [m EXCEPT !.target = f] \in Memory
             /\ [m EXCEPT !.txHash = h] \in Memory
             /\ [m EXCEPT !.target = f, !.then = t] \in Memory
             /\ [m EXCEPT !.target = f, !.txHash = h, !.then = t] \in Memory
    BY DEF Memory, Target
<1>5. ASSUME NEW s \in OrderStatus \cup {None}, NEW f \in Fact
      PROVE  [NoMemory EXCEPT !.status = s, !.target = f] \in Memory
    BY <1>1 DEF Memory, Target
<1>6. "hash" \in PayoutResult /\ "done" \in PC /\ "DONE" \in Fact
    BY DEF PayoutResult, PC, Fact, OrderStatus
<1> QED
    BY <1>1, <1>2, <1>3, <1>4, <1>5, <1>6

-----------------------------------------------------------------------------
(***************************************************************************)
(* Types.                                                                  *)
(***************************************************************************)
ControlOK ==
    /\ pc \in [Call -> PC]
    /\ op \in [Call -> Op \cup {None}]
    /\ mem \in [Call -> Memory]

LEMMA GotoOK ==
    ASSUME ControlOK, NEW c \in Call, NEW step \in PC, Goto(c, step)
    PROVE  ControlOK'
<1>1. Finished(op[c]) \in Op \cup {None} /\ NoMemory \in Memory
    BY MemoryOK DEF Finished, Op
<1>2. op' \in [Call -> Op \cup {None}]
    BY <1>1 DEF Goto, ControlOK
<1>3. mem' \in [Call -> Memory]
    BY <1>1 DEF Goto, ControlOK
<1> QED
    BY <1>2, <1>3 DEF Goto, ControlOK

LEMMA GotoWithOK ==
    ASSUME ControlOK, NEW c \in Call, NEW step \in PC, NEW copy \in Memory,
           GotoWith(c, step, copy)
    PROVE  ControlOK'
BY DEF GotoWith, ControlOK

LEMMA CallFuncOK ==
    ASSUME ControlOK, NEW c \in Call, NEW copy \in Memory, NEW status \in Fact,
           NEW txHash \in PayoutResult, NEW then \in PC,
           CallFunc(c, copy, status, txHash, then)
    PROVE  ControlOK'
<1> DEFINE called == [copy EXCEPT !.target = status, !.txHash = txHash, !.then = then]
<1>1. called \in Memory
    BY MemoryOK
<1>2. GotoWith(c, "changeOrderStatusFunc", called)
    BY DEF CallFunc
<1>3. "changeOrderStatusFunc" \in PC
    BY DEF PC
<1> HIDE DEF called
<1> QED
    BY <1>1, <1>2, <1>3, GotoWithOK

LEMMA ProceedOK ==
    ASSUME ControlOK, NEW c \in Call, NEW status \in OrderStatus \cup {None},
           Proceed(c, status)
    PROVE  ControlOK'
<1>1. mem[c].then \in PC /\ mem[c].target \in Fact /\ "done" \in PC
    BY DEF ControlOK, Memory, Target, PC
<1>2. [NoMemory EXCEPT !.status = status, !.target = mem[c].target] \in Memory
    BY <1>1, MemoryOK
<1> QED
    BY <1>1, <1>2, GotoOK, GotoWithOK DEF Proceed

LEMMA StepOK ==
    ASSUME TypeOK, NEW c \in Call, Targets(c), Step(c)
    PROVE  ControlOK'
<1>0. ControlOK /\ mem[c] \in Memory
    BY DEF TypeOK, ControlOK
<1>1. /\ Copy(c) \in Memory
      /\ \A s \in {"IN-PROGRESS", "DONE", "IS-REFUNDING", "REFUNDED"} :
            [mem[c] EXCEPT !.status = s] \in Memory
  <2>1. orderStatus \in OrderStatus
      BY DEF TypeOK, StoreTypeOK
  <2> QED
      BY <1>0, <2>1, MemoryOK DEF Copy, OrderStatus
<1>2. /\ {"IN-PROGRESS", "CANCELLED", "DONE", "IS-REFUNDING", "REFUNDED"} \subseteq Fact
      /\ "hash" \in PayoutResult
      /\ mem[c].txHash \in PayoutResult
      /\ mem[c].status \in OrderStatus \cup {None}
    BY <1>0 DEF Fact, OrderStatus, PayoutResult, Memory
<1>3. PC = Early \cup Func \cup Thens \cup
           {"checkChain", "withdrawStatus", "markRefunding", "refund",
            "saveRefunded", "bankStatus", "payBank", "saveBankRef", "saveRef",
            "saveManual", "saveFailed"}
    BY DEF PC, Early, Func, Thens
<1> USE <1>0 DEF Early, Func, Thens
<1>4. CASE ReadTransfer(c)
  <2>1. [mem[c] EXCEPT !.bank = bankOrderId] \in Memory
      BY MemoryOK DEF TypeOK
  <2> QED
      BY <1>3, <1>4, <2>1, GotoOK, GotoWithOK DEF ReadTransfer
<1>5. CASE ReadRefused(c) \/ TellFailed(c) \/ TellStatus(c) \/ OpenBankOrder(c)
           \/ Momo(c) \/ SaveFailed(c) \/ Throw(c) \/ CheckChain(c)
           \/ UpdateTransaction(c)
    BY <1>3, <1>5, GotoOK DEF ReadRefused, TellFailed, TellStatus, OpenBankOrder,
       Momo, SaveFailed, Throw, CheckChain, PayStep, UpdateTransaction
<1>6. CASE ReadToPay(c)
  <2>1. [Copy(c) EXCEPT !.ref = orderRef] \in Memory
      BY <1>1, MemoryOK DEF TypeOK
  <2> QED
      BY <1>3, <1>6, <2>1, GotoWithOK DEF ReadToPay
<1>7. CASE ReadToPayManually(c) \/ ReadToReport(c)
    BY <1>1, <1>3, <1>7, GotoOK, GotoWithOK DEF ReadToPayManually, ReadToReport
<1>8. CASE ReadToCancel(c)
    BY <1>1, <1>2, <1>3, <1>8, CallFuncOK DEF ReadToCancel
<1>9. CASE ReadToSet(c)
    BY <1>1, <1>2, <1>3, <1>9, CallFuncOK DEF ReadToSet
<1>10. CASE ReadTransaction(c)
  <2>1. \A s \in TransactionStatus : [mem[c] EXCEPT !.target = s] \in Memory
      BY MemoryOK, StatusesDiffer
  <2> QED
      BY <1>3, <1>10, <2>1, GotoOK, GotoWithOK DEF ReadTransaction,
         TransactionStatus
<1>11. CASE ChangeOrderStatusFunc(c)
  <2>1. [mem[c] EXCEPT !.status = mem[c].target] \in Memory
      BY <1>11, MemoryOK DEF ChangeOrderStatusFunc, At, Targets
  <2> QED
      BY <1>3, <1>11, <2>1, GotoWithOK DEF ChangeOrderStatusFunc
<1>12. CASE FuncFails(c) \/ UpdateTransferStatus(c)
  <2>1. "done" \in PC
      BY <1>3
  <2> QED
      BY <1>2, <1>12, <2>1, GotoOK, ProceedOK DEF FuncFails, UpdateTransferStatus
<1>13. CASE Claim(c)
    BY <1>1, <1>2, <1>3, <1>13, GotoWithOK, CallFuncOK DEF Claim
<1>14. CASE WithdrawStatus(c)
  <2>1. [mem[c] EXCEPT !.ref = None] \in Memory
      BY MemoryOK
  <2> QED
      BY <1>3, <1>14, <2>1, GotoOK, GotoWithOK DEF WithdrawStatus, Looked, PayStep
<1>15. CASE MarkRefunding(c)
    BY <1>1, <1>3, <1>15, GotoWithOK DEF MarkRefunding
<1>16. CASE Refund(c) \/ PayBank(c)
  <2>1. \A h \in PayoutResult : [mem[c] EXCEPT !.txHash = h] \in Memory
      BY MemoryOK
  <2> QED
      BY <1>3, <1>16, <2>1, GotoOK, GotoWithOK DEF Refund, PayBank
<1>17. CASE SaveRefunded(c)
    BY <1>1, <1>2, <1>3, <1>17, GotoOK, CallFuncOK DEF SaveRefunded
<1>18. CASE BankStatusOfTx(c)
    BY <1>2, <1>3, <1>18, GotoOK, CallFuncOK DEF BankStatusOfTx
<1>19. CASE BankStatusOfRoute(c)
  <2>1. bankOrders[mem[c].bank] \in Fact
      BY <1>19, StatusesDiffer DEF BankStatusOfRoute
  <2>2. [mem[c] EXCEPT !.target = bankOrders[mem[c].bank],
                       !.then = "tellStatus"] \in Memory
      BY <1>3, <2>1, MemoryOK
  <2> QED
      BY <1>3, <1>19, <2>2, GotoWithOK DEF BankStatusOfRoute
<1>20. CASE SaveBankRef(c) \/ SaveRef(c) \/ SaveManual(c)
    BY <1>1, <1>2, <1>3, <1>20, GotoOK, CallFuncOK DEF SaveBankRef, SaveRef,
       SaveManual
<1> QED
    BY <1>4, <1>5, <1>6, <1>7, <1>8, <1>9, <1>10, <1>11, <1>12, <1>13, <1>14,
       <1>15, <1>16, <1>17, <1>18, <1>19, <1>20 DEF Step

StoredOK ==
    /\ StoreTypeOK
    /\ orderRef \in Call \cup {None}
    /\ bankOrderId \in Call \cup {None}

\* The steps that save the order.
Saves(c) ==
    \/ ChangeOrderStatusFunc(c) \/ Claim(c) \/ MarkRefunding(c)
    \/ SaveRefunded(c) \/ SaveManual(c) \/ SaveFailed(c)

\* A step saves the order, writes the transfer, the transaction, one of the
\* references or PayCrest's answer, or none of the documents.
LEMMA StepWrites ==
    ASSUME NEW c \in Call, Step(c)
    PROVE  \/ Saves(c)
           \/ UpdateTransferStatus(c)
           \/ UpdateTransaction(c)
           \/ BankStatusOfRoute(c)
           \/ /\ UNCHANGED <<orderStatus, transferStatus, facts>>
              /\ orderRef' \in {orderRef, c} /\ bankOrderId' \in {bankOrderId, c}
<1> USE DEF stored, Saves
<1>1. CASE ReadTransfer(c) \/ ReadRefused(c) \/ ReadToPay(c)
           \/ ReadToPayManually(c) \/ ReadToCancel(c) \/ ReadToSet(c)
           \/ ReadToReport(c) \/ ReadTransaction(c) \/ FuncFails(c)
    BY <1>1 DEF ReadTransfer, ReadRefused, ReadToPay, ReadToPayManually,
       ReadToCancel, ReadToSet, ReadToReport, ReadTransaction, FuncFails
<1>2. CASE CheckChain(c) \/ WithdrawStatus(c) \/ TellFailed(c) \/ Refund(c)
           \/ BankStatusOfTx(c) \/ TellStatus(c) \/ OpenBankOrder(c)
           \/ PayBank(c) \/ SaveBankRef(c) \/ Momo(c) \/ SaveRef(c) \/ Throw(c)
    BY <1>2 DEF CheckChain, WithdrawStatus, TellFailed, Refund, BankStatusOfTx,
       TellStatus, OpenBankOrder, PayBank, SaveBankRef, Momo, SaveRef, Throw
<1> QED
    BY <1>1, <1>2 DEF Step

\* What the steps that save the order save it with, and what they leave alone.
LEMMA SavesWhat ==
    ASSUME TypeOK, NEW c \in Call, Targets(c), Saves(c)
    PROVE  /\ \E status \in OrderStatus : Save(c, status)
           /\ orderRef' \in {orderRef, c} /\ UNCHANGED <<bankOrderId, providers>>
<1>1. {"IN-PROGRESS", "IS-REFUNDING", "REFUNDED", "DONE", "FAILED"} \subseteq OrderStatus
    BY DEF OrderStatus
<1> QED
    BY <1>1 DEF Saves, ChangeOrderStatusFunc, Claim, MarkRefunding, SaveRefunded,
       SaveManual, SaveFailed, Targets, At

LEMMA StoredNext ==
    ASSUME TypeOK, NEW c \in Call, Targets(c), Step(c)
    PROVE  StoredOK'
<1> USE DEF TypeOK, StoreTypeOK, StoredOK
<1>1. mem[c].target \in Fact /\ Shown(mem[c].target) \in TransferStatus
    BY ShownIsStatus DEF Memory, Target
<1>2. CASE Saves(c)
    BY <1>2, SavesWhat, StatusesDiffer DEF Save, SaveOrder
<1>3. CASE UpdateTransferStatus(c)
    BY <1>1, <1>3 DEF UpdateTransferStatus, UpdateTransfer
<1>4. CASE UpdateTransaction(c)
    BY <1>1, <1>4 DEF UpdateTransaction, SaveTransaction, Fact, TransactionStatus
<1>5. CASE BankStatusOfRoute(c)
    BY <1>5, StatusesDiffer DEF BankStatusOfRoute
<1> QED
    BY <1>2, <1>3, <1>4, <1>5, StepWrites

ProvidersOK ==
    /\ withdrawals \in [Call -> {"none", "pending", "ok", "failed"}]
    /\ bankOrders \in [Call -> {"none"} \cup BankStatus]
    /\ bankPayouts \subseteq Call
    /\ refunds \subseteq Call
    /\ events \subseteq {"TransferStarted", "TransferComplete", "TransferFailed"}
    /\ active \in BOOLEAN

\* The steps that act on a provider or tell the store; the others do neither.
Acts(c) ==
    \/ TellFailed(c) \/ Refund(c) \/ TellStatus(c) \/ OpenBankOrder(c)
    \/ PayBank(c) \/ Momo(c) \/ SaveRef(c)

LEMMA StepActs ==
    ASSUME NEW c \in Call, Step(c)
    PROVE  Acts(c) \/ UNCHANGED providers
<1>1. CASE ReadTransfer(c) \/ ReadRefused(c) \/ ReadToPay(c)
           \/ ReadToPayManually(c) \/ ReadToCancel(c) \/ ReadToSet(c)
           \/ ReadToReport(c) \/ ReadTransaction(c) \/ FuncFails(c)
    BY <1>1 DEF ReadTransfer, ReadRefused, ReadToPay, ReadToPayManually,
       ReadToCancel, ReadToSet, ReadToReport, ReadTransaction, FuncFails
<1>2. CASE UpdateTransaction(c) \/ ChangeOrderStatusFunc(c)
           \/ UpdateTransferStatus(c) \/ Claim(c) \/ CheckChain(c)
           \/ WithdrawStatus(c) \/ MarkRefunding(c) \/ SaveRefunded(c)
           \/ BankStatusOfTx(c) \/ BankStatusOfRoute(c) \/ SaveBankRef(c)
           \/ SaveManual(c) \/ SaveFailed(c) \/ Throw(c)
    BY <1>2 DEF UpdateTransaction, ChangeOrderStatusFunc, UpdateTransferStatus,
       Claim, CheckChain, WithdrawStatus, MarkRefunding, SaveRefunded,
       BankStatusOfTx, BankStatusOfRoute, SaveBankRef, SaveManual, SaveFailed,
       Throw
<1> QED
    BY <1>1, <1>2 DEF Step, Acts

LEMMA ProvidersNext ==
    ASSUME TypeOK, NEW c \in Call, Targets(c), Step(c)
    PROVE  ProvidersOK'
<1> USE DEF TypeOK, ProvidersOK
<1>1. CASE TellFailed(c) \/ SaveRef(c)
    BY <1>1 DEF TellFailed, SaveRef
<1>6. CASE Refund(c) \/ PayBank(c)
  <2>1. refunds' \in {refunds, refunds \cup {c}}
      BY <1>6 DEF Refund, PayBank
  <2>2. bankPayouts' \in {bankPayouts, bankPayouts \cup {c}}
      BY <1>6 DEF Refund, PayBank
  <2> QED
      BY <1>6, <2>1, <2>2 DEF Refund, PayBank
<1>2. CASE TellStatus(c)
  <2>1. BankTransferStatus(mem[c].target) \in
          {"TransferStarted", "TransferComplete", "TransferFailed"}
      BY <1>2 DEF TellStatus, At, Targets, BankTransferStatus, BankStatus
  <2> QED
      BY <1>2, <2>1 DEF TellStatus
<1>3. CASE OpenBankOrder(c)
    BY <1>3 DEF OpenBankOrder, BankStatus
<1>4. CASE Momo(c)
    BY <1>4 DEF Momo
<1>5. CASE UNCHANGED providers
    BY <1>5 DEF providers
<1> QED
    BY <1>1, <1>2, <1>3, <1>4, <1>5, <1>6, StepActs DEF Acts

LEMMA TypeInit == Init => TypeOK
<1> SUFFICES ASSUME Init PROVE TypeOK
    OBVIOUS
<1>1. StoreTypeOK
    BY DEF Init, StoreInit, StoreTypeOK, OrderStatus, TransferStatus, Fact
<1>2. mem \in [Call -> Memory]
    BY MemoryOK DEF Init
<1> QED
    BY <1>1, <1>2 DEF Init, TypeOK, PC

\* The handler of a call that arrives.
LEMMA ArriveWhat ==
    ASSUME NEW c \in Call, Arrive(c)
    PROVE  \E handler \in Op :
             /\ handler = "withdrawCallback" =>
                  misrouted' \/ \E w \in Call : withdrawals[w] = "failed"
             /\ misrouted => misrouted'
             /\ op' = [op EXCEPT ![c] = handler]
             /\ pc' = [pc EXCEPT ![c] = IF handler \in {"tx", "status"}
                                          THEN "readTransfer" ELSE "readOrder"]
             /\ pc[c] = "idle"
             /\ UNCHANGED <<mem, stored, providers, raced, reopened>>
<1>1. PICK handler \in Op :
         /\ misrouted' = (misrouted \/ (handler = "withdrawCallback"
                            /\ \A w \in Call : withdrawals[w] # "failed"))
         /\ op' = [op EXCEPT ![c] = handler]
         /\ pc' = [pc EXCEPT ![c] = IF handler \in {"tx", "status"}
                                      THEN "readTransfer" ELSE "readOrder"]
    BY DEF Arrive
<1>2. misrouted => misrouted'
    BY <1>1
<1>3. handler = "withdrawCallback" =>
        misrouted' \/ \E w \in Call : withdrawals[w] = "failed"
    BY <1>1
<1> QED
    BY <1>1, <1>2, <1>3 DEF Arrive, At

LEMMA StepObserves ==
    ASSUME TypeOK, NEW c \in Call, Targets(c), Step(c)
    PROVE  /\ UNCHANGED misrouted
           /\ ReadToPay(c) \/ UNCHANGED raced
           /\ Saves(c) \/ UNCHANGED reopened
<1>1. CASE Saves(c)
    BY <1>1, SavesWhat DEF Save
<1>2. CASE ReadToPay(c)
    BY <1>2 DEF ReadToPay
<1>3. CASE ReadTransfer(c) \/ ReadRefused(c) \/ ReadToPayManually(c)
           \/ ReadToCancel(c) \/ ReadToSet(c) \/ ReadToReport(c)
           \/ ReadTransaction(c) \/ FuncFails(c) \/ UpdateTransaction(c)
           \/ UpdateTransferStatus(c)
    BY <1>3 DEF ReadTransfer, ReadRefused, ReadToPayManually, ReadToCancel,
       ReadToSet, ReadToReport, ReadTransaction, FuncFails, UpdateTransaction,
       UpdateTransferStatus, observed
<1>4. CASE CheckChain(c) \/ WithdrawStatus(c) \/ TellFailed(c) \/ Refund(c)
           \/ BankStatusOfTx(c) \/ BankStatusOfRoute(c) \/ TellStatus(c)
           \/ OpenBankOrder(c) \/ PayBank(c) \/ SaveBankRef(c) \/ Momo(c)
           \/ SaveRef(c) \/ Throw(c)
    BY <1>4 DEF CheckChain, WithdrawStatus, TellFailed, Refund, BankStatusOfTx,
       BankStatusOfRoute, TellStatus, OpenBankOrder, PayBank, SaveBankRef, Momo,
       SaveRef, Throw, observed
<1> QED
    BY <1>1, <1>2, <1>3, <1>4 DEF Step, Saves

LEMMA ObservedOK ==
    ASSUME TypeOK, NEW c \in Call, Targets(c), Step(c)
    PROVE  raced' \in BOOLEAN /\ reopened' \in BOOLEAN /\ misrouted' \in BOOLEAN
<1>1. misrouted' \in BOOLEAN
    BY StepObserves DEF TypeOK
<1>2. raced' \in BOOLEAN
  <2>1. CASE ReadToPay(c)
      BY <2>1 DEF ReadToPay
  <2> QED
      BY <2>1, StepObserves DEF TypeOK
<1>3. reopened' \in BOOLEAN
  <2>1. CASE Saves(c)
      BY <2>1, SavesWhat DEF Save
  <2> QED
      BY <2>1, StepObserves DEF TypeOK
<1> QED
    BY <1>1, <1>2, <1>3

LEMMA TypeNext ==
    ASSUME TypeOK, \A c \in Call : Targets(c), [Next]_vars
    PROVE  TypeOK'
<1>1. CASE UNCHANGED vars
    BY <1>1 DEF vars, stored, providers, control, observed, TypeOK, StoreTypeOK
<1>2. CASE LaterOrder /\ UNCHANGED channel
    BY <1>2 DEF LaterOrder, stored, control, observed, TypeOK, StoreTypeOK
<1>3. CASE Crash /\ UNCHANGED channel
  <2>1. ControlOK'
      BY <1>3, MemoryOK DEF Crash, Finished, PC, Op, TypeOK, ControlOK
  <2> QED
      BY <1>3, <2>1 DEF Crash, ControlOK, stored, providers, observed, TypeOK,
         StoreTypeOK
<1>4. ASSUME NEW c \in Call, Arrive(c), UNCHANGED channel
      PROVE  TypeOK'
  <2>1. pc' \in [Call -> PC] /\ op' \in [Call -> Op \cup {None}]
      BY <1>4, ArriveWhat DEF TypeOK, PC
  <2>2. misrouted' \in BOOLEAN
      BY <1>4 DEF Arrive
  <2> QED
      BY <1>4, <2>1, <2>2, ArriveWhat DEF stored, providers, TypeOK, StoreTypeOK
<1>5. ASSUME NEW c \in Call, WithdrawalEnds(c) \/ BankOrderEnds(c),
             UNCHANGED channel
      PROVE  TypeOK'
  <2>1. CASE WithdrawalEnds(c)
      BY <1>5, <2>1 DEF WithdrawalEnds, stored, control, observed, TypeOK,
         StoreTypeOK
  <2>2. CASE BankOrderEnds(c)
      BY <1>5, <2>2 DEF BankOrderEnds, stored, control, observed, TypeOK,
         StoreTypeOK, BankStatus
  <2> QED
      BY <1>5, <2>1, <2>2
<1>6. ASSUME NEW c \in Call, Step(c), UNCHANGED channel
      PROVE  TypeOK'
  <2>1. ControlOK' /\ StoredOK' /\ ProvidersOK'
      BY <1>6, StepOK, StoredNext, ProvidersNext
  <2>2. raced' \in BOOLEAN /\ reopened' \in BOOLEAN /\ misrouted' \in BOOLEAN
      BY <1>6, ObservedOK
  <2> QED
      BY <1>6, <2>1, <2>2 DEF ControlOK, StoredOK, ProvidersOK, TypeOK
<1> QED
    BY <1>1, <1>2, <1>3, <1>4, <1>5, <1>6 DEF Next, Running

-----------------------------------------------------------------------------
(***************************************************************************)
(* The inductive invariant.                                                *)
(*                                                                         *)
(* Justified says that whoever is on the way to a refund has a failed      *)
(* payout, or a misrouted callback, behind it.  A /tx call is Claiming     *)
(* between its read of an open order and the save of its claim, and        *)
(* Engaged from then on and for good once it moved money.  Exclusive is    *)
(* why one pays: of two Claiming calls the later raced; an engaged call    *)
(* and a Claiming one raced too, or the claim was given up, since while a  *)
(* call is engaged the order keeps a claimed status.                       *)
(***************************************************************************)
Failing == misrouted \/ \E w \in Call : withdrawals[w] = "failed"

Justified(c) ==
    /\ \/ op[c] = "withdrawCallback"
       \/ pc[c] \in {"tellFailed", "markRefunding", "refund"}
       \/ mem[c].then = "tellFailed"
       => Failing
    /\ pc[c] = "withdrawStatus" => mem[c].ref # None

Claiming(c) == pc[c] = "claim" /\ op[c] = "tx"

Engaged(c) ==
    /\ op[c] = "tx"
    /\ pc[c] \notin Early \cup {"done"} \/ c \in TxPayers

Open(c) == Claiming(c) => mem[c].status \notin Claimed

Local(c) == Targets(c) /\ Moved(c) /\ Justified(c) /\ Open(c)

Exclusive ==
    /\ ~raced => \A c, d \in Call : Claiming(c) /\ Claiming(d) => c = d
    /\ ~raced /\ ~reopened =>
          \A c, d \in Call : Engaged(c) /\ (Engaged(d) \/ Claiming(d)) => c = d
    /\ ~reopened /\ (\E c \in Call : Engaged(c)) => orderStatus \in Claimed

Inv ==
    /\ TypeOK
    /\ \A c \in Call : Local(c)
    /\ Exclusive
    /\ refunds # {} => Failing

(***************************************************************************)
(* Shown as refunded.  On the EVM chains a hash is that of a transfer that *)
(* was executed; over Lightning no /tx call gets to a refund.              *)
(***************************************************************************)
Refunded(c) ==
    /\ op[c] = "tx" /\ Network = "lightning" => pc[c] \in Early \cup {"checkChain", "done"}
    /\ /\ \/ pc[c] = "saveRefunded" /\ op[c] = "tx"
          \/ pc[c] = "changeOrderStatusFunc" /\ mem[c].target = "REFUNDED"
       /\ Castable(mem[c].txHash)
       => refunds # {}
    /\ pc[c] = "updateTransfer" /\ mem[c].target = "REFUNDED" => refunds # {}

RefundedInv ==
    /\ \A c \in Call : Refunded(c)
    /\ transferStatus = "TransferRefunded" => refunds # {}

-----------------------------------------------------------------------------
(***************************************************************************)
(* What the ways to go on do to a call, and that they touch no other.      *)
(***************************************************************************)
Untouched(c) ==
    \A d \in Call \ {c} : pc'[d] = pc[d] /\ op'[d] = op[d] /\ mem'[d] = mem[d]

LEMMA GotoTells ==
    ASSUME TypeOK, NEW c \in Call, NEW step, Goto(c, step)
    PROVE  /\ Untouched(c)
           /\ pc'[c] = step
           /\ step = "done" => mem'[c] = NoMemory /\ op'[c] = Finished(op[c])
           /\ step # "done" => mem'[c] = mem[c] /\ op'[c] = op[c]
BY DEF Goto, TypeOK, Untouched

LEMMA GotoWithTells ==
    ASSUME TypeOK, NEW c \in Call, NEW step, NEW copy, GotoWith(c, step, copy)
    PROVE  /\ Untouched(c)
           /\ pc'[c] = step /\ mem'[c] = copy /\ op'[c] = op[c]
BY DEF GotoWith, TypeOK, Untouched

LEMMA CallFuncTells ==
    ASSUME TypeOK, NEW c \in Call, NEW copy \in Memory, NEW status, NEW txHash,
           NEW then, CallFunc(c, copy, status, txHash, then)
    PROVE  /\ Untouched(c)
           /\ pc'[c] = "changeOrderStatusFunc" /\ op'[c] = op[c]
           /\ mem'[c].status = copy.status /\ mem'[c].ref = copy.ref
           /\ mem'[c].target = status /\ mem'[c].txHash = txHash
           /\ mem'[c].then = then
BY DEF CallFunc, GotoWith, TypeOK, Memory, Untouched

LEMMA ProceedTells ==
    ASSUME TypeOK, NEW c \in Call, NEW status, Proceed(c, status)
    PROVE  \/ mem[c].then = "done" /\ Goto(c, "done")
           \/ /\ mem[c].then # "done"
              /\ Untouched(c)
              /\ pc'[c] = mem[c].then /\ op'[c] = op[c]
              /\ mem'[c].status = status /\ mem'[c].ref = None
              /\ mem'[c].target = mem[c].target /\ mem'[c].then = "done"
<1> DEFINE back == [NoMemory EXCEPT !.status = status, !.target = mem[c].target]
<1>1. CASE mem[c].then = "done"
    BY <1>1 DEF Proceed
<1>2. CASE mem[c].then # "done"
  <2>1. GotoWith(c, mem[c].then, back)
      BY <1>2 DEF Proceed
  <2>2. /\ back.status = status /\ back.ref = None
        /\ back.target = mem[c].target /\ back.then = "done"
      BY DEF NoMemory
  <2> HIDE DEF back
  <2>3. mem'[c] = back /\ pc'[c] = mem[c].then /\ op'[c] = op[c] /\ Untouched(c)
      BY <2>1, GotoWithTells
  <2> QED
      BY <1>2, <2>2, <2>3
<1> QED
    BY <1>1, <1>2

LEMMA CopyTells ==
    ASSUME TypeOK, NEW c \in Call
    PROVE  /\ Copy(c) \in Memory
           /\ Copy(c).status = orderStatus
           /\ Copy(c).ref = mem[c].ref /\ Copy(c).target = mem[c].target
           /\ Copy(c).then = mem[c].then
<1>1. mem[c] \in Memory /\ orderStatus \in OrderStatus
    BY DEF TypeOK, StoreTypeOK
<1>2. Copy(c) \in Memory
    BY <1>1, MemoryOK DEF Copy
<1> QED
    BY <1>1, <1>2 DEF Copy, Memory

LEMMA StepUntouched ==
    ASSUME TypeOK, NEW c \in Call, Step(c)
    PROVE  Untouched(c)
<1> USE DEF Goto, GotoWith, CallFunc, Untouched, TypeOK
<1>1. CASE ReadTransfer(c) \/ ReadRefused(c) \/ ReadToPay(c)
           \/ ReadToPayManually(c) \/ ReadToCancel(c) \/ ReadToSet(c)
           \/ ReadToReport(c) \/ ReadTransaction(c)
    BY <1>1 DEF ReadTransfer, ReadRefused, ReadToPay, ReadToPayManually,
       ReadToCancel, ReadToSet, ReadToReport, ReadTransaction
<1>2. CASE UpdateTransaction(c) \/ ChangeOrderStatusFunc(c)
           \/ UpdateTransferStatus(c) \/ FuncFails(c) \/ Claim(c)
    BY <1>2 DEF UpdateTransaction, ChangeOrderStatusFunc, UpdateTransferStatus,
       FuncFails, Claim, Proceed
<1>3. CASE CheckChain(c) \/ WithdrawStatus(c) \/ TellFailed(c)
           \/ MarkRefunding(c) \/ Refund(c) \/ SaveRefunded(c)
    BY <1>3 DEF CheckChain, WithdrawStatus, Looked, TellFailed, MarkRefunding,
       Refund, SaveRefunded
<1>4. CASE BankStatusOfTx(c) \/ BankStatusOfRoute(c) \/ TellStatus(c)
           \/ OpenBankOrder(c) \/ PayBank(c) \/ SaveBankRef(c)
    BY <1>4 DEF BankStatusOfTx, BankStatusOfRoute, TellStatus, OpenBankOrder,
       PayBank, SaveBankRef
<1>5. CASE Momo(c) \/ SaveRef(c) \/ SaveManual(c) \/ SaveFailed(c) \/ Throw(c)
    BY <1>5 DEF Momo, SaveRef, SaveManual, SaveFailed, Throw
<1> QED
    BY <1>1, <1>2, <1>3, <1>4, <1>5 DEF Step

\* The money a step moves is that of the call that takes it.
OwnMoney(c) ==
    /\ \A d \in Call \ {c} : withdrawals'[d] = withdrawals[d]
    /\ bankPayouts' \in {bankPayouts, bankPayouts \cup {c}}
    /\ refunds' \in {refunds, refunds \cup {c}}

LEMMA StepOwnMoney ==
    ASSUME TypeOK, NEW c \in Call, Step(c)
    PROVE  /\ OwnMoney(c)
           /\ Momo(c) \/ UNCHANGED withdrawals
           /\ PayBank(c) \/ UNCHANGED bankPayouts
           /\ Refund(c) \/ UNCHANGED refunds
<1>1. CASE Momo(c)
    BY <1>1 DEF Momo, OwnMoney, TypeOK
<1>2. CASE PayBank(c)
    BY <1>2 DEF PayBank, OwnMoney
<1>3. CASE Refund(c)
    BY <1>3 DEF Refund, OwnMoney
<1>4. CASE TellFailed(c) \/ TellStatus(c) \/ OpenBankOrder(c) \/ SaveRef(c)
    BY <1>4 DEF TellFailed, TellStatus, OpenBankOrder, SaveRef, OwnMoney
<1>5. CASE UNCHANGED providers
    BY <1>5 DEF providers, OwnMoney
<1> QED
    BY <1>1, <1>2, <1>3, <1>4, <1>5, StepActs DEF Acts

-----------------------------------------------------------------------------
(***************************************************************************)
(* What no step takes back.                                                *)
(***************************************************************************)
Grows ==
    /\ facts \subseteq facts'
    /\ Failing => Failing'
    /\ raced => raced'
    /\ reopened => reopened'
    /\ refunds \subseteq refunds'

\* A withdrawal that failed is not asked for again.
LEMMA StepFailing ==
    ASSUME Inv, NEW c \in Call, Step(c)
    PROVE  Failing => Failing'
<1>1. Targets(c) /\ Moved(c)
    BY DEF Inv, Local
<1>2. ASSUME NEW w \in Call, withdrawals[w] = "failed"
      PROVE  withdrawals'[w] = "failed"
  <2>1. CASE w = c
    <3>1. ~Momo(c)
        BY <1>1, <1>2, <2>1 DEF Moved, Momo, At, Func
    <3> QED
        BY <1>2, <3>1, StepOwnMoney DEF Inv
  <2> QED
      BY <1>2, <2>1, StepOwnMoney DEF Inv, OwnMoney
<1>3. UNCHANGED misrouted
    BY <1>1, StepObserves DEF Inv
<1> QED
    BY <1>2, <1>3 DEF Failing

LEMMA StepFacts ==
    ASSUME Inv, NEW c \in Call, Step(c)
    PROVE  facts \subseteq facts'
<1>1. CASE Saves(c)
    BY <1>1, SavesWhat DEF Inv, Local, Save, SaveOrder
<1>2. CASE UpdateTransferStatus(c) \/ UpdateTransaction(c) \/ BankStatusOfRoute(c)
    BY <1>2 DEF UpdateTransferStatus, UpdateTransfer, UpdateTransaction,
       SaveTransaction, BankStatusOfRoute
<1> QED
    BY <1>1, <1>2, StepWrites

LEMMA NextGrows == Inv /\ [Next]_vars => Grows
<1> SUFFICES ASSUME Inv, [Next]_vars PROVE Grows
    OBVIOUS
<1>1. CASE UNCHANGED vars \/ LaterOrder \/ Crash
    BY <1>1 DEF vars, LaterOrder, Crash, stored, providers, observed, Grows, Failing
<1>2. ASSUME NEW c \in Call, Arrive(c) PROVE Grows
    BY <1>2, ArriveWhat DEF stored, providers, Grows, Failing
<1>3. ASSUME NEW c \in Call, WithdrawalEnds(c) \/ BankOrderEnds(c) PROVE Grows
    BY <1>3 DEF WithdrawalEnds, BankOrderEnds, stored, observed, Grows, Failing,
       Inv, TypeOK
<1>4. ASSUME NEW c \in Call, Step(c) PROVE Grows
  <2>1. /\ TypeOK /\ Targets(c)
      BY DEF Inv, Local
  <2>2. raced => raced'
      BY <1>4, <2>1, StepObserves DEF ReadToPay
  <2>3. reopened => reopened'
    <3>1. CASE Saves(c)
        BY <2>1, <3>1, SavesWhat DEF Save
    <3> QED
        BY <1>4, <2>1, <3>1, StepObserves
  <2>4. refunds \subseteq refunds'
      BY <1>4, <2>1, StepOwnMoney DEF OwnMoney
  <2> QED
      BY <1>4, <2>2, <2>3, <2>4, StepFailing, StepFacts DEF Grows
<1> QED
    BY <1>1, <1>2, <1>3, <1>4 DEF Next, Running

\* What holds of a call that takes no part in a step still holds of it.
Same(d) ==
    /\ pc'[d] = pc[d] /\ op'[d] = op[d] /\ mem'[d] = mem[d]
    /\ withdrawals'[d] # "none" => withdrawals[d] # "none"
    /\ d \in bankPayouts' => d \in bankPayouts
    /\ d \in refunds' => d \in refunds

LEMMA OthersSame ==
    ASSUME Inv, NEW c \in Call, Step(c), NEW d \in Call \ {c}
    PROVE  Same(d)
BY StepUntouched, StepOwnMoney DEF Inv, Untouched, OwnMoney, Same

LEMMA SameKeepsLocal ==
    ASSUME NEW d \in Call, Local(d), Same(d), Grows
    PROVE  Local(d)' /\ (Engaged(d)' => Engaged(d)) /\ (Claiming(d)' => Claiming(d))
BY DEF Local, Targets, Moved, Justified, Open, Claiming, Engaged, TxPayers, Same,
       Grows

LEMMA ArriveKeepsLocal ==
    ASSUME Inv, NEW c \in Call, Arrive(c), Grows, NEW d \in Call
    PROVE  Local(d)' /\ (Engaged(d)' => Engaged(d)) /\ (Claiming(d)' => Claiming(d))
<1>1. Local(d)
    BY DEF Inv
<1>2. PICK handler \in Op :
         /\ handler = "withdrawCallback" =>
              misrouted' \/ \E w \in Call : withdrawals[w] = "failed"
         /\ op' = [op EXCEPT ![c] = handler]
         /\ pc' = [pc EXCEPT ![c] = IF handler \in {"tx", "status"}
                                      THEN "readTransfer" ELSE "readOrder"]
         /\ pc[c] = "idle"
         /\ UNCHANGED <<mem, stored, providers, raced, reopened>>
    BY ArriveWhat
<1>3. CASE d = c
  <2>1. /\ pc'[c] \in {"readTransfer", "readOrder"} /\ op'[c] = handler
        /\ mem'[c] = mem[c] /\ UNCHANGED <<withdrawals, bankPayouts, refunds>>
      BY <1>2 DEF Inv, TypeOK, providers
  <2>2. Targets(c)'
      BY <1>1, <1>2, <1>3, <2>1 DEF Local, Targets, Func
  <2>3. withdrawals[c] = "none" /\ c \notin bankPayouts \cup refunds
      BY <1>1, <1>2, <1>3 DEF Local, Moved, Func, Early, Inv, TypeOK
  <2>4. Moved(c)'
      BY <2>1, <2>3 DEF Moved
  <2>5. handler = "withdrawCallback" => Failing'
      BY <1>2, <2>1 DEF Failing
  <2>6. mem'[c].then = "done"
      BY <1>1, <1>2, <1>3, <2>1 DEF Local, Targets, Func
  <2>7. Justified(c)'
      BY <2>1, <2>5, <2>6 DEF Justified
  <2>8. ~Claiming(c)' /\ ~Engaged(c)'
      BY <2>1, <2>3 DEF Claiming, Engaged, TxPayers, Early
  <2> QED
      BY <1>3, <2>2, <2>4, <2>7, <2>8 DEF Local, Open
<1>4. CASE d # c
  <2>1. Same(d)
      BY <1>2, <1>4 DEF Inv, TypeOK, providers, Same
  <2> QED
      BY <1>1, <2>1, SameKeepsLocal
<1> QED
    BY <1>3, <1>4

\* A call that ends.
LEMMA EndKeepsLocal ==
    ASSUME Inv, NEW c \in Call, pc'[c] = "done", mem'[c] = NoMemory,
           op'[c] = Finished(op[c])
    PROVE  Local(c)'
<1>1. mem'[c].then = "done" /\ mem'[c].target = "INITIATED"
    BY DEF NoMemory
<1>2. Targets(c)'
    BY <1>1 DEF Targets, Func, Thens
<1>3. Moved(c)'
    BY DEF Moved, Early, Inv, TypeOK
<1>4. op'[c] # "withdrawCallback"
    BY NoneAssumption DEF Finished, Op
<1>5. Justified(c)' /\ Open(c)'
    BY <1>1, <1>4 DEF Justified, Open, Claiming
<1> QED
    BY <1>2, <1>3, <1>5 DEF Local

\* A call that goes on, outside changeOrderStatusFunc.
LEMMA OnKeepsLocal ==
    ASSUME Inv, Grows, NEW c \in Call,
           op'[c] = op[c], mem'[c].then = "done",
           pc'[c] \notin Func \cup {"idle", "done"},
           withdrawals'[c] = "none" \/ pc'[c] \in {"saveRef", "saveManual", "saveFailed"},
           c \in bankPayouts' \cup refunds' => pc'[c] \notin Early \cup {"checkChain"},
           pc'[c] \in {"tellFailed", "markRefunding", "refund"} => Failing',
           pc'[c] = "withdrawStatus" => mem'[c].ref # None,
           Claiming(c)' => mem'[c].status \notin Claimed,
           pc'[c] = "saveTransaction" =>
              op[c] = "confirm" \/ mem'[c].target \in TransactionStatus,
           pc'[c] = "tellStatus" => mem'[c].target \in BankStatus
    PROVE  Local(c)'
<1>1. op[c] = "withdrawCallback" => Failing'
    BY DEF Inv, Local, Justified, Grows
<1>2. Targets(c)'
    BY DEF Targets, Func, Thens
<1>3. Moved(c)'
    BY DEF Moved
<1>4. Justified(c)' /\ Open(c)'
    BY <1>1 DEF Justified, Open
<1> QED
    BY <1>2, <1>3, <1>4 DEF Local

\* A call that calls changeOrderStatusFunc.
LEMMA CalledKeepsLocal ==
    ASSUME Inv, Grows, NEW c \in Call,
           op'[c] = op[c], pc'[c] = "changeOrderStatusFunc",
           mem'[c].target \in OrderStatus, mem'[c].then \in Thens \ {"tellStatus"},
           withdrawals'[c] # "none" => mem'[c].then = "done",
           mem'[c].then = "tellFailed" => Failing',
           mem'[c].then = "saveTransaction" => op[c] = "confirm"
    PROVE  Local(c)'
<1>1. op[c] = "withdrawCallback" => Failing'
    BY DEF Inv, Local, Justified, Grows
<1>2. Targets(c)'
    BY DEF Targets, Func, Thens
<1>3. Moved(c)'
    BY DEF Moved, Func, Early
<1>4. Justified(c)' /\ Open(c)'
    BY <1>1 DEF Justified, Open, Claiming
<1> QED
    BY <1>2, <1>3, <1>4 DEF Local

LEMMA StepKeepsLocal ==
    ASSUME Inv, NEW c \in Call, Step(c), Grows
    PROVE  Local(c)'
<1>0. /\ TypeOK /\ Targets(c) /\ Moved(c) /\ Justified(c) /\ mem[c] \in Memory
    BY DEF Inv, Local, TypeOK
<1> USE <1>0 DEF At
<1>1. /\ pc[c] # "momo" => UNCHANGED withdrawals
      /\ pc[c] # "payBank" => UNCHANGED bankPayouts
      /\ pc[c] # "refund" => UNCHANGED refunds
    BY StepOwnMoney DEF Momo, PayBank, Refund
<1>2. ASSUME Goto(c, "done") PROVE Local(c)'
    BY <1>2, GotoTells, EndKeepsLocal
<1>3. /\ pc[c] \in Early \cup {"checkChain"} =>
            withdrawals'[c] = "none" /\ c \notin bankPayouts' \cup refunds'
      /\ pc[c] \notin Func => mem[c].then = "done"
      /\ pc[c] \notin Func \cup {"momo", "saveRef", "saveManual", "saveFailed", "done"} =>
            withdrawals'[c] = "none"
    BY <1>1 DEF Targets, Moved, Early, Func
<1>4. {"IN-PROGRESS", "CANCELLED", "DONE", "IS-REFUNDING", "REFUNDED"} \subseteq OrderStatus
    BY DEF OrderStatus
\* From a place where nothing is paid yet to another.
<1>5. ASSUME pc[c] \in {"readTransfer", "readOrder", "claim", "checkChain"},
             op'[c] = op[c], mem'[c].then = "done",
             pc'[c] \in {"readOrder", "claim", "checkChain", "bankStatus", "bankQuote",
                         "momo", "withdrawStatus", "saveTransaction"},
             pc'[c] = "withdrawStatus" => mem'[c].ref # None,
             Claiming(c)' => mem'[c].status \notin Claimed,
             pc'[c] = "saveTransaction" =>
                op[c] = "confirm" \/ mem'[c].target \in TransactionStatus
      PROVE  Local(c)'
  <2>1. withdrawals'[c] = "none" /\ c \notin bankPayouts' \cup refunds'
      BY <1>3, <1>5 DEF Early
  <2> QED
      BY <1>5, <2>1, OnKeepsLocal DEF Func
<1>6. CASE ReadTransfer(c)
  <2> DEFINE copy == [mem[c] EXCEPT !.bank = bankOrderId]
  <2>1. CASE GotoWith(c, "readOrder", copy)
    <3>1. copy.then = mem[c].then
        BY DEF Memory
    <3>2. pc[c] = "readTransfer"
        BY <1>6 DEF ReadTransfer
    <3> HIDE DEF copy
    <3>3. op'[c] = op[c] /\ mem'[c].then = "done" /\ pc'[c] = "readOrder"
        BY <1>3, <2>1, <3>1, <3>2, GotoWithTells DEF Func
    <3> QED
        BY <1>5, <3>2, <3>3 DEF Claiming
  <2> QED
      BY <1>2, <1>6, <2>1 DEF ReadTransfer
<1>7. CASE ReadRefused(c) \/ TellStatus(c) \/ SaveFailed(c) \/ Throw(c)
    BY <1>2, <1>7 DEF ReadRefused, TellStatus, SaveFailed, Throw
<1>8. CASE ReadToPay(c)
  <2> DEFINE copy == [Copy(c) EXCEPT !.ref = orderRef]
  <2>1. copy.then = mem[c].then /\ copy.status = orderStatus
      BY CopyTells DEF Memory
  <2>2. pc[c] = "readOrder" /\ orderStatus \notin Claimed /\ GotoWith(c, "claim", copy)
      BY <1>8 DEF ReadToPay, Refuses, Refused
  <2> HIDE DEF copy
  <2>3. /\ op'[c] = op[c] /\ mem'[c].then = "done" /\ pc'[c] = "claim"
        /\ mem'[c].status = orderStatus
      BY <1>3, <2>1, <2>2, GotoWithTells DEF Func
  <2> QED
      BY <1>5, <2>2, <2>3 DEF Claiming, Claimed
<1>9. CASE ReadToPayManually(c) \/ ReadToReport(c)
  <2>1. ASSUME NEW step \in {"checkChain", "bankStatus"}, GotoWith(c, step, Copy(c)),
               pc[c] = "readOrder"
        PROVE  Local(c)'
    <3>1. op'[c] = op[c] /\ mem'[c].then = "done" /\ pc'[c] = step
        BY <1>3, <2>1, CopyTells, GotoWithTells DEF Func
    <3> QED
        BY <1>5, <2>1, <3>1 DEF Claiming
  <2> QED
      BY <1>2, <1>9, <2>1 DEF ReadToPayManually, ReadToReport
<1>10. ASSUME NEW copy \in Memory, NEW status \in OrderStatus, NEW txHash,
              NEW then \in Thens \ {"tellStatus"},
              CallFunc(c, copy, status, txHash, then),
              withdrawals'[c] # "none" => then = "done",
              then = "tellFailed" => Failing',
              then = "saveTransaction" => op[c] = "confirm"
       PROVE  Local(c)'
    BY <1>10, CallFuncTells, CalledKeepsLocal
<1>11. CASE ReadToCancel(c) \/ ReadToSet(c)
  <2>1. withdrawals'[c] = "none"
      BY <1>3, <1>11 DEF ReadToCancel, ReadToSet, Early
  <2>2. op[c] = "withdrawCallback" => Failing'
      BY DEF Justified, Grows
  <2> QED
      BY <1>2, <1>4, <1>10, <1>11, <2>1, <2>2, CopyTells DEF ReadToCancel,
         ReadToSet, Thens
<1>12. CASE ReadTransaction(c)
  <2>1. ASSUME NEW target \in TransactionStatus,
               GotoWith(c, "saveTransaction", [mem[c] EXCEPT !.target = target]),
               pc[c] = "readOrder"
        PROVE  Local(c)'
    <3> DEFINE copy == [mem[c] EXCEPT !.target = target]
    <3>0. GotoWith(c, "saveTransaction", copy)
        BY <2>1
    <3>1. copy.then = mem[c].then /\ copy.target = target
        BY DEF Memory
    <3> HIDE DEF copy
    <3>2. /\ op'[c] = op[c] /\ mem'[c].then = "done" /\ pc'[c] = "saveTransaction"
          /\ mem'[c].target = target
        BY <1>3, <2>1, <3>0, <3>1, GotoWithTells DEF Func
    <3> QED
        BY <1>5, <2>1, <3>2 DEF Claiming
  <2> QED
      BY <1>2, <1>12, <2>1 DEF ReadTransaction, TransactionStatus
<1>13. CASE ChangeOrderStatusFunc(c)
  <2> DEFINE copy == [mem[c] EXCEPT !.status = mem[c].target]
  <2>1. /\ copy.then = mem[c].then /\ copy.target = mem[c].target
        /\ copy.status = mem[c].target /\ copy.ref = mem[c].ref
      BY DEF Memory
  <2>2. /\ pc[c] = "changeOrderStatusFunc" /\ GotoWith(c, "updateTransfer", copy)
        /\ facts' = facts \cup {mem[c].target}
      BY <1>13 DEF ChangeOrderStatusFunc, Save, SaveOrder
  <2> HIDE DEF copy
  <2>3. pc'[c] = "updateTransfer" /\ op'[c] = op[c] /\ mem'[c] = copy
      BY <2>2, GotoWithTells
  <2>4. Targets(c)'
      BY <2>1, <2>2, <2>3 DEF Targets, Func, Thens
  <2>5. Moved(c)' /\ Justified(c)' /\ Open(c)'
      BY <1>1, <2>1, <2>2, <2>3 DEF Moved, Justified, Open, Claiming, Early,
         Func, Grows
  <2> QED
      BY <2>4, <2>5 DEF Local
\* Back from changeOrderStatusFunc.
<1>14. ASSUME pc[c] \in Func, NEW status, Proceed(c, status) PROVE Local(c)'
  <2>1. CASE Goto(c, "done")
      BY <1>2, <2>1
  <2>2. CASE ~Goto(c, "done")
    <3>1. /\ mem[c].then # "done"
          /\ pc'[c] = mem[c].then /\ op'[c] = op[c]
          /\ mem'[c].then = "done" /\ mem'[c].target = mem[c].target
        BY <1>14, <2>2, ProceedTells
    <3>2. withdrawals'[c] = "none"
        BY <1>1, <1>14, <3>1 DEF Moved, Func
    <3>3. mem[c].then = "tellFailed" => Failing'
        BY DEF Justified, Grows
    <3>4. mem[c].then = "tellStatus" => mem[c].target \in BankStatus
        BY DEF Targets
    <3> QED
        BY <3>1, <3>2, <3>3, <3>4, OnKeepsLocal
           DEF Targets, Thens, Func, Early, Claiming
  <2> QED
      BY <2>1, <2>2
<1>15. CASE FuncFails(c) \/ UpdateTransferStatus(c)
    BY <1>2, <1>14, <1>15 DEF FuncFails, UpdateTransferStatus, Func
<1>16. CASE UpdateTransaction(c)
  <2>1. CASE op[c] = "confirm"
      BY <1>2, <1>16, <2>1 DEF UpdateTransaction
  <2>2. CASE op[c] # "confirm"
    <3>1. /\ pc[c] = "saveTransaction" /\ Goto(c, "updateTransfer")
          /\ facts' = facts \cup {mem[c].target}
        BY <1>16, <2>2 DEF UpdateTransaction, SaveTransaction
    <3>2. pc'[c] = "updateTransfer" /\ op'[c] = op[c] /\ mem'[c] = mem[c]
        BY <3>1, GotoTells
    <3>3. Targets(c)'
        BY <3>1, <3>2 DEF Targets, Func, Thens
    <3>4. Moved(c)' /\ Justified(c)' /\ Open(c)'
        BY <1>1, <3>1, <3>2 DEF Moved, Justified, Open, Claiming, Early, Func, Grows
    <3> QED
        BY <3>3, <3>4 DEF Local
  <2> QED
      BY <2>1, <2>2
<1>17. CASE Claim(c)
  <2> DEFINE copy == [mem[c] EXCEPT !.status = "IN-PROGRESS"]
  <2>1. copy \in Memory /\ copy.then = mem[c].then /\ copy.status = "IN-PROGRESS"
      BY <1>4, MemoryOK DEF Memory
  <2>2. /\ pc[c] = "claim"
        /\ \/ GotoWith(c, "checkChain", copy)
           \/ CallFunc(c, copy, "IN-PROGRESS", "hash", "momo")
      BY <1>17 DEF Claim
  <2> HIDE DEF copy
  <2>3. CASE GotoWith(c, "checkChain", copy)
    <3>1. op'[c] = op[c] /\ mem'[c].then = "done" /\ pc'[c] = "checkChain"
        BY <1>3, <2>1, <2>2, <2>3, GotoWithTells DEF Func
    <3> QED
        BY <1>5, <2>2, <3>1 DEF Claiming
  <2>4. CASE CallFunc(c, copy, "IN-PROGRESS", "hash", "momo")
      BY <1>3, <1>4, <1>10, <2>1, <2>2, <2>4 DEF Thens, Early
  <2> QED
      BY <2>2, <2>3, <2>4
\* Going on with the copy it has.
<1>18. ASSUME NEW step, Goto(c, step), step \notin Func \cup {"idle", "done"},
              pc[c] \notin Func
       PROVE  op'[c] = op[c] /\ mem'[c] = mem[c] /\ mem'[c].then = "done" /\ pc'[c] = step
    BY <1>3, <1>18, GotoTells
<1>19. CASE CheckChain(c)
  <2>1. ASSUME NEW step \in {"bankStatus", "bankQuote", "momo", "claim", "withdrawStatus"},
               Goto(c, step),
               step = "withdrawStatus" => mem[c].ref # None,
               step = "claim" => op[c] # "tx"
        PROVE  Local(c)'
    <3>1. op'[c] = op[c] /\ mem'[c] = mem[c] /\ mem'[c].then = "done" /\ pc'[c] = step
        BY <1>18, <1>19, <2>1 DEF CheckChain, Func
    <3> QED
        BY <1>5, <1>19, <2>1, <3>1 DEF Claiming, CheckChain
  <2> QED
      BY <1>2, <1>19, <2>1 DEF CheckChain, PayStep
\* From a place after the claim to another, nothing asked of Kotani.
<1>20. ASSUME withdrawals'[c] = "none", op'[c] = op[c], mem'[c].then = "done",
              pc'[c] \in {"bankQuote", "bankStatus", "momo", "tellFailed",
                          "markRefunding", "refund", "saveRefunded", "payBank",
                          "saveBankRef"},
              pc'[c] \in {"tellFailed", "markRefunding", "refund"} => Failing'
       PROVE  Local(c)'
    BY <1>20, OnKeepsLocal DEF Early, Func, Claiming
<1>21. CASE WithdrawStatus(c)
  <2>1. pc[c] = "withdrawStatus" /\ mem[c].ref # None /\ withdrawals'[c] = "none"
      BY <1>3, <1>21 DEF WithdrawStatus, Justified, Func
  <2>2. mem[c].ref \in Call
      BY <2>1 DEF Memory
  <2> DEFINE copy == [mem[c] EXCEPT !.ref = None]
  <2>3. copy.then = mem[c].then
      BY DEF Memory
  <2>4. \/ Goto(c, "done")
        \/ withdrawals[mem[c].ref] = "failed" /\ GotoWith(c, "tellFailed", copy)
        \/ GotoWith(c, PayStep(c), copy)
      BY <1>21 DEF WithdrawStatus, MayRefund, Looked
  <2> HIDE DEF copy
  <2>5. CASE withdrawals[mem[c].ref] = "failed" /\ GotoWith(c, "tellFailed", copy)
    <3>1. Failing'
        BY <2>2, <2>5 DEF Failing, Grows
    <3>2. op'[c] = op[c] /\ mem'[c].then = "done" /\ pc'[c] = "tellFailed"
        BY <1>3, <2>1, <2>3, <2>5, GotoWithTells DEF Func
    <3> QED
        BY <1>20, <2>1, <3>1, <3>2
  <2>6. CASE GotoWith(c, PayStep(c), copy)
    <3>1. op'[c] = op[c] /\ mem'[c].then = "done" /\ pc'[c] = PayStep(c)
        BY <1>3, <2>1, <2>3, <2>6, GotoWithTells DEF Func
    <3> QED
        BY <1>20, <2>1, <3>1 DEF PayStep
  <2> QED
      BY <1>2, <2>4, <2>5, <2>6
<1>22. CASE TellFailed(c)
  <2>1. /\ pc[c] = "tellFailed"
        /\ \E step \in {"markRefunding", "refund"} : Goto(c, step)
        /\ withdrawals'[c] = "none" /\ Failing'
      BY <1>3, <1>22 DEF TellFailed, Justified, Grows, Func
  <2> QED
      BY <1>18, <1>20, <2>1 DEF Func
<1>23. CASE MarkRefunding(c)
  <2> DEFINE copy == [mem[c] EXCEPT !.status = "IS-REFUNDING"]
  <2>1. copy.then = mem[c].then
      BY DEF Memory
  <2>2. /\ pc[c] = "markRefunding" /\ GotoWith(c, "refund", copy)
        /\ withdrawals'[c] = "none" /\ Failing'
      BY <1>3, <1>23 DEF MarkRefunding, Justified, Grows, Func
  <2> HIDE DEF copy
  <2>3. op'[c] = op[c] /\ mem'[c].then = "done" /\ pc'[c] = "refund"
      BY <1>3, <2>1, <2>2, GotoWithTells DEF Func
  <2> QED
      BY <1>20, <2>2, <2>3
<1>24. CASE Refund(c) \/ PayBank(c)
  <2>1. ASSUME NEW result \in PayoutResult, NEW step \in {"saveRefunded", "saveBankRef"},
               GotoWith(c, step, [mem[c] EXCEPT !.txHash = result])
        PROVE  Local(c)'
    <3> DEFINE copy == [mem[c] EXCEPT !.txHash = result]
    <3>1. copy.then = mem[c].then /\ GotoWith(c, step, copy)
        BY <2>1 DEF Memory
    <3>2. pc[c] \in {"refund", "payBank"}
        BY <1>24 DEF Refund, PayBank
    <3> HIDE DEF copy
    <3>3. op'[c] = op[c] /\ mem'[c].then = "done" /\ pc'[c] = step
        BY <1>3, <3>1, <3>2, GotoWithTells DEF Func
    <3>4. withdrawals'[c] = "none"
        BY <1>3, <3>2 DEF Func
    <3> QED
        BY <1>20, <3>3, <3>4
  <2> QED
      BY <1>2, <1>24, <2>1 DEF Refund, PayBank
<1>25. CASE SaveRefunded(c)
  <2>1. [mem[c] EXCEPT !.status = "REFUNDED"] \in Memory
      BY <1>4, MemoryOK
  <2> QED
      BY <1>2, <1>4, <1>10, <1>25, <2>1 DEF SaveRefunded, Thens
<1>26. CASE BankStatusOfTx(c)
  <2>1. pc[c] = "bankStatus" /\ withdrawals'[c] = "none"
      BY <1>3, <1>26 DEF BankStatusOfTx, Func
  <2>2. CASE Goto(c, "bankQuote")
      BY <1>18, <1>20, <2>1, <2>2 DEF Func
  <2>3. CASE CallFunc(c, mem[c], "DONE", "hash", "bankQuote")
      BY <1>4, <1>10, <2>1, <2>3 DEF Thens
  <2> QED
      BY <1>2, <1>26, <2>2, <2>3 DEF BankStatusOfTx
<1>27. CASE BankStatusOfRoute(c)
  <2> DEFINE answer == bankOrders[mem[c].bank]
             copy == [mem[c] EXCEPT !.target = answer, !.then = "tellStatus"]
  <2>1. copy.then = "tellStatus" /\ copy.target = answer
      BY DEF Memory
  <2>2. /\ pc[c] = "bankStatus" /\ GotoWith(c, "updateTransfer", copy)
        /\ answer \in BankStatus /\ answer \in facts'
        /\ withdrawals'[c] = "none" /\ op[c] = "status"
      BY <1>3, <1>27 DEF BankStatusOfRoute, Func
  <2> HIDE DEF copy, answer
  <2>3. op'[c] = op[c] /\ mem'[c] = copy /\ pc'[c] = "updateTransfer"
      BY <2>2, GotoWithTells
  <2> QED
      BY <2>1, <2>2, <2>3 DEF Local, Targets, Moved, Justified, Open, Claiming,
         Func, Thens, Early
<1>28. CASE OpenBankOrder(c)
  <2>1. pc[c] = "bankQuote" /\ withdrawals'[c] = "none"
      BY <1>3, <1>28 DEF OpenBankOrder, Func
  <2>2. CASE Goto(c, "payBank")
      BY <1>18, <1>20, <2>1, <2>2 DEF Func
  <2> QED
      BY <1>2, <1>28, <2>2 DEF OpenBankOrder
<1>29. CASE SaveBankRef(c) \/ SaveRef(c)
  <2>1. mem[c].txHash \in PayoutResult
      BY DEF Memory
  <2> QED
      BY <1>2, <1>4, <1>10, <1>29, <2>1 DEF SaveBankRef, SaveRef, Thens
<1>30. CASE SaveManual(c)
  <2>1. [mem[c] EXCEPT !.status = "DONE"] \in Memory
      BY <1>4, MemoryOK
  <2> QED
      BY <1>2, <1>4, <1>10, <1>30, <2>1 DEF SaveManual, Thens
<1>31. CASE Momo(c)
  <2>1. ASSUME NEW step \in {"saveRef", "saveManual", "saveFailed"}, Goto(c, step)
        PROVE  Local(c)'
    <3>1. op'[c] = op[c] /\ mem'[c].then = "done" /\ pc'[c] = step
        BY <1>18, <1>31, <2>1 DEF Momo, Func
    <3> QED
        BY <2>1, <3>1, OnKeepsLocal DEF Func, Early, Claiming
  <2> QED
      BY <1>2, <1>31, <2>1 DEF Momo
<1> QED
    BY <1>6, <1>7, <1>8, <1>9, <1>11, <1>12, <1>13, <1>15, <1>16, <1>17, <1>19,
       <1>21, <1>22, <1>23, <1>24, <1>25, <1>26, <1>27, <1>28, <1>29, <1>30, <1>31
       DEF Step

LEMMA CrashKeepsLocal ==
    ASSUME Inv, Crash, NEW d \in Call
    PROVE  Local(d)' /\ (Engaged(d)' => Engaged(d)) /\ (Claiming(d)' => Claiming(d))
<1>1. /\ mem'[d] = NoMemory /\ op'[d] = Finished(op[d])
      /\ pc'[d] = IF pc[d] = "idle" THEN "idle" ELSE "done"
      /\ UNCHANGED <<withdrawals, bankPayouts, refunds>>
    BY DEF Crash, Running, Inv, TypeOK, providers
<1>2. Local(d)'
  <2>1. CASE pc[d] = "idle"
    <3>1. /\ mem'[d].then = "done" /\ mem'[d].target = "INITIATED"
          /\ op'[d] = None /\ None \notin {"tx", "withdrawCallback"}
        BY <1>1, <2>1, NoneAssumption DEF NoMemory, Finished, Op, Inv, Local, Moved
    <3>2. Targets(d)'
        BY <1>1, <2>1, <3>1 DEF Targets, Func, Thens
    <3>3. Moved(d)'
        BY <1>1, <2>1, <3>1 DEF Inv, Local, Moved, Early, Func
    <3>4. Justified(d)' /\ Open(d)'
        BY <1>1, <2>1, <3>1 DEF Justified, Open, Claiming
    <3> QED
        BY <3>2, <3>3, <3>4 DEF Local
  <2>2. CASE pc[d] # "idle"
      BY <1>1, <2>2, EndKeepsLocal
  <2> QED
      BY <2>1, <2>2
<1>3. op'[d] = "tx" => op[d] = "tx"
    BY <1>1, NoneAssumption DEF Finished, Op
<1> QED
    BY <1>1, <1>2, <1>3 DEF Claiming, Engaged, TxPayers, Early

-----------------------------------------------------------------------------
(***************************************************************************)
(* One payer.  A call becomes Claiming by reading an open order and Engaged *)
(* by saving its claim.                                                    *)
(***************************************************************************)
LEMMA StepRuns ==
    ASSUME NEW c \in Call, Step(c)
    PROVE  pc[c] \notin {"idle", "done"}
BY DEF Step, At, ReadTransfer, ReadRefused, ReadToPay, ReadToPayManually,
   ReadToCancel, ReadToSet, ReadToReport, ReadTransaction, UpdateTransaction,
   ChangeOrderStatusFunc, FuncFails, UpdateTransferStatus, Claim, CheckChain,
   WithdrawStatus, TellFailed, MarkRefunding, Refund, SaveRefunded,
   BankStatusOfTx, BankStatusOfRoute, TellStatus, OpenBankOrder, PayBank,
   SaveBankRef, Momo, SaveRef, SaveManual, SaveFailed, Throw

\* A step leaves a call its handler, or leaves what is remembered of it.
LEMMA StepTx ==
    ASSUME TypeOK, NEW c \in Call, Step(c), op'[c] = "tx"
    PROVE  op[c] = "tx"
<1>1. op'[c] \in {op[c], Finished(op[c])}
  <2> USE DEF Goto, GotoWith, CallFunc, TypeOK
  <2>1. CASE ReadTransfer(c) \/ ReadRefused(c) \/ ReadToPay(c)
             \/ ReadToPayManually(c) \/ ReadToCancel(c) \/ ReadToSet(c)
             \/ ReadToReport(c) \/ ReadTransaction(c)
      BY <2>1 DEF ReadTransfer, ReadRefused, ReadToPay, ReadToPayManually,
         ReadToCancel, ReadToSet, ReadToReport, ReadTransaction
  <2>2. CASE UpdateTransaction(c) \/ ChangeOrderStatusFunc(c)
             \/ UpdateTransferStatus(c) \/ FuncFails(c) \/ Claim(c)
      BY <2>2 DEF UpdateTransaction, ChangeOrderStatusFunc, UpdateTransferStatus,
         FuncFails, Claim, Proceed
  <2>3. CASE CheckChain(c) \/ WithdrawStatus(c) \/ TellFailed(c)
             \/ MarkRefunding(c) \/ Refund(c) \/ SaveRefunded(c)
      BY <2>3 DEF CheckChain, WithdrawStatus, Looked, TellFailed, MarkRefunding,
         Refund, SaveRefunded
  <2>4. CASE BankStatusOfTx(c) \/ BankStatusOfRoute(c) \/ TellStatus(c)
             \/ OpenBankOrder(c) \/ PayBank(c) \/ SaveBankRef(c)
      BY <2>4 DEF BankStatusOfTx, BankStatusOfRoute, TellStatus, OpenBankOrder,
         PayBank, SaveBankRef
  <2>5. CASE Momo(c) \/ SaveRef(c) \/ SaveManual(c) \/ SaveFailed(c) \/ Throw(c)
      BY <2>5 DEF Momo, SaveRef, SaveManual, SaveFailed, Throw
  <2> QED
      BY <2>1, <2>2, <2>3, <2>4, <2>5 DEF Step
<1> QED
    BY <1>1, NoneAssumption DEF Finished, Op

\* What a /tx call does before its claim.
LEMMA StepEarly ==
    ASSUME TypeOK, NEW c \in Call, Step(c), op[c] = "tx", pc[c] \in Early
    PROVE  \/ ReadToPay(c) /\ pc'[c] = "claim"
           \/ Claim(c) /\ pc'[c] = "checkChain"
           \/ pc'[c] \in {"readOrder", "done"}
<1>1. pc[c] # "idle"
    BY StepRuns
<1>2. ReadTransfer(c) \/ ReadRefused(c) \/ ReadToPay(c) \/ Claim(c) \/ Throw(c)
    BY <1>1 DEF At, Early, Step, ReadToPayManually, ReadToCancel, ReadToSet,
       ReadToReport, ReadTransaction, UpdateTransaction, ChangeOrderStatusFunc,
       FuncFails, UpdateTransferStatus, CheckChain, WithdrawStatus, TellFailed,
       MarkRefunding, Refund, SaveRefunded, BankStatusOfTx, BankStatusOfRoute,
       TellStatus, OpenBankOrder, PayBank, SaveBankRef, Momo, SaveRef,
       SaveManual, SaveFailed
<1> QED
    BY <1>2 DEF ReadTransfer, ReadRefused, ReadToPay, Claim, Throw, Goto, GotoWith,
       TypeOK

LEMMA StepEngages ==
    ASSUME Inv, NEW c \in Call, Step(c)
    PROVE  /\ Claiming(c)' => ReadToPay(c)
           /\ Engaged(c)' => Engaged(c) \/ (Claiming(c) /\ Claim(c))
<1> USE DEF At
<1>1. TypeOK /\ Local(c)
    BY DEF Inv
<1>2. ASSUME op[c] = "tx", pc[c] \notin Early PROVE pc'[c] # "claim"
  <2> USE <1>1 DEF Goto, GotoWith, CallFunc, TypeOK
  <2>1. CASE UpdateTransaction(c) \/ ChangeOrderStatusFunc(c) \/ CheckChain(c)
             \/ WithdrawStatus(c) \/ TellFailed(c) \/ MarkRefunding(c)
             \/ Refund(c) \/ SaveRefunded(c)
      BY <1>2, <2>1 DEF UpdateTransaction, ChangeOrderStatusFunc, CheckChain,
         PayStep,
         WithdrawStatus, Looked, TellFailed, MarkRefunding, Refund, SaveRefunded
  <2>2. CASE BankStatusOfTx(c) \/ BankStatusOfRoute(c) \/ TellStatus(c)
             \/ OpenBankOrder(c) \/ PayBank(c) \/ SaveBankRef(c) \/ Momo(c)
             \/ SaveRef(c) \/ SaveManual(c) \/ SaveFailed(c) \/ Throw(c)
      BY <2>2 DEF BankStatusOfTx, BankStatusOfRoute, TellStatus, OpenBankOrder,
         PayBank, SaveBankRef, Momo, SaveRef, SaveManual, SaveFailed, Throw
  <2>3. CASE FuncFails(c) \/ UpdateTransferStatus(c)
      BY <2>3 DEF FuncFails, UpdateTransferStatus, Proceed, Local, Targets, Thens
  <2>4. CASE ReadTransfer(c) \/ ReadRefused(c) \/ ReadToPay(c)
             \/ ReadToPayManually(c) \/ ReadToCancel(c) \/ ReadToSet(c)
             \/ ReadToReport(c) \/ ReadTransaction(c) \/ Claim(c)
      BY <1>2, <2>4 DEF ReadTransfer, ReadRefused, ReadToPay, ReadToPayManually,
         ReadToCancel, ReadToSet, ReadToReport, ReadTransaction, Claim, Early
  <2> QED
      BY <2>1, <2>2, <2>3, <2>4 DEF Step
<1>3. Claiming(c)' => ReadToPay(c)
    BY <1>1, <1>2, StepTx, StepEarly DEF Claiming
<1>4. ASSUME Engaged(c)', ~Engaged(c) PROVE Claiming(c) /\ Claim(c)
  <2>1. op[c] = "tx" /\ pc[c] \in Early /\ c \notin TxPayers
      BY <1>1, <1>4, StepTx, StepRuns DEF Engaged
  <2>2. UNCHANGED <<withdrawals, bankPayouts, refunds>>
      BY <1>1, <2>1, StepOwnMoney DEF Momo, PayBank, Refund, Early
  <2>3. pc'[c] \notin Early \cup {"done"}
      BY <1>4, <2>1, <2>2 DEF Engaged, TxPayers
  <2> QED
      BY <1>1, <2>1, <2>3, StepEarly DEF Claiming, Claim, Early
<1> QED
    BY <1>3, <1>4

\* A claim is given up only by a save that is seen.
LEMMA StepKeepsClaim ==
    ASSUME Inv, NEW c \in Call, Step(c), ~reopened'
    PROVE  /\ orderStatus \in Claimed => orderStatus' \in Claimed
           /\ Claiming(c) /\ Claim(c) => orderStatus' \in Claimed
<1>1. TypeOK /\ Local(c)
    BY DEF Inv
<1>2. CASE Saves(c)
  <2>1. orderStatus \in Claimed => orderStatus' \in Claimed
      BY <1>1, <1>2, SavesWhat DEF Save, Local
  <2>2. ASSUME Claiming(c), Claim(c) PROVE orderStatus' = "IN-PROGRESS"
      BY <1>1, <2>2 DEF Claim, Save, SaveOrder, Local, Open, Claimed
  <2> QED
      BY <2>1, <2>2 DEF Claimed
<1>3. CASE ~Saves(c)
    BY <1>3, StepWrites DEF Saves, UpdateTransferStatus, UpdateTransfer,
       UpdateTransaction, SaveTransaction, BankStatusOfRoute
<1> QED
    BY <1>2, <1>3

LEMMA StepExclusive ==
    ASSUME Inv, NEW c \in Call, Step(c), Grows
    PROVE  Exclusive'
<1> USE DEF Inv
<1>1. /\ Claiming(c)' => ReadToPay(c)
      /\ Engaged(c)' => Engaged(c) \/ (Claiming(c) /\ Claim(c))
    BY StepEngages
<1>2. ASSUME NEW d \in Call, d # c
      PROVE  (Engaged(d)' => Engaged(d)) /\ (Claiming(d)' => Claiming(d))
    BY <1>2, OthersSame, SameKeepsLocal
<1>3. ASSUME ~raced', NEW d \in Call, d # c, Claiming(d)
      PROVE  ~Claiming(c)'
    BY <1>1, <1>3 DEF ReadToPay, Claiming, At
<1>4. ASSUME ~raced'
      PROVE  \A a, b \in Call : Claiming(a)' /\ Claiming(b)' => a = b
    BY <1>2, <1>3, <1>4 DEF Exclusive, Grows
<1>5. ASSUME ~reopened', NEW d \in Call, Engaged(d)
      PROVE  ~Claiming(c)'
  <2>1. orderStatus \in Claimed
      BY <1>5 DEF Exclusive, Grows
  <2> QED
      BY <1>1, <2>1 DEF ReadToPay, Refuses, Refused
<1>6. ASSUME ~raced', ~reopened', NEW a \in Call, NEW b \in Call,
             Engaged(a)', Engaged(b)' \/ Claiming(b)'
      PROVE  a = b
  <2>1. \A x, y \in Call : Claiming(x) /\ Claiming(y) => x = y
      BY <1>6 DEF Exclusive, Grows
  <2>2. \A x, y \in Call : Engaged(x) /\ (Engaged(y) \/ Claiming(y)) => x = y
      BY <1>6 DEF Exclusive, Grows
  <2>3. Engaged(a) \/ (a = c /\ Claiming(c))
      BY <1>1, <1>2, <1>6
  <2>4. CASE b # c
      BY <1>2, <1>6, <2>1, <2>2, <2>3, <2>4
  <2>5. CASE b = c /\ Engaged(c)'
      BY <1>1, <2>2, <2>3, <2>5
  <2>6. CASE b = c /\ Claiming(c)'
    <3>1. ~Engaged(a)
        BY <1>5, <1>6, <2>6
    <3> QED
        BY <2>3, <2>6, <3>1
  <2> QED
      BY <1>6, <2>4, <2>5, <2>6
<1>7. ASSUME ~reopened', NEW a \in Call, Engaged(a)' PROVE orderStatus' \in Claimed
  <2>1. Engaged(a) \/ (Claiming(c) /\ Claim(c))
      BY <1>1, <1>2, <1>7
  <2>2. Engaged(a) => orderStatus \in Claimed
      BY <1>7 DEF Exclusive, Grows
  <2> QED
      BY <1>7, <2>1, <2>2, StepKeepsClaim
<1> QED
    BY <1>4, <1>6, <1>7 DEF Exclusive

LEMMA InvInit == Init => Inv
<1> SUFFICES ASSUME Init PROVE Inv
    OBVIOUS
<1>1. ASSUME NEW c \in Call PROVE Local(c) /\ ~Claiming(c) /\ ~Engaged(c)
  <2>1. /\ pc[c] = "idle" /\ op[c] = None /\ mem[c].then = "done"
        /\ withdrawals[c] = "none" /\ c \notin bankPayouts \cup refunds
        /\ None \notin {"tx", "withdrawCallback"}
      BY NoneAssumption DEF Init, NoMemory, Op
  <2> QED
      BY <2>1 DEF Local, Targets, Moved, Justified, Open, Claiming, Engaged,
         Func, Thens
<1> QED
    BY <1>1, TypeInit DEF Inv, Exclusive, Init

LEMMA InvNext == Inv /\ [Next]_vars => Inv'
<1> SUFFICES ASSUME Inv, [Next]_vars PROVE Inv'
    OBVIOUS
<1>1. TypeOK' /\ Grows
    BY TypeNext, NextGrows DEF Inv, Local
<1>2. ASSUME \A d \in Call : /\ Local(d)'
                             /\ (Engaged(d)' => Engaged(d))
                             /\ (Claiming(d)' => Claiming(d)),
             UNCHANGED <<orderStatus, refunds>>
      PROVE  Inv'
    BY <1>1, <1>2 DEF Inv, Exclusive, Grows
<1>3. CASE UNCHANGED vars \/ LaterOrder
           \/ \E c \in Call : WithdrawalEnds(c) \/ BankOrderEnds(c)
  <2>1. ASSUME NEW d \in Call PROVE Same(d)
      BY <1>3, <2>1 DEF vars, stored, providers, control, LaterOrder,
         WithdrawalEnds, BankOrderEnds, Same, Inv, TypeOK
  <2>2. UNCHANGED <<orderStatus, refunds>>
      BY <1>3 DEF vars, stored, providers, LaterOrder, WithdrawalEnds, BankOrderEnds
  <2> QED
      BY <1>1, <1>2, <2>1, <2>2, SameKeepsLocal DEF Inv
<1>4. CASE Crash
  <2>1. UNCHANGED <<orderStatus, refunds>>
      BY <1>4 DEF Crash, stored, providers
  <2> QED
      BY <1>2, <1>4, <2>1, CrashKeepsLocal
<1>5. ASSUME NEW c \in Call, Arrive(c) PROVE Inv'
  <2>1. UNCHANGED <<orderStatus, refunds>>
      BY <1>5 DEF Arrive, stored, providers
  <2> QED
      BY <1>1, <1>2, <1>5, <2>1, ArriveKeepsLocal
<1>6. ASSUME NEW c \in Call, Step(c) PROVE Inv'
  <2>1. ASSUME NEW d \in Call PROVE Local(d)'
      BY <1>1, <1>6, <2>1, StepKeepsLocal, OthersSame, SameKeepsLocal DEF Inv
  <2>2. refunds' # {} => Failing'
    <3>1. CASE Refund(c)
        BY <1>1, <3>1 DEF Refund, At, Inv, Local, Justified, Grows
    <3>2. CASE UNCHANGED refunds
        BY <1>1, <3>2 DEF Inv, Grows
    <3> QED
        BY <1>6, <3>1, <3>2, StepOwnMoney DEF Inv
  <2> QED
      BY <1>1, <1>6, <2>1, <2>2, StepExclusive DEF Inv
<1> QED
    BY <1>3, <1>4, <1>5, <1>6 DEF Next, Running

LEMMA Invariance == Spec => []Inv
BY InvInit, InvNext, PTL DEF Spec

-----------------------------------------------------------------------------
(***************************************************************************)
(* The properties.                                                         *)
(***************************************************************************)

\* The state stays in its types, whatever interleaves or crashes.
THEOREM Typed == Spec => []TypeOK
<1>1. Inv => TypeOK
    BY DEF Inv
<1> QED
    BY <1>1, Invariance, PTL

\* One /tx call pays, unless two read the open order before either claimed
\* it, or the claim was given up in between.
THEOREM OnePays == Spec => []TxPaysOnce
<1>1. Inv => TxPaysOnce
    BY DEF Inv, Exclusive, Engaged, TxPayers, TxPaysOnce
<1> QED
    BY <1>1, Invariance, PTL

\* A /tx call that moved money has left the order in a status that stops the
\* next one, also when its reference was never saved.
THEOREM PayoutStaysClaimed == Spec => []LostPayoutStaysClaimed
<1>1. Inv => LostPayoutStaysClaimed
    BY DEF Inv, Exclusive, Engaged, TxPayers, LostPayoutStaysClaimed
<1> QED
    BY <1>1, Invariance, PTL

\* Crypto is sent back only when a withdrawal had failed, or for a misrouted
\* callback.
THEOREM RefundsAreJustified == Spec => []RefundNeedsFailedPayout
<1>1. Inv => RefundNeedsFailedPayout
    BY DEF Inv, Failing, RefundNeedsFailedPayout
<1> QED
    BY <1>1, Invariance, PTL

-----------------------------------------------------------------------------
(***************************************************************************)
(* What the transfer shows.                                                *)
(***************************************************************************)
LEMMA StepMirrors == Inv /\ [Next]_vars => [Mirror!Next]_(Mirror!vars)
<1> SUFFICES ASSUME Inv, [Next]_vars PROVE [Mirror!Next]_(Mirror!vars)
    OBVIOUS
<1>1. CASE UNCHANGED <<facts, transferStatus>>
    BY <1>1 DEF Mirror!vars
<1>2. ASSUME NEW f \in Fact, Mirror!Record(f) \/ Mirror!Show(f)
      PROVE  [Mirror!Next]_(Mirror!vars)
    BY <1>2 DEF Mirror!Next
<1>3. ASSUME NEW c \in Call, Step(c) PROVE [Mirror!Next]_(Mirror!vars)
  <2>1. TypeOK /\ Targets(c) /\ mem[c].target \in Fact
      BY DEF Inv, Local, TypeOK, Memory, Target
  <2>2. CASE Saves(c)
    <3>1. PICK status \in OrderStatus : Save(c, status)
        BY <2>1, <2>2, SavesWhat
    <3> QED
        BY <1>2, <3>1 DEF Save, SaveOrder, Mirror!Record, Fact
  <2>3. CASE UpdateTransaction(c)
      BY <1>2, <2>1, <2>3 DEF UpdateTransaction, SaveTransaction, Mirror!Record,
         Fact, TransactionStatus
  <2>4. CASE BankStatusOfRoute(c)
      BY <1>2, <2>4 DEF BankStatusOfRoute, Mirror!Record, Fact
  <2>5. CASE UpdateTransferStatus(c)
      BY <1>2, <2>1, <2>5 DEF UpdateTransferStatus, UpdateTransfer, At, Targets,
         Mirror!Show
  <2> QED
      BY <1>1, <1>3, <2>2, <2>3, <2>4, <2>5, StepWrites
<1>4. CASE UNCHANGED vars \/ LaterOrder \/ Crash
           \/ \E c \in Call : Arrive(c) \/ WithdrawalEnds(c) \/ BankOrderEnds(c)
    BY <1>1, <1>4 DEF vars, LaterOrder, Crash, Arrive, WithdrawalEnds,
       BankOrderEnds, stored
<1> QED
    BY <1>3, <1>4 DEF Next, Running

\* Settling a SELL order implements OrderMirror: the transfer only shows what
\* the order, the transaction or PayCrest recorded before.
THEOREM MirrorsOrder == Spec => TransferMirrorsOrder
<1>1. Init => Mirror!Init
    BY DEF Init, StoreInit, Mirror!Init
<1> QED
    BY <1>1, StepMirrors, Invariance, PTL DEF Spec, TransferMirrorsOrder,
       Mirror!Spec

\* Over Lightning /tx finds no receipt and stops where it looks for one.
LEMMA StepLightning ==
    ASSUME Inv, NEW c \in Call, Step(c), Refunded(c), Network = "lightning",
           op'[c] = "tx"
    PROVE  pc'[c] \in Early \cup {"checkChain", "done"}
<1>1. TypeOK /\ op[c] = "tx" /\ pc[c] \in Early \cup {"checkChain"}
    BY StepTx, StepRuns DEF Inv, Refunded
<1>2. CASE pc[c] \in Early
    BY <1>1, <1>2, StepEarly DEF Early
<1>3. CASE pc[c] = "checkChain"
  <2>1. CheckChain(c) \/ Throw(c)
      BY <1>3 DEF At, Step, ReadTransfer, ReadRefused, ReadToPay,
         ReadToPayManually, ReadToCancel, ReadToSet, ReadToReport,
         ReadTransaction, UpdateTransaction, ChangeOrderStatusFunc, FuncFails,
         UpdateTransferStatus, Claim, WithdrawStatus, TellFailed, MarkRefunding,
         Refund, SaveRefunded, BankStatusOfTx, BankStatusOfRoute, TellStatus,
         OpenBankOrder, PayBank, SaveBankRef, Momo, SaveRef, SaveManual,
         SaveFailed
  <2> QED
      BY <1>1, <2>1 DEF CheckChain, Throw, Goto, TypeOK
<1> QED
    BY <1>1, <1>2, <1>3

LEMMA StepKeepsRefunded ==
    ASSUME Network # "starknet", Inv, NEW c \in Call, Step(c), Grows, Refunded(c)
    PROVE  Refunded(c)'
<1> USE DEF At
<1>0. TypeOK /\ Local(c) /\ mem[c] \in Memory
    BY DEF Inv, TypeOK
<1>1. op'[c] = "tx" /\ Network = "lightning" =>
        pc'[c] \in Early \cup {"checkChain", "done"}
    BY StepLightning
<1>2. ASSUME pc'[c] \notin {"saveRefunded", "changeOrderStatusFunc", "updateTransfer"}
      PROVE  Refunded(c)'
    BY <1>1, <1>2 DEF Refunded
<1>3. ASSUME NEW step, step \notin {"saveRefunded", "changeOrderStatusFunc", "updateTransfer"},
             Goto(c, step) \/ \E copy : GotoWith(c, step, copy)
      PROVE  Refunded(c)'
    BY <1>0, <1>2, <1>3, GotoTells, GotoWithTells
<1>4. ASSUME NEW copy \in Memory, NEW status \in Fact \ {"REFUNDED"}, NEW txHash, NEW then,
             CallFunc(c, copy, status, txHash, then)
      PROVE  Refunded(c)'
    BY <1>0, <1>1, <1>4, CallFuncTells DEF Refunded
<1>5. /\ {"IN-PROGRESS", "CANCELLED", "DONE"} \subseteq Fact \ {"REFUNDED"}
      /\ \A status \in {"IN-PROGRESS", "DONE", "REFUNDED"} :
            [mem[c] EXCEPT !.status = status] \in Memory
    BY <1>0, MemoryOK DEF Fact, OrderStatus
<1>6. CASE ReadTransfer(c) \/ ReadRefused(c) \/ ReadToPay(c)
           \/ ReadToPayManually(c) \/ ReadToReport(c) \/ ReadTransaction(c)
  <2>1. ReadTransfer(c) => Goto(c, "done") \/ \E copy : GotoWith(c, "readOrder", copy)
      BY DEF ReadTransfer
  <2>2. ReadToPay(c) => \E copy : GotoWith(c, "claim", copy)
      BY DEF ReadToPay
  <2>3. ReadToPayManually(c) => \E copy : GotoWith(c, "checkChain", copy)
      BY DEF ReadToPayManually
  <2>4. ReadToReport(c) => Goto(c, "done") \/ \E copy : GotoWith(c, "bankStatus", copy)
      BY DEF ReadToReport
  <2>5. ReadTransaction(c) =>
            Goto(c, "done") \/ \E copy : GotoWith(c, "saveTransaction", copy)
      BY DEF ReadTransaction
  <2> QED
      BY <1>3, <1>6, <2>1, <2>2, <2>3, <2>4, <2>5 DEF ReadRefused
<1>7. CASE ReadToCancel(c) \/ ReadToSet(c) \/ Claim(c)
  <2>1. CASE ReadToCancel(c) \/ ReadToSet(c)
      BY <1>0, <1>4, <1>5, <2>1, CopyTells DEF ReadToCancel, ReadToSet
  <2> DEFINE copy == [mem[c] EXCEPT !.status = "IN-PROGRESS"]
  <2>2. CASE GotoWith(c, "checkChain", copy)
      BY <1>3, <2>2
  <2>3. CASE CallFunc(c, copy, "IN-PROGRESS", "hash", "momo")
      BY <1>4, <1>5, <2>3
  <2>4. Claim(c) => \/ GotoWith(c, "checkChain", copy)
                    \/ CallFunc(c, copy, "IN-PROGRESS", "hash", "momo")
      BY DEF Claim
  <2> QED
      BY <1>7, <2>1, <2>2, <2>3, <2>4
<1>8. CASE CheckChain(c) \/ WithdrawStatus(c) \/ TellFailed(c)
           \/ MarkRefunding(c) \/ TellStatus(c) \/ OpenBankOrder(c)
           \/ PayBank(c) \/ Momo(c) \/ SaveFailed(c) \/ Throw(c)
  <2>1. CASE CheckChain(c) \/ WithdrawStatus(c)
      BY <1>3, <2>1 DEF CheckChain, PayStep, WithdrawStatus, Looked
  <2>2. CASE TellFailed(c) \/ TellStatus(c) \/ OpenBankOrder(c) \/ SaveFailed(c)
             \/ Throw(c)
      BY <1>3, <2>2 DEF TellFailed, TellStatus, OpenBankOrder, SaveFailed, Throw
  <2>3. CASE MarkRefunding(c) \/ PayBank(c)
    <3>1. \/ \E copy : GotoWith(c, "refund", copy)
          \/ \E copy : GotoWith(c, "saveBankRef", copy)
        BY <2>3 DEF MarkRefunding, PayBank
    <3> QED
        BY <1>3, <3>1
  <2>4. CASE Momo(c)
      BY <1>3, <2>4 DEF Momo
  <2> QED
      BY <1>8, <2>1, <2>2, <2>3, <2>4
<1>9. CASE BankStatusOfTx(c) \/ SaveBankRef(c) \/ SaveRef(c) \/ SaveManual(c)
    BY <1>0, <1>3, <1>4, <1>5, <1>9 DEF BankStatusOfTx, SaveBankRef, SaveRef,
       SaveManual
<1>10. CASE FuncFails(c) \/ UpdateTransferStatus(c)
  <2>1. pc'[c] = "done" \/ pc'[c] = mem[c].then
      BY <1>0, <1>10, GotoTells, ProceedTells DEF FuncFails, UpdateTransferStatus
  <2> QED
      BY <1>0, <1>2, <2>1 DEF Local, Targets, Thens
<1>11. CASE Refund(c)
  <2>1. PICK result \in PayoutResult, sent \in {refunds, refunds \cup {c}} :
          /\ result \in PayOutAnswers(c \in sent)
          /\ refunds' = sent
          /\ IF op[c] = "tx" \/ result = "blinkFailure"
               THEN GotoWith(c, "saveRefunded", [mem[c] EXCEPT !.txHash = result])
               ELSE Goto(c, "done")
      BY <1>11 DEF Refund
  <2>2. CASE op[c] = "tx"
    <3>1. Network # "lightning" /\ Network \in {"evm", "starknet", "lightning"}
        BY <1>11, <2>2, NetworkAssumption DEF Refund, Refunded, Early
    <3>2. result = "hash" => refunds' # {}
        BY <2>1, <3>1 DEF PayOutAnswers
    <3> DEFINE copy == [mem[c] EXCEPT !.txHash = result]
    <3>3. copy.txHash = result /\ GotoWith(c, "saveRefunded", copy)
        BY <1>0, <2>1, <2>2 DEF Memory
    <3> HIDE DEF copy
    <3>4. pc'[c] = "saveRefunded" /\ mem'[c].txHash = result
        BY <1>0, <3>3, GotoWithTells
    <3> QED
        BY <1>1, <3>1, <3>2, <3>4 DEF Refunded, Castable, PayoutResult
  <2>3. CASE op[c] # "tx"
    <3>1. pc'[c] = "done" \/ (pc'[c] = "saveRefunded" /\ op'[c] = op[c])
        BY <1>0, <2>1, <2>3, GotoTells, GotoWithTells
    <3> QED
        BY <1>2, <2>3, <3>1 DEF Refunded
  <2> QED
      BY <2>2, <2>3
<1>12. CASE SaveRefunded(c)
  <2> DEFINE copy == [mem[c] EXCEPT !.status = "REFUNDED"]
  <2>1. CASE op[c] = "tx" /\ CallFunc(c, copy, "REFUNDED", mem[c].txHash, "done")
    <3>1. /\ pc'[c] = "changeOrderStatusFunc" /\ op'[c] = op[c]
          /\ mem'[c].txHash = mem[c].txHash
        BY <1>0, <1>5, <2>1, CallFuncTells
    <3>2. Castable(mem[c].txHash) => refunds # {}
        BY <1>12, <2>1 DEF SaveRefunded, Refunded
    <3> QED
        BY <1>1, <3>1, <3>2 DEF Refunded, Grows
  <2> QED
      BY <1>3, <1>12, <2>1 DEF SaveRefunded
<1>13. CASE ChangeOrderStatusFunc(c)
  <2> DEFINE copy == [mem[c] EXCEPT !.status = mem[c].target]
  <2>1. /\ copy.target = mem[c].target /\ GotoWith(c, "updateTransfer", copy)
      BY <1>0, <1>13 DEF ChangeOrderStatusFunc, Memory
  <2> HIDE DEF copy
  <2>2. pc'[c] = "updateTransfer" /\ op'[c] = op[c] /\ mem'[c].target = mem[c].target
      BY <1>0, <2>1, GotoWithTells
  <2>3. mem[c].target = "REFUNDED" => refunds # {}
      BY <1>13 DEF ChangeOrderStatusFunc, Refunded
  <2> QED
      BY <1>1, <2>2, <2>3 DEF Refunded, Grows
<1>14. CASE UpdateTransaction(c)
  <2>1. CASE op[c] = "confirm"
      BY <1>3, <1>14, <2>1 DEF UpdateTransaction
  <2>2. CASE op[c] # "confirm"
    <3>1. pc'[c] = "updateTransfer" /\ mem'[c] = mem[c]
        BY <1>0, <1>14, <2>2, GotoTells DEF UpdateTransaction
    <3>2. mem[c].target # "REFUNDED"
        BY <1>0, <1>14, <2>2 DEF UpdateTransaction, Local, Targets,
           TransactionStatus
    <3> QED
        BY <1>1, <3>1, <3>2 DEF Refunded
  <2> QED
      BY <2>1, <2>2
<1>15. CASE BankStatusOfRoute(c)
  <2> DEFINE answer == bankOrders[mem[c].bank]
             copy == [mem[c] EXCEPT !.target = answer, !.then = "tellStatus"]
  <2>1. copy.target = answer /\ GotoWith(c, "updateTransfer", copy) /\ answer \in BankStatus
      BY <1>0, <1>15 DEF BankStatusOfRoute, Memory
  <2> HIDE DEF copy, answer
  <2>2. pc'[c] = "updateTransfer" /\ mem'[c].target = answer
      BY <1>0, <2>1, GotoWithTells
  <2> QED
      BY <1>1, <2>1, <2>2 DEF Refunded, BankStatus
<1> QED
    BY <1>6, <1>7, <1>8, <1>9, <1>10, <1>11, <1>12, <1>13, <1>14, <1>15 DEF Step

LEMMA RefundedNext ==
    ASSUME Network # "starknet", Inv, RefundedInv, [Next]_vars
    PROVE  RefundedInv'
<1>1. Inv /\ Grows
    BY NextGrows
<1>2. ASSUME NEW d \in Call PROVE Refunded(d)'
  <2>0. Refunded(d)
      BY DEF RefundedInv
  <2>1. CASE pc'[d] \in Early \cup {"done"}
      BY <2>1 DEF Refunded, Early
  <2>2. CASE UNCHANGED <<pc[d], op[d], mem[d]>>
      BY <1>1, <2>0, <2>2 DEF Refunded, Grows
  <2>3. CASE Crash \/ Arrive(d)
    <3>1. pc'[d] \in Early \cup {"done"}
        BY <1>1, <2>3 DEF Crash, Running, Arrive, Early, Inv, TypeOK
    <3> QED
        BY <2>1, <3>1
  <2>4. CASE Step(d)
      BY <1>1, <2>0, <2>4, StepKeepsRefunded
  <2>5. CASE \E c \in Call \ {d} : Step(c)
      BY <1>1, <2>2, <2>5, OthersSame DEF Same
  <2>6. CASE \E c \in Call \ {d} : Arrive(c)
      BY <1>1, <2>2, <2>6 DEF Arrive, Inv, TypeOK
  <2>7. CASE \/ UNCHANGED vars \/ LaterOrder
             \/ \E c \in Call : WithdrawalEnds(c) \/ BankOrderEnds(c)
      BY <2>2, <2>7 DEF vars, control, LaterOrder, WithdrawalEnds, BankOrderEnds
  <2> QED
      BY <2>3, <2>4, <2>5, <2>6, <2>7 DEF Next, Running
<1>3. ASSUME transferStatus' = "TransferRefunded" PROVE refunds' # {}
  <2>1. CASE UNCHANGED transferStatus
      BY <1>1, <1>3, <2>1 DEF RefundedInv, Grows
  <2>2. ASSUME NEW c \in Call, UpdateTransferStatus(c) PROVE refunds' # {}
    <3>1. mem[c].target \in Fact
        BY <1>1 DEF Inv, TypeOK, Memory, Target
    <3>2. mem[c].target = "REFUNDED"
        BY <1>3, <2>2, <3>1, ShownIsStatus DEF UpdateTransferStatus, UpdateTransfer
    <3>3. refunds # {}
        BY <2>2, <3>2 DEF UpdateTransferStatus, At, RefundedInv, Refunded
    <3> QED
        BY <1>1, <3>3 DEF Grows
  <2>3. ASSUME NEW c \in Call, Step(c), ~UpdateTransferStatus(c)
        PROVE  UNCHANGED transferStatus
    <3>1. CASE Saves(c)
        BY <1>1, <3>1, SavesWhat DEF Inv, Local, Save, SaveOrder
    <3> QED
        BY <2>3, <3>1, StepWrites DEF UpdateTransaction, SaveTransaction,
           BankStatusOfRoute
  <2>4. CASE UNCHANGED vars \/ LaterOrder \/ Crash
             \/ \E c \in Call : Arrive(c) \/ WithdrawalEnds(c) \/ BankOrderEnds(c)
      BY <2>1, <2>4 DEF vars, LaterOrder, Crash, Arrive, WithdrawalEnds,
         BankOrderEnds, stored
  <2> QED
      BY <2>1, <2>2, <2>3, <2>4 DEF Next, Running
<1> QED
    BY <1>2, <1>3 DEF RefundedInv

\* On the EVM chains and over Lightning a transfer shown as refunded had a
\* refund leave the wallet.
THEOREM RefundedWasSent ==
    ASSUME Network # "starknet"
    PROVE  Spec => []ShownRefundWasSent
<1>1. Init => RefundedInv
    BY DEF Init, StoreInit, RefundedInv, Refunded, Early
<1>2. Inv /\ RefundedInv /\ [Next]_vars => RefundedInv'
    BY RefundedNext
<1>3. RefundedInv => ShownRefundWasSent
    BY DEF RefundedInv, ShownRefundWasSent
<1> QED
    BY <1>1, <1>2, <1>3, Invariance, PTL DEF Spec
=============================================================================
