-------------------------- MODULE BuySettlementProofs --------------------------
(***************************************************************************)
(* Proofs about BuySettlement, for any calls and any number in flight.     *)
(***************************************************************************)
EXTENDS BuySettlement, TLAPS

-----------------------------------------------------------------------------
(***************************************************************************)
(* The inductive invariant.                                                *)
(*                                                                         *)
(* Targets says what a call is about to write: a status an order is saved  *)
(* with, one a transaction is, or, on the transfer, one recorded before.   *)
(* Funds says that whoever may pay has the fiat behind it.  Polls says     *)
(* what a copy of the order tells of the order as it is now, and that      *)
(* whoever paid is past its reads.  Unsettled says that an order still     *)
(* INITIATED was never saved with another status.                          *)
(***************************************************************************)
Saved == {"IN-PROGRESS", "CANCELLED", "DONE"}

Targets(c) ==
    /\ pc[c] = "changeOrderStatusFunc" => mem[c].target \in Saved
    /\ pc[c] = "saveTransaction" =>
          op[c] = "confirm" \/ mem[c].target \in TransactionStatus
    /\ pc[c] = "updateTransfer" => mem[c].target \in facts

Funded == deposit = "ok" \/ misrouted

Funds(c) == mem[c].kotani = "ok" \/ pc[c] = "payOut" => Funded

Reads == {"idle", "readTransfer", "readOrder", "query", "payOut"}

Polls(c) ==
    /\ mem[c].status # "INITIATED" => orderStatus # "INITIATED"
    /\ pc[c] = "query" /\ mem[c].late => mem[c].status # "INITIATED"
    /\ op[c] = "poll" /\ (pc[c] = "payOut" \/ c \in payouts) => ~mem[c].late
    /\ c \in payouts => pc[c] \notin Reads

Local(c) == Targets(c) /\ Funds(c) /\ Polls(c)

Unsettled ==
    /\ {"INITIATED", orderStatus} \subseteq facts
    /\ orderStatus = "INITIATED" => facts \subseteq {"INITIATED"} \cup TransactionStatus

Inv ==
    /\ TypeOK
    /\ Unsettled
    /\ payouts # {} => Funded
    /\ \A c \in Call : Local(c)

-----------------------------------------------------------------------------
LEMMA StatusesDiffer ==
    /\ OrderStatus \cap TransactionStatus = {}
    /\ Saved \subseteq OrderStatus \ {"INITIATED"}
    /\ OrderStatus \cup TransactionStatus \subseteq Fact
BY DEF OrderStatus, TransactionStatus, Saved, Fact

\* What the transfer shows is a transfer status.
LEMMA ShownIsStatus ==
    ASSUME NEW f \in OrderStatus \cup TransactionStatus
    PROVE  /\ Shown(f) \in TransferStatus
           /\ Shown(f) = "TransferComplete" => f \in {"DONE", "Done"}
BY DEF Shown, TransferStatusFor, TransactionTransferStatus, TransferStatus,
       OrderStatus, BankStatus, TransactionStatus

\* The copy that Goto and GotoWith leave behind is one a call can hold.
LEMMA MemoryOK ==
    /\ NoMemory \in Memory
    /\ \A m \in Memory : Forget(m) \in Memory
    /\ \A m \in Memory, s \in OrderStatus, l \in BOOLEAN :
          [m EXCEPT !.status = s, !.late = l] \in Memory
    /\ \A m \in Memory, s \in OrderStatus \cup TransactionStatus,
          h \in PayoutResult :
          /\ [m EXCEPT !.target = s, !.txHash = h] \in Memory
          /\ [m EXCEPT !.target = s] \in Memory
    /\ \A m \in Memory, k \in Collection : [m EXCEPT !.kotani = k] \in Memory
<1>1. NoMemory \in Memory
    BY DEF Memory, NoMemory, OrderStatus, TransactionStatus, Collection,
           PayoutResult
<1>2. ASSUME NEW m \in Memory PROVE Forget(m) \in Memory
    BY <1>1 DEF Memory, Forget
<1>3. ASSUME NEW m \in Memory, NEW s \in OrderStatus, NEW l \in BOOLEAN
      PROVE  [m EXCEPT !.status = s, !.late = l] \in Memory
    BY DEF Memory
<1>4. ASSUME NEW m \in Memory, NEW s \in OrderStatus \cup TransactionStatus,
             NEW h \in PayoutResult
      PROVE  /\ [m EXCEPT !.target = s, !.txHash = h] \in Memory
             /\ [m EXCEPT !.target = s] \in Memory
    BY DEF Memory
<1>5. ASSUME NEW m \in Memory, NEW k \in Collection
      PROVE  [m EXCEPT !.kotani = k] \in Memory
    BY DEF Memory
<1> QED
    BY <1>1, <1>2, <1>3, <1>4, <1>5

LEMMA TypeInit == Init => TypeOK
<1> SUFFICES ASSUME Init PROVE TypeOK
    OBVIOUS
<1>1. StoreTypeOK
    BY DEF Init, StoreInit, StoreTypeOK, OrderStatus, TransferStatus, Fact
<1>2. mem \in [Call -> Memory]
    BY MemoryOK DEF Init
<1> QED
    BY <1>1, <1>2 DEF Init, TypeOK, Collection, PC

ControlOK ==
    /\ pc \in [Call -> PC]
    /\ op \in [Call -> Op \cup {None}]
    /\ mem \in [Call -> Memory]

\* Going on keeps the types of what a call knows.
LEMMA GotoOK ==
    ASSUME ControlOK, NEW c \in Call, NEW step \in PC, Goto(c, step)
    PROVE  ControlOK'
<1>1. CASE step = "done"
  <2>1. Forget(mem[c]) \in Memory
      BY MemoryOK DEF ControlOK
  <2> QED
      BY <1>1, <2>1 DEF Goto, ControlOK
<1>2. CASE step # "done"
    BY <1>2 DEF Goto, ControlOK
<1> QED
    BY <1>1, <1>2

LEMMA GotoWithOK ==
    ASSUME ControlOK, NEW c \in Call, NEW step \in PC, NEW copy \in Memory,
           GotoWith(c, step, copy)
    PROVE  ControlOK'
BY DEF GotoWith, ControlOK

LEMMA CallFuncOK ==
    ASSUME ControlOK, NEW c \in Call, NEW copy \in Memory,
           NEW status \in OrderStatus, NEW txHash \in PayoutResult,
           CallFunc(c, copy, status, txHash)
    PROVE  ControlOK'
<1> DEFINE called == [copy EXCEPT !.target = status, !.txHash = txHash]
<1>1. called \in Memory
    BY MemoryOK
<1>2. GotoWith(c, "changeOrderStatusFunc", called)
    BY DEF CallFunc
<1>3. "changeOrderStatusFunc" \in PC
    BY DEF PC
<1> HIDE DEF called
<1> QED
    BY <1>1, <1>2, <1>3, GotoWithOK

LEMMA ArriveOK ==
    ASSUME ControlOK, NEW c \in Call, Arrive(c)
    PROVE  ControlOK'
<1>1. CASE ArriveCallback(c)
  <2>1. PICK k \in {"ok", "failed"} : mem' = [mem EXCEPT ![c].kotani = k]
      BY <1>1 DEF ArriveCallback
  <2>2. [mem[c] EXCEPT !.kotani = k] \in Memory
      BY MemoryOK DEF Collection, ControlOK
  <2> QED
      BY <1>1, <2>1, <2>2 DEF ArriveCallback, ControlOK, PC, Op
<1>2. CASE ArriveRequest(c)
    BY <1>2 DEF ArriveRequest, ControlOK, PC, Op
<1> QED
    BY <1>1, <1>2 DEF Arrive

LEMMA StepOK ==
    ASSUME ControlOK, orderStatus \in OrderStatus, NEW c \in Call, Step(c)
    PROVE  ControlOK'
<1>1. Copy(c) \in Memory
    BY MemoryOK DEF Copy, ControlOK
<1>2. {"IN-PROGRESS", "CANCELLED", "DONE"} \subseteq OrderStatus /\ "hash" \in PayoutResult
    BY DEF OrderStatus, PayoutResult
<1>3. PC = {"idle", "readTransfer", "readOrder", "query", "payOut",
            "changeOrderStatusFunc", "updateTransfer", "webhook",
            "saveTransaction", "done"}
    BY DEF PC
<1>4. CASE ReadTransfer(c) \/ FuncFails(c) \/ Throw(c) \/ Query(c) \/ Webhook(c)
    BY <1>3, <1>4, GotoOK DEF ReadTransfer, FuncFails, Throw, AfterFunc,
       Query, Webhook
<1>5. CASE ReadForCallback(c)
    BY <1>1, <1>2, <1>3, <1>5, GotoWithOK, CallFuncOK DEF ReadForCallback
<1>6. CASE ReadForQuery(c)
    BY <1>1, <1>3, <1>6, GotoOK, GotoWithOK DEF ReadForQuery
<1>7. CASE ReadToSet(c)
    BY <1>1, <1>2, <1>3, <1>7, GotoOK, CallFuncOK DEF ReadToSet
<1>8. CASE ReadTransaction(c)
  <2>1. \A s \in TransactionStatus : [mem[c] EXCEPT !.target = s] \in Memory
      BY MemoryOK DEF ControlOK, PayoutResult
  <2> QED
      BY <1>3, <1>8, <2>1, GotoOK, GotoWithOK DEF ReadTransaction, TransactionStatus
<1>9. CASE PayOut(c)
  <2>1. mem[c] \in Memory
      BY DEF ControlOK
  <2> QED
      BY <1>2, <1>9, <2>1, CallFuncOK DEF PayOut, PayOutAnswers
<1>10. CASE ChangeOrderStatusFunc(c) \/ UpdateTransferStatus(c) \/ UpdateTransaction(c)
    BY <1>3, <1>10, GotoOK DEF ChangeOrderStatusFunc, UpdateTransferStatus,
       UpdateTransaction, AfterFunc
<1> QED
    BY <1>4, <1>5, <1>6, <1>7, <1>8, <1>9, <1>10 DEF Step

\* The documents: only three steps write them.
LEMMA StoreOK ==
    ASSUME TypeOK, NEW c \in Call, Targets(c), Step(c)
    PROVE  StoreTypeOK'
<1> USE DEF TypeOK, StoreTypeOK
<1>1. mem[c].target \in Fact /\ Shown(mem[c].target) \in TransferStatus
    BY StatusesDiffer, ShownIsStatus DEF Memory
<1>2. CASE ChangeOrderStatusFunc(c)
    BY <1>1, <1>2, StatusesDiffer DEF ChangeOrderStatusFunc, SaveOrder, Targets, At
<1>3. CASE UpdateTransferStatus(c)
    BY <1>1, <1>3 DEF UpdateTransferStatus, UpdateTransfer
<1>4. CASE UpdateTransaction(c)
    BY <1>1, <1>4 DEF UpdateTransaction, SaveTransaction, Fact, TransactionStatus
<1>5. CASE UNCHANGED stored
    BY <1>5 DEF stored
<1> QED
    BY <1>2, <1>3, <1>4, <1>5 DEF Step, ReadTransfer, ReadForCallback,
       ReadForQuery, ReadToSet, ReadTransaction, Query, PayOut, FuncFails,
       Webhook, Throw

LEMMA TypeNext ==
    ASSUME TypeOK, \A c \in Call : Targets(c), [Next]_vars
    PROVE  TypeOK'
<1> USE DEF TypeOK, stored, world, effects, control
<1>1. CASE UNCHANGED vars
    BY <1>1 DEF vars, StoreTypeOK
<1>2. CASE DepositEnds \/ LaterOrder
    BY <1>2 DEF DepositEnds, LaterOrder, Collection, StoreTypeOK
<1>3. CASE Crash
    BY <1>3, MemoryOK DEF Crash, PC, StoreTypeOK
<1>4. ASSUME NEW c \in Call, Arrive(c) PROVE TypeOK'
  <2>1. ControlOK'
      BY <1>4, ArriveOK DEF ControlOK
  <2> QED
      BY <1>4, <2>1 DEF Arrive, ArriveCallback, ArriveRequest, ControlOK,
         StoreTypeOK
<1>5. ASSUME NEW c \in Call, Step(c) PROVE TypeOK'
  <2>1. ControlOK' /\ StoreTypeOK'
      BY <1>5, StepOK, StoreOK DEF ControlOK, StoreTypeOK
  <2>2. UNCHANGED world
      BY <1>5 DEF Step, ReadTransfer, ReadForCallback, ReadForQuery, ReadToSet,
         ReadTransaction, UpdateTransaction, Query, PayOut,
         ChangeOrderStatusFunc, FuncFails, UpdateTransferStatus, Webhook, Throw
  <2>3. /\ payouts' \subseteq Call
        /\ events' \subseteq {"TransferComplete", "TransferFailed"}
      BY <1>5 DEF Step, ReadTransfer, ReadForCallback, ReadForQuery, ReadToSet,
         ReadTransaction, UpdateTransaction, Query, PayOut,
         ChangeOrderStatusFunc, FuncFails, UpdateTransferStatus, Webhook, Throw
  <2> QED
      BY <2>1, <2>2, <2>3 DEF ControlOK
<1> QED
    BY <1>1, <1>2, <1>3, <1>4, <1>5 DEF Next

-----------------------------------------------------------------------------
(***************************************************************************)
(* What a step changes of the calls that do not take it, and what no step  *)
(* takes back.                                                             *)
(***************************************************************************)
Same(d) ==
    /\ pc'[d] = pc[d] /\ op'[d] = op[d] /\ mem'[d] = mem[d]
    /\ d \in payouts' => d \in payouts

Grows ==
    /\ facts \subseteq facts'
    /\ orderStatus # "INITIATED" => orderStatus' # "INITIATED"
    /\ Funded => Funded'

LEMMA OthersSame ==
    ASSUME TypeOK, NEW c \in Call, NEW d \in Call, c # d, Arrive(c) \/ Step(c)
    PROVE  Same(d)
<1> USE DEF TypeOK, Same, Goto, GotoWith, CallFunc, stored, world, effects
<1>1. CASE Arrive(c)
    BY <1>1 DEF Arrive, ArriveCallback, ArriveRequest
<1>2. CASE ReadTransfer(c) \/ ReadForCallback(c) \/ ReadForQuery(c)
           \/ ReadToSet(c) \/ ReadTransaction(c) \/ Query(c) \/ FuncFails(c)
           \/ Throw(c)
    BY <1>2 DEF ReadTransfer, ReadForCallback, ReadForQuery, ReadToSet,
       ReadTransaction, Query, FuncFails, Throw
<1>3. CASE PayOut(c)
    BY <1>3 DEF PayOut
<1>4. CASE ChangeOrderStatusFunc(c) \/ UpdateTransferStatus(c)
           \/ UpdateTransaction(c) \/ Webhook(c)
    BY <1>4 DEF ChangeOrderStatusFunc, UpdateTransferStatus, UpdateTransaction,
       Webhook
<1> QED
    BY <1>1, <1>2, <1>3, <1>4 DEF Step

LEMMA NextGrows == Inv /\ [Next]_vars => Grows
<1> SUFFICES ASSUME Inv, [Next]_vars PROVE Grows
    OBVIOUS
<1> USE DEF Grows, Funded, stored, world, effects, control
<1>1. CASE UNCHANGED vars \/ DepositEnds \/ LaterOrder \/ Crash
    BY <1>1 DEF vars, DepositEnds, LaterOrder, Crash
<1>2. ASSUME NEW c \in Call, Arrive(c) PROVE Grows
  <2>1. UNCHANGED <<stored, deposit>> /\ (misrouted => misrouted')
    <3>1. CASE ArriveCallback(c)
        BY <1>2, <3>1 DEF Arrive, ArriveCallback
    <3>2. CASE ArriveRequest(c)
        BY <1>2, <3>2 DEF Arrive, ArriveRequest
    <3> QED
        BY <1>2, <3>1, <3>2 DEF Arrive
  <2> QED
      BY <2>1
<1>3. ASSUME NEW c \in Call, Step(c) PROVE Grows
  <2>1. CASE ChangeOrderStatusFunc(c)
    <3>1. mem[c].target # "INITIATED"
        BY <2>1, StatusesDiffer DEF ChangeOrderStatusFunc, At, Inv, Local, Targets
    <3> QED
        BY <2>1, <3>1 DEF ChangeOrderStatusFunc, SaveOrder
  <2>2. CASE UpdateTransferStatus(c)
      BY <2>2 DEF UpdateTransferStatus, UpdateTransfer
  <2>3. CASE UpdateTransaction(c)
      BY <2>3 DEF UpdateTransaction, SaveTransaction
  <2>4. CASE UNCHANGED <<stored, world>>
      BY <2>4
  <2> QED
      BY <1>3, <2>1, <2>2, <2>3, <2>4 DEF Step, ReadTransfer, ReadForCallback,
         ReadForQuery, ReadToSet, ReadTransaction, Query, PayOut, FuncFails,
         Webhook, Throw
<1> QED
    BY <1>1, <1>2, <1>3 DEF Next

LEMMA SameKeepsLocal ==
    ASSUME NEW d \in Call, Local(d), Same(d), Grows
    PROVE  Local(d)'
BY DEF Local, Targets, Funds, Polls, Same, Grows

-----------------------------------------------------------------------------
\* The call that takes a step: where it is, and what its copy says.
LEMMA ArriveKeepsLocal ==
    ASSUME Inv, NEW c \in Call, Arrive(c)
    PROVE  Local(c)'
<1> USE DEF Inv, Local, TypeOK, Arrive, At, stored, effects
<1>1. CASE ArriveCallback(c)
  <2>1. PICK state \in {"ok", "failed"} :
          /\ mem' = [mem EXCEPT ![c].kotani = state]
          /\ misrouted' = (misrouted \/ (state = "ok" /\ deposit # "ok"))
      BY <1>1 DEF ArriveCallback
  <2>2. /\ mem'[c].kotani = state /\ mem'[c].status = mem[c].status
        /\ pc'[c] = "readOrder" /\ op'[c] = "callback"
      BY <1>1, <2>1 DEF ArriveCallback, Memory
  <2>3. Funds(c)'
      BY <2>1, <2>2 DEF Funds, Funded
  <2> QED
      BY <2>2, <2>3 DEF Targets, Polls, Reads
<1>2. CASE ArriveRequest(c)
    BY <1>2 DEF ArriveRequest, Targets, Funds, Funded, Polls, Reads, Op
<1> QED
    BY <1>1, <1>2

\* A copy tells what the order was: nothing of an order still INITIATED.
LEMMA CopyTells ==
    ASSUME Inv, NEW c \in Call
    PROVE  /\ Copy(c).status = orderStatus
           /\ Copy(c).late => orderStatus # "INITIATED"
           /\ Copy(c).kotani = mem[c].kotani
           /\ Copy(c).target = mem[c].target
<1>1. mem[c] \in Memory
    BY DEF Inv, TypeOK
<1>2. /\ Copy(c).status = orderStatus
      /\ Copy(c).late = (facts \ TransactionStatus # {"INITIATED"})
      /\ Copy(c).kotani = mem[c].kotani /\ Copy(c).target = mem[c].target
    BY <1>1 DEF Memory, Copy
<1>3. orderStatus = "INITIATED" => facts \ TransactionStatus = {"INITIATED"}
    BY DEF Inv, Unsettled, TransactionStatus
<1> QED
    BY <1>2, <1>3

\* What is left of a finished call's copy.
LEMMA ForgetTells ==
    ASSUME NEW m \in Memory
    PROVE  /\ Forget(m).status = "INITIATED" /\ Forget(m).kotani = "pending"
           /\ Forget(m).late = m.late
BY DEF Memory, Forget, NoMemory

\* Where a handler that calls changeOrderStatusFunc is, and what it holds.
LEMMA CallFuncTells ==
    ASSUME TypeOK, NEW c \in Call, NEW copy \in Memory,
           NEW status \in OrderStatus, NEW txHash \in PayoutResult,
           CallFunc(c, copy, status, txHash)
    PROVE  /\ pc'[c] = "changeOrderStatusFunc" /\ op'[c] = op[c]
           /\ mem'[c].status = copy.status /\ mem'[c].late = copy.late
           /\ mem'[c].kotani = copy.kotani
           /\ mem'[c].target = status /\ mem'[c].txHash = txHash
BY DEF CallFunc, GotoWith, TypeOK, Memory

LEMMA EndKeepsLocal ==
    ASSUME Inv, NEW c \in Call, Goto(c, "done"), Grows, pc[c] # "idle",
           pc[c] \in Reads => payouts' = payouts, payouts' \subseteq payouts
    PROVE  Local(c)'
<1>1. /\ pc'[c] = "done" /\ op'[c] = op[c] /\ mem'[c] = Forget(mem[c])
    BY DEF Goto, Inv, TypeOK
<1>2. mem[c] \in Memory
    BY DEF Inv, TypeOK
<1> QED
    BY <1>1, <1>2, ForgetTells DEF Inv, Local, Targets, Funds, Polls, Reads

LEMMA StepKeepsLocal ==
    ASSUME Inv, NEW c \in Call, Step(c), Grows
    PROVE  Local(c)'
<1> USE DEF Inv, Local, TypeOK, At, stored, world, effects, Reads
<1>0. mem[c] \in Memory
    OBVIOUS
<1>c. Copy(c) \in Memory /\ Saved \subseteq OrderStatus /\ "hash" \in PayoutResult
  <2>1. Copy(c) \in Memory
      BY <1>0, MemoryOK DEF Copy, StoreTypeOK
  <2> QED
      BY <2>1 DEF Saved, OrderStatus, PayoutResult
<1>1. CASE Goto(c, "done") /\ payouts' = payouts /\ pc[c] # "idle"
    BY <1>1, EndKeepsLocal
<1>2. CASE ReadTransfer(c)
    BY <1>1, <1>2 DEF ReadTransfer, Goto, Targets, Funds, Polls, Grows
<1>3. CASE ReadForCallback(c)
  <2>1. CASE mem[c].kotani = "ok"
      BY <1>3, <2>1, CopyTells DEF ReadForCallback, GotoWith, Targets, Funds,
         Polls, Grows
  <2>2. CASE mem[c].kotani # "ok"
    <3>1. CallFunc(c, Copy(c), "CANCELLED", "hash")
        BY <1>3, <2>2 DEF ReadForCallback
    <3> QED
        BY <1>3, <2>2, <3>1, <1>c, CallFuncTells, CopyTells
           DEF ReadForCallback, Targets, Saved, Funds, Polls, Grows
  <2> QED
      BY <2>1, <2>2
<1>4. CASE ReadForQuery(c)
    BY <1>1, <1>4, CopyTells DEF ReadForQuery, GotoWith, Targets, Funds,
       Polls, Grows
<1>5. CASE ReadToSet(c)
  <2>1. ASSUME NEW status \in Saved, CallFunc(c, Copy(c), status, "hash")
        PROVE  Local(c)'
    <3>1. op[c] # "poll" /\ pc[c] = "readOrder" /\ UNCHANGED <<stored, world, effects>>
        BY <1>5 DEF ReadToSet
    <3> QED
        BY <2>1, <3>1, <1>c, CallFuncTells, CopyTells
           DEF Targets, Saved, Funds, Polls, Grows
  <2> QED
      BY <1>1, <1>5, <2>1 DEF ReadToSet, Saved
<1>6. CASE ReadTransaction(c)
    BY <1>1, <1>6 DEF ReadTransaction, GotoWith, Targets, Saved, Funds, Polls,
       Grows, TransactionStatus, Memory
<1>7. CASE Query(c)
    BY <1>1, <1>7 DEF Query, Collected, PollPays, Goto, Targets, Funds,
       Funded, Polls, Grows
<1>8. CASE PayOut(c)
    BY <1>8 DEF PayOut, GotoWith, CallFunc, Targets, Saved, Funds, Polls,
       Grows, Memory
<1>9. CASE ChangeOrderStatusFunc(c)
    BY <1>9 DEF ChangeOrderStatusFunc, SaveOrder, Goto, Targets, Funds, Polls, Grows
<1>10. CASE UpdateTransferStatus(c)
    BY <1>1, <1>10 DEF UpdateTransferStatus, UpdateTransfer, AfterFunc, Goto,
       Targets, Funds, Polls, Grows
<1>11. CASE UpdateTransaction(c)
    BY <1>1, <1>11 DEF UpdateTransaction, SaveTransaction, Goto, Targets,
       Funds, Polls, Grows
<1>12. CASE FuncFails(c)
    BY <1>1, <1>12 DEF FuncFails, AfterFunc, Goto, Targets, Funds, Polls, Grows
<1>13. CASE Webhook(c) \/ Throw(c)
    BY <1>1, <1>13 DEF Webhook, Throw
<1> QED
    BY <1>2, <1>3, <1>4, <1>5, <1>6, <1>7, <1>8, <1>9, <1>10, <1>11, <1>12,
       <1>13 DEF Step

-----------------------------------------------------------------------------
LEMMA InvInit == Init => Inv
<1> SUFFICES ASSUME Init PROVE Inv
    OBVIOUS
<1>1. ASSUME NEW c \in Call PROVE Local(c)
    BY DEF Init, NoMemory, Local, Targets, Funds, Polls
<1>2. Unsettled /\ payouts = {}
    BY DEF Init, StoreInit, Unsettled
<1> QED
    BY <1>1, <1>2, TypeInit DEF Inv

\* An order leaves INITIATED with the first status it is saved with.
LEMMA NextKeepsUnsettled == Inv /\ [Next]_vars => Unsettled'
<1> SUFFICES ASSUME Inv, [Next]_vars PROVE Unsettled'
    OBVIOUS
<1> USE DEF Inv, Unsettled, stored, world, effects, control
<1>1. ASSUME NEW c \in Call, ChangeOrderStatusFunc(c) PROVE Unsettled'
  <2>1. mem[c].target \in Saved
      BY <1>1 DEF ChangeOrderStatusFunc, At, Local, Targets
  <2>2. mem[c].status = mem[c].target => orderStatus # "INITIATED"
      BY <2>1, StatusesDiffer DEF Local, Polls
  <2> QED
      BY <1>1, <2>1, <2>2, StatusesDiffer DEF ChangeOrderStatusFunc, SaveOrder
<1>2. ASSUME NEW c \in Call, UpdateTransferStatus(c) PROVE Unsettled'
    BY <1>2 DEF UpdateTransferStatus, UpdateTransfer
<1>3. ASSUME NEW c \in Call, UpdateTransaction(c) PROVE Unsettled'
    BY <1>3 DEF UpdateTransaction, SaveTransaction, At, Local, Targets,
       TransactionStatus
<1>4. CASE UNCHANGED stored
    BY <1>4
<1> QED
    BY <1>1, <1>2, <1>3, <1>4 DEF Next, vars, DepositEnds, LaterOrder, Crash,
       Arrive, Step, ReadTransfer, ReadForCallback, ReadForQuery, ReadToSet,
       ReadTransaction, Query, PayOut, FuncFails, Webhook, Throw

LEMMA CrashKeepsLocal ==
    ASSUME Inv, Crash, NEW c \in Call
    PROVE  Local(c)'
<1>1. /\ pc'[c] \in {pc[c], "done"}
      /\ mem'[c] = Forget(mem[c]) /\ UNCHANGED <<op, stored, world, effects>>
    BY DEF Crash, Running, Inv, TypeOK
<1>2. pc'[c] \in {"idle", "done"}
    BY DEF Crash, Running, Inv, TypeOK
<1>3. mem[c] \in Memory
    BY DEF Inv, TypeOK
<1>4. Targets(c)' /\ Funds(c)'
    BY <1>1, <1>2, <1>3, ForgetTells DEF Targets, Funds
<1>5. Polls(c)'
    BY <1>1, <1>2, <1>3, ForgetTells DEF Inv, Local, Polls, Reads, stored, effects
<1> QED
    BY <1>4, <1>5 DEF Local

LEMMA InvNext == Inv /\ [Next]_vars => Inv'
<1> SUFFICES ASSUME Inv, [Next]_vars PROVE Inv'
    OBVIOUS
<1>1. TypeOK' /\ Unsettled' /\ Grows
    BY TypeNext, NextKeepsUnsettled, NextGrows DEF Inv, Local
<1>2. ASSUME NEW d \in Call PROVE Local(d)'
  <2>1. CASE Crash
      BY <2>1, CrashKeepsLocal
  <2>2. CASE UNCHANGED vars \/ DepositEnds \/ LaterOrder
    <3>1. Same(d)
        BY <2>2 DEF vars, control, effects, DepositEnds, LaterOrder, Same
    <3> QED
        BY <1>1, <3>1, SameKeepsLocal DEF Inv
  <2>3. ASSUME NEW c \in Call, Arrive(c) \/ Step(c) PROVE Local(d)'
      BY <1>1, <2>3, OthersSame, SameKeepsLocal, ArriveKeepsLocal,
         StepKeepsLocal DEF Inv
  <2> QED
      BY <2>1, <2>2, <2>3 DEF Next
<1>3. payouts' # {} => Funded'
  <2>1. ASSUME NEW c \in Call, PayOut(c) PROVE Funded'
      BY <1>1, <2>1 DEF PayOut, At, Inv, Local, Funds, Grows
  <2>2. CASE UNCHANGED payouts
      BY <1>1, <2>2 DEF Inv, Grows
  <2> QED
      BY <2>1, <2>2 DEF Next, vars, effects, DepositEnds, LaterOrder, Crash,
         Arrive, Step, ReadTransfer, ReadForCallback, ReadForQuery, ReadToSet,
         ReadTransaction, Query, ChangeOrderStatusFunc, UpdateTransferStatus,
         UpdateTransaction, FuncFails, Webhook, Throw
<1> QED
    BY <1>1, <1>2, <1>3 DEF Inv

LEMMA Invariance == Spec => []Inv
BY InvInit, InvNext, PTL DEF Spec

-----------------------------------------------------------------------------
(***************************************************************************)
(* What the settlement of a BUY order keeps.                               *)
(***************************************************************************)
\* Everything the handlers hold and write is of its type.
THEOREM Typed == Spec => []TypeOK
<1>1. Inv => TypeOK
    BY DEF Inv
<1> QED
    BY <1>1, Invariance, PTL

\* However calls interleave and fail, a status poll pays only for an order
\* that nobody had settled when the poll read it.
THEOREM PollsPayUnsettled == Spec => []PollPaysUnsettledOrder
<1>1. Inv => PollPaysUnsettledOrder
    BY DEF Inv, Local, Polls, TypeOK, PollPaysUnsettledOrder
<1> QED
    BY <1>1, Invariance, PTL

\* No crypto leaves without fiat collected for this order, or a callback about
\* an earlier collection that reached it.
THEOREM CryptoFollowsFiat == Spec => []CryptoNeedsFiat
<1>1. Inv => CryptoNeedsFiat
    BY DEF Inv, Funded, CryptoNeedsFiat
<1> QED
    BY <1>1, Invariance, PTL

-----------------------------------------------------------------------------
(***************************************************************************)
(* The refinement of OrderMirror: a status is recorded before it is shown, *)
(* and a handler shows what it, or an earlier write, recorded.             *)
(***************************************************************************)
LEMMA StepMirrors == Inv /\ [Next]_vars => [Mirror!Next]_(Mirror!vars)
<1> SUFFICES ASSUME Inv, [Next]_vars PROVE [Mirror!Next]_(Mirror!vars)
    OBVIOUS
<1>1. CASE UNCHANGED <<facts, transferStatus>>
    BY <1>1 DEF Mirror!vars
<1>2. ASSUME NEW f \in Fact, Mirror!Record(f) \/ Mirror!Show(f)
      PROVE  [Mirror!Next]_(Mirror!vars)
    BY <1>2 DEF Mirror!Next
<1>3. ASSUME NEW c \in Call, ChangeOrderStatusFunc(c)
      PROVE  Mirror!Record(mem[c].target) /\ mem[c].target \in Fact
    BY <1>3, StatusesDiffer DEF Inv, Local, Targets, ChangeOrderStatusFunc, At,
       SaveOrder, Mirror!Record
<1>4. ASSUME NEW c \in Call, UpdateTransaction(c)
      PROVE  \E f \in Fact : Mirror!Record(f)
    BY <1>4, StatusesDiffer DEF Inv, Local, Targets, UpdateTransaction, At,
       SaveTransaction, TransactionStatus, Mirror!Record
<1>5. ASSUME NEW c \in Call, UpdateTransferStatus(c)
      PROVE  Mirror!Show(mem[c].target) /\ mem[c].target \in Fact
    BY <1>5 DEF Inv, TypeOK, StoreTypeOK, Local, Targets, UpdateTransferStatus,
       At, UpdateTransfer, Mirror!Show
<1>6. ASSUME NEW c \in Call, Step(c), ~ChangeOrderStatusFunc(c),
             ~UpdateTransaction(c), ~UpdateTransferStatus(c)
      PROVE  UNCHANGED <<facts, transferStatus>>
    BY <1>6 DEF Step, ReadTransfer, ReadForCallback, ReadForQuery, ReadToSet,
       ReadTransaction, Query, PayOut, FuncFails, Webhook, Throw, stored
<1>7. CASE UNCHANGED vars \/ DepositEnds \/ LaterOrder \/ Crash
           \/ \E c \in Call : Arrive(c)
    BY <1>1, <1>7 DEF vars, DepositEnds, LaterOrder, Crash, Arrive, stored
<1> QED
    BY <1>1, <1>2, <1>3, <1>4, <1>5, <1>6, <1>7 DEF Next

\* Settling a BUY order implements OrderMirror: the transfer only shows what
\* the order or the transaction was saved with before.
THEOREM MirrorsOrder == Spec => TransferMirrorsOrder
<1>1. Init => Mirror!Init
    BY DEF Init, StoreInit, Mirror!Init
<1> QED
    BY <1>1, StepMirrors, Invariance, PTL DEF Spec, TransferMirrorsOrder,
       Mirror!Spec

-----------------------------------------------------------------------------
(***************************************************************************)
(* Shown as complete.  On the EVM chains a hash is that of a transfer that *)
(* was executed, and a failure cannot be saved as txId, so that DONE is    *)
(* saved for a payout that left the wallet, or by hand.  Completes says so *)
(* of what a call is about to save, Complete of what was saved and shown.  *)
(* Elsewhere this is false (see ShownCompleteWasPaid).                     *)
(***************************************************************************)
Paid ==
    \/ payouts # {}
    \/ \E c \in Call : pc[c] # "idle"
                       /\ op[c] \in {"change", "confirm", "confirmTransaction"}

Completes(c) ==
    /\ /\ pc[c] = "changeOrderStatusFunc"
       /\ mem[c].target = "DONE"
       /\ Castable(mem[c].txHash)
       => Paid
    /\ mem[c].target = "Done" => Paid

Complete ==
    /\ facts \cap {"DONE", "Done"} # {} => Paid
    /\ transferStatus = "TransferComplete" => facts \cap {"DONE", "Done"} # {}

CompleteInv == Complete /\ \A c \in Call : Completes(c)

LEMMA PaidStays == Inv /\ [Next]_vars => (Paid => Paid')
<1> SUFFICES ASSUME Inv, [Next]_vars, Paid PROVE Paid'
    OBVIOUS
<1>1. ASSUME NEW c \in Call, pc[c] # "idle"
      PROVE  pc'[c] # "idle" /\ op'[c] = op[c]
  <2>1. CASE Crash \/ DepositEnds \/ LaterOrder \/ UNCHANGED vars
      BY <1>1, <2>1 DEF Crash, DepositEnds, LaterOrder, vars, control, Inv, TypeOK
  <2>2. CASE \E d \in Call \ {c} : Arrive(d) \/ Step(d)
      BY <1>1, <2>2, OthersSame DEF Inv, Same
  <2>3. CASE Step(c)
    <3> USE DEF Inv, TypeOK, Goto, GotoWith, CallFunc
    <3>1. CASE ReadTransfer(c) \/ ReadForCallback(c) \/ ReadForQuery(c)
               \/ ReadToSet(c) \/ ReadTransaction(c) \/ Query(c) \/ PayOut(c)
        BY <1>1, <3>1 DEF ReadTransfer, ReadForCallback, ReadForQuery,
           ReadToSet, ReadTransaction, Query, PayOut
    <3>2. CASE ~(ReadTransfer(c) \/ ReadForCallback(c) \/ ReadForQuery(c)
                 \/ ReadToSet(c) \/ ReadTransaction(c) \/ Query(c) \/ PayOut(c))
        BY <1>1, <2>3, <3>2 DEF Step, FuncFails, ChangeOrderStatusFunc,
           UpdateTransferStatus, UpdateTransaction, Webhook, Throw, AfterFunc
    <3> QED
        BY <3>1, <3>2
  <2> QED
      BY <1>1, <2>1, <2>2, <2>3 DEF Next, Arrive, At
<1>2. payouts \subseteq payouts'
    BY DEF Next, vars, DepositEnds, LaterOrder, Crash, Arrive, Step,
       ReadTransfer, ReadForCallback, ReadForQuery, ReadToSet, ReadTransaction,
       Query, PayOut, ChangeOrderStatusFunc, FuncFails, UpdateTransferStatus,
       UpdateTransaction, Webhook, Throw, effects
<1> QED
    BY <1>1, <1>2 DEF Paid

LEMMA CompletesInit == Init => CompleteInv
BY DEF Init, StoreInit, NoMemory, CompleteInv, Complete, Completes

\* Only a payout and the merchant panel ask for DONE, only confirmTransaction
\* for Done.
LEMMA StepKeepsCompletes ==
    ASSUME Network = "evm", Inv, NEW c \in Call, Completes(c), Step(c),
           Paid => Paid'
    PROVE  Completes(c)'
<1> USE DEF Inv, TypeOK, At
<1>1. mem[c] \in Memory /\ Copy(c) \in Memory
    BY MemoryOK DEF Copy, StoreTypeOK
<1>2. {"IN-PROGRESS", "CANCELLED", "DONE"} \subseteq OrderStatus /\ "hash" \in PayoutResult
    BY DEF OrderStatus, PayoutResult
<1>3. ASSUME pc'[c] # "changeOrderStatusFunc", mem'[c].target = mem[c].target
      PROVE  Completes(c)'
    BY <1>3 DEF Completes
<1>4. ASSUME NEW step \in PC \ {"changeOrderStatusFunc"}, Goto(c, step)
      PROVE  Completes(c)'
  <2>1. CASE step = "done"
      BY <1>1, <1>4, <2>1 DEF Goto, Forget, NoMemory, Completes
  <2>2. CASE step # "done"
      BY <1>3, <1>4, <2>2 DEF Goto
  <2> QED
      BY <2>1, <2>2
<1>5. CASE ReadForCallback(c)
  <2>1. CASE mem[c].kotani = "ok"
    <3>1. mem'[c].target = mem[c].target /\ pc'[c] = "payOut"
        BY <1>5, <2>1, CopyTells DEF ReadForCallback, GotoWith
    <3> QED
        BY <1>3, <3>1
  <2>2. CASE mem[c].kotani # "ok"
      BY <1>1, <1>2, <1>5, <2>2, CallFuncTells DEF ReadForCallback, Completes
  <2> QED
      BY <2>1, <2>2
<1>6. CASE ReadForQuery(c)
  <2>1. hasRef => mem'[c].target = mem[c].target /\ pc'[c] = "query"
      BY <1>6, CopyTells DEF ReadForQuery, GotoWith
  <2> QED
      BY <1>3, <1>4, <1>6, <2>1 DEF ReadForQuery, PC
<1>7. CASE ReadToSet(c)
  <2>1. ASSUME NEW status \in Saved, CallFunc(c, Copy(c), status, "hash"),
               op[c] \in {"change", "confirm"}
        PROVE  Completes(c)'
      BY <1>1, <1>2, <2>1, CallFuncTells DEF Saved, Completes, Paid
  <2> QED
      BY <1>4, <1>7, <2>1 DEF ReadToSet, Saved, PC
<1>8. CASE ReadTransaction(c)
  <2>1. CASE op[c] = "confirmTransaction"
      BY <1>8, <2>1 DEF ReadTransaction, GotoWith, Completes, Paid
  <2>2. CASE GotoWith(c, "saveTransaction", [mem[c] EXCEPT !.target = "Progress"])
      BY <1>1, <2>2 DEF GotoWith, Completes, Memory
  <2> QED
      BY <1>4, <1>8, <2>1, <2>2 DEF ReadTransaction, PC
<1>9. CASE PayOut(c)
  <2>0. PICK moved \in BOOLEAN :
          /\ payouts' = IF moved THEN payouts \cup {c} ELSE payouts
          /\ \E result \in PayOutAnswers(moved) :
               CallFunc(c, mem[c], "DONE", result)
      BY <1>9 DEF PayOut
  <2>1. PICK result \in PayOutAnswers(moved) : CallFunc(c, mem[c], "DONE", result)
      BY <2>0
  <2>2. result \in PayoutResult /\ (result = "hash" => moved)
      BY <2>1 DEF PayOutAnswers
  <2>3. mem'[c].target = "DONE" /\ mem'[c].txHash = result
      BY <1>1, <1>2, <2>1, <2>2, CallFuncTells
  <2>4. Castable(mem'[c].txHash) => payouts' # {}
      BY <2>0, <2>2, <2>3 DEF Castable, PayoutResult
  <2> QED
      BY <2>3, <2>4 DEF Completes, Castable, Paid
<1>10. CASE ReadTransfer(c) \/ Query(c) \/ ChangeOrderStatusFunc(c)
            \/ UpdateTransferStatus(c) \/ UpdateTransaction(c) \/ FuncFails(c)
            \/ Webhook(c) \/ Throw(c)
    BY <1>4, <1>10 DEF ReadTransfer, Query, ChangeOrderStatusFunc,
       UpdateTransferStatus, UpdateTransaction, FuncFails, Webhook, Throw,
       AfterFunc, PC
<1> QED
    BY <1>5, <1>6, <1>7, <1>8, <1>9, <1>10 DEF Step

LEMMA NextKeepsComplete ==
    ASSUME Inv, CompleteInv, [Next]_vars, Paid => Paid'
    PROVE  Complete'
<1> USE DEF Inv, CompleteInv, Complete
<1>1. ASSUME NEW c \in Call, ChangeOrderStatusFunc(c) PROVE Complete'
  <2>1. /\ mem[c].target \in Saved
        /\ mem[c].target = "DONE" => Paid
      BY <1>1 DEF ChangeOrderStatusFunc, At, Local, Targets, Completes
  <2> QED
      BY <1>1, <2>1 DEF ChangeOrderStatusFunc, SaveOrder, Saved
<1>2. ASSUME NEW c \in Call, UpdateTransaction(c) PROVE Complete'
  <2>1. mem[c].target = "Done" \/ op[c] = "confirm" => Paid
      BY <1>2 DEF UpdateTransaction, At, Completes, Paid
  <2>2. op[c] = "confirm" \/ mem[c].target \in TransactionStatus
      BY <1>2 DEF UpdateTransaction, At, Local, Targets
  <2> QED
      BY <1>2, <2>1, <2>2 DEF UpdateTransaction, SaveTransaction, TransactionStatus
<1>3. ASSUME NEW c \in Call, UpdateTransferStatus(c) PROVE Complete'
  <2>1. mem[c].target \in facts /\ mem[c].target \in OrderStatus \cup TransactionStatus
      BY <1>3 DEF UpdateTransferStatus, At, Local, Targets, TypeOK, Memory
  <2> QED
      BY <1>3, <2>1, ShownIsStatus DEF UpdateTransferStatus, UpdateTransfer
<1>4. CASE UNCHANGED stored
    BY <1>4 DEF stored
<1> QED
    BY <1>1, <1>2, <1>3, <1>4 DEF Next, vars, DepositEnds, LaterOrder, Crash,
       Arrive, Step, ReadTransfer, ReadForCallback, ReadForQuery, ReadToSet,
       ReadTransaction, Query, PayOut, FuncFails, Webhook, Throw

LEMMA CompleteNext ==
    ASSUME Network = "evm", Inv, CompleteInv, [Next]_vars
    PROVE  CompleteInv'
<1>1. (Paid => Paid') /\ Complete'
    BY PaidStays, NextKeepsComplete
<1>2. ASSUME NEW d \in Call PROVE Completes(d)'
  <2>0. Completes(d) /\ mem[d] \in Memory
      BY DEF CompleteInv, Inv, TypeOK
  <2>1. CASE Crash
      BY <2>0, <2>1 DEF Crash, Running, Inv, TypeOK, Forget, NoMemory, Completes
  <2>2. CASE UNCHANGED <<pc[d], mem[d]>>
      BY <1>1, <2>0, <2>2 DEF Completes
  <2>3. CASE Arrive(d)
    <3>1. mem'[d].target = mem[d].target /\ pc'[d] # "changeOrderStatusFunc"
        BY <2>0, <2>3 DEF Arrive, ArriveCallback, ArriveRequest, Inv, TypeOK, Memory
    <3> QED
        BY <1>1, <2>0, <3>1 DEF Completes
  <2>4. CASE Step(d)
      BY <1>1, <2>0, <2>4, StepKeepsCompletes
  <2>5. CASE \E c \in Call \ {d} : Arrive(c) \/ Step(c)
      BY <2>2, <2>5, OthersSame DEF Inv, Same
  <2>6. CASE UNCHANGED vars \/ DepositEnds \/ LaterOrder
      BY <2>2, <2>6 DEF vars, control, DepositEnds, LaterOrder
  <2> QED
      BY <2>1, <2>3, <2>4, <2>5, <2>6 DEF Next
<1> QED
    BY <1>1, <1>2 DEF CompleteInv

\* Where a hash is that of an executed transfer, an order or transfer shown as
\* complete was paid, or somebody set it by hand.
THEOREM CompleteWasPaid ==
    ASSUME Network = "evm"
    PROVE  Spec => []ShownCompleteWasPaid
<1>1. Inv /\ CompleteInv => ShownCompleteWasPaid
  <2> SUFFICES ASSUME Inv, CompleteInv,
                      orderStatus = "DONE" \/ transferStatus = "TransferComplete",
                      ~ByHand
               PROVE  payouts # {}
      BY DEF ShownCompleteWasPaid
  <2>1. facts \cap {"DONE", "Done"} # {}
      BY DEF Inv, Unsettled, CompleteInv, Complete
  <2> QED
      BY <2>1 DEF CompleteInv, Complete, Paid, ByHand
<1>2. Inv /\ CompleteInv /\ [Next]_vars => CompleteInv'
    BY CompleteNext
<1> QED
    BY <1>1, <1>2, CompletesInit, Invariance, PTL DEF Spec
=============================================================================
