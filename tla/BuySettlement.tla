----------------------------- MODULE BuySettlement -----------------------------
(***************************************************************************)
(* Settling one BUY order: Kotani collects the user's mobile money and the *)
(* API then sends crypto to the user's wallet.                             *)
(*                                                                         *)
(* Three handlers can pay: confirmKotaniPayCallback (Kotani's callback),   *)
(* publicTransferStatusHandler (a client polling the status) and           *)
(* sendOrderPaidReminer (a client claiming to have paid).  The merchant    *)
(* panel's changeOrderStatus and confirmOrder set the status by hand, and  *)
(* confirmTransaction (/tx/confirm) and openZepplinTrigger (/trigger) show *)
(* on the transfer what they save on its transaction.                      *)
(*                                                                         *)
(* Kotani's callback names a customer, not an order: it is served for the  *)
(* order CustomerModel.activeOrderId names at that time.  So a callback    *)
(* about an earlier collection from the same phone can reach this order,   *)
(* and once the phone has a later order no callback reaches this one.      *)
(***************************************************************************)
EXTENDS OrderStore

CONSTANTS
    Call,         \* HTTP requests that touch the order
    MaxRunning    \* bound on the requests in flight together

ASSUME BoundAssumption == MaxRunning \in Nat

VARIABLES
    deposit,      \* Kotani's collection for this order
    active,       \* the phone's activeOrderId is this order
    hasRef,       \* order.orderRef holds the Kotani reference
    payouts,      \* calls whose crypto payout left the wallet
    events,       \* webhook event types sent to the store
    pc,           \* the await each call has reached
    op,           \* the handler each call runs
    mem,          \* what the call holds in memory
    misrouted     \* a success callback about an earlier order came here

stored == <<orderStatus, transferStatus, facts>>
world == <<deposit, active, hasRef, misrouted>>
effects == <<payouts, events>>
control == <<pc, op, mem>>
vars == <<stored, world, effects, control>>

-----------------------------------------------------------------------------
Op == {"callback", "poll", "reminder", "change", "confirm",
       "confirmTransaction", "trigger"}
PC == {"idle", "readTransfer", "readOrder", "query", "payOut",
       "changeOrderStatusFunc", "updateTransfer", "webhook",
       "saveTransaction", "done"}
Collection == {"pending", "ok", "failed"}

\* The order's status as read, whether a save on the order had already taken
\* place by then, the status a callback reports, and the arguments of
\* changeOrderStatusFunc.
Memory == [status: OrderStatus, late: BOOLEAN, kotani: Collection,
           target: OrderStatus \cup TransactionStatus, txHash: PayoutResult]

NoMemory == [status |-> "INITIATED", late |-> FALSE, kotani |-> "pending",
             target |-> "INITIATED", txHash |-> "hash"]

TypeOK ==
    /\ StoreTypeOK
    /\ deposit \in Collection
    /\ active \in BOOLEAN
    /\ hasRef \in BOOLEAN
    /\ misrouted \in BOOLEAN
    /\ payouts \subseteq Call
    /\ events \subseteq {"TransferComplete", "TransferFailed"}
    /\ pc \in [Call -> PC]
    /\ op \in [Call -> Op \cup {None}]
    /\ mem \in [Call -> Memory]

\* The collection has started; its reference may have been lost on the way to
\* the order (TransferCreation: a crash or a failure before SaveOrderRef).
Init ==
    /\ StoreInit
    /\ deposit = "pending"
    /\ active = TRUE
    /\ hasRef \in BOOLEAN
    /\ misrouted = FALSE
    /\ payouts = {}
    /\ events = {}
    /\ pc = [c \in Call |-> "idle"]
    /\ op = [c \in Call |-> None]
    /\ mem = [c \in Call |-> NoMemory]

-----------------------------------------------------------------------------
Running == {c \in Call : pc[c] \notin {"idle", "done"}}

At(c, step) == pc[c] = step

\* Of a finished call only what the properties look at is kept.
Forget(copy) == [NoMemory EXCEPT !.late = copy.late]

Goto(c, step) ==
    /\ pc' = [pc EXCEPT ![c] = step]
    /\ mem' = IF step = "done" THEN [mem EXCEPT ![c] = Forget(@)] ELSE mem
    /\ UNCHANGED op

GotoWith(c, step, copy) ==
    /\ pc' = [pc EXCEPT ![c] = step]
    /\ mem' = [mem EXCEPT ![c] = copy]
    /\ UNCHANGED op

CallFunc(c, copy, status, txHash) ==
    GotoWith(c, "changeOrderStatusFunc",
             [copy EXCEPT !.target = status, !.txHash = txHash])

\* Where a handler goes on after changeOrderStatusFunc.
AfterFunc(c) == IF op[c] \in {"callback", "poll"} THEN "webhook" ELSE "done"

\* Mutated form of PollPays: only a finished order is left alone.
PollPaysUnfinished(status) == status # "DONE"

\* publicTransferStatusHandler pays for an untouched order.
PollPays(status) == status = "INITIATED"

-----------------------------------------------------------------------------
(***************************************************************************)
(* Calls arrive.  Kotani may call back any number of times, about this     *)
(* order's collection or about that of an earlier order of the phone.      *)
(***************************************************************************)
ArriveCallback(c) ==
    /\ active
    /\ \E state \in {"ok", "failed"} :
         /\ mem' = [mem EXCEPT ![c].kotani = state]
         /\ misrouted' = (misrouted \/ (state = "ok" /\ deposit # "ok"))
    /\ op' = [op EXCEPT ![c] = "callback"]
    /\ pc' = [pc EXCEPT ![c] = "readOrder"]

ArriveRequest(c) ==
    /\ \E handler \in Op \ {"callback"} :
         /\ op' = [op EXCEPT ![c] = handler]
         /\ pc' = [pc EXCEPT ![c] = IF handler = "reminder"
                                      THEN "readTransfer" ELSE "readOrder"]
    /\ UNCHANGED <<mem, misrouted>>

Arrive(c) ==
    /\ At(c, "idle")
    /\ Cardinality(Running) < MaxRunning
    /\ ArriveCallback(c) \/ ArriveRequest(c)
    /\ UNCHANGED <<stored, deposit, active, hasRef, effects>>

\* sendOrderPaidReminer trusts the transfer's status, never the order's.
ReadTransfer(c) ==
    /\ At(c, "readTransfer")
    /\ Goto(c, IF transferStatus = "TransferComplete" THEN "done" ELSE "readOrder")
    /\ UNCHANGED <<stored, world, effects>>

Copy(c) == [mem[c] EXCEPT !.status = orderStatus,
                          !.late = (facts \ TransactionStatus # {"INITIATED"})]

\* confirmKotaniPayCallback does not look at the order's status.
ReadForCallback(c) ==
    /\ At(c, "readOrder")
    /\ op[c] = "callback"
    /\ IF mem[c].kotani = "ok" THEN GotoWith(c, "payOut", Copy(c))
                               ELSE CallFunc(c, Copy(c), "CANCELLED", "hash")
    /\ UNCHANGED <<stored, world, effects>>

\* Without a reference the poll skips Kotani; the reminder's query fails.
ReadForQuery(c) ==
    /\ At(c, "readOrder")
    /\ op[c] \in {"poll", "reminder"}
    /\ IF hasRef THEN GotoWith(c, "query", Copy(c)) ELSE Goto(c, "done")
    /\ UNCHANGED <<stored, world, effects>>

\* changeOrderStatus and confirmOrder of the merchant panel.
ReadToSet(c) ==
    /\ At(c, "readOrder")
    /\ \/ /\ op[c] = "change"
          /\ orderStatus \notin {"DONE", "CANCELLED"}
          /\ \E status \in {"IN-PROGRESS", "CANCELLED", "DONE"} :
                CallFunc(c, Copy(c), status, "hash")
       \/ /\ op[c] = "change"
          /\ orderStatus \in {"DONE", "CANCELLED"}
          /\ Goto(c, "done")
       \/ /\ op[c] = "confirm"
          /\ CallFunc(c, Copy(c), "DONE", "hash")
    /\ UNCHANGED <<stored, world, effects>>

\* confirmTransaction and openZepplinTrigger find the transaction.
ReadTransaction(c) ==
    /\ At(c, "readOrder")
    /\ \/ /\ op[c] = "confirmTransaction"
          /\ GotoWith(c, "saveTransaction", [mem[c] EXCEPT !.target = "Done"])
       \/ /\ op[c] = "trigger"
          /\ IF TransactionPending
               THEN GotoWith(c, "saveTransaction", [mem[c] EXCEPT !.target = "Progress"])
               ELSE Goto(c, "done")
    /\ UNCHANGED <<stored, world, effects>>

-----------------------------------------------------------------------------
\* Mutated form of Collected: any answer of Kotani counts as a payment.
AnyAnswer(state) == TRUE

Collected(state) == state = "ok"

\* getKotaniOrderStatus; the poll judges by the copy it read before asking.
Query(c) ==
    /\ At(c, "query")
    /\ \/ /\ Collected(deposit)
          /\ op[c] = "poll" => PollPays(mem[c].status)
          /\ Goto(c, "payOut")
       \/ Goto(c, "done")   \* not collected, not payable, or the query failed
    /\ UNCHANGED <<stored, world, effects>>

(***************************************************************************)
(* payOutCrypto.  Every result is truthy, so the three handlers go on to   *)
(* changeOrderStatusFunc(order, DONE, result) whatever it is.              *)
(***************************************************************************)
PayOut(c) ==
    /\ At(c, "payOut")
    /\ \E moved \in BOOLEAN :
         /\ payouts' = IF moved THEN payouts \cup {c} ELSE payouts
         /\ \E result \in PayOutAnswers(moved) :
              CallFunc(c, mem[c], "DONE", result)
    /\ UNCHANGED <<stored, world, events>>

-----------------------------------------------------------------------------
(***************************************************************************)
(* changeOrderStatusFunc: the order's write, then the transfer's.  The     *)
(* merchant's handlers make the same two writes and answer 500 on failure. *)
(***************************************************************************)
\* Mutated form of FuncFails: a rejected save no longer skips the transfer.
UpdatesAnyway(c) ==
    /\ pc[c] \in {"changeOrderStatusFunc", "updateTransfer"}
    /\ Goto(c, IF At(c, "updateTransfer") THEN AfterFunc(c) ELSE "updateTransfer")
    /\ UNCHANGED <<stored, world, effects>>

FuncFails(c) ==
    /\ pc[c] \in {"changeOrderStatusFunc", "updateTransfer"}
    /\ Goto(c, AfterFunc(c))
    /\ UNCHANGED <<stored, world, effects>>

ChangeOrderStatusFunc(c) ==
    /\ At(c, "changeOrderStatusFunc")
    /\ Castable(mem[c].txHash)
    /\ SaveOrder(mem[c].status, mem[c].target)
    /\ Goto(c, "updateTransfer")
    /\ UNCHANGED <<world, effects>>

UpdateTransferStatus(c) ==
    /\ At(c, "updateTransfer")
    /\ UpdateTransfer(mem[c].target)
    /\ Goto(c, IF op[c] = "confirm" THEN "saveTransaction" ELSE AfterFunc(c))
    /\ UNCHANGED <<world, effects>>

\* The transaction's status; confirmOrder ends with it (sendDepositsTrigger),
\* the other two show it on the transfer.
UpdateTransaction(c) ==
    /\ At(c, "saveTransaction")
    /\ SaveTransaction(IF op[c] = "confirm" THEN "Done" ELSE mem[c].target)
    /\ Goto(c, IF op[c] = "confirm" THEN "done" ELSE "updateTransfer")
    /\ UNCHANGED <<world, effects>>

\* The store hears of it, unless it has no webhook secret.
Webhook(c) ==
    /\ At(c, "webhook")
    /\ \/ events' = events \cup {IF mem[c].target = "DONE" THEN "TransferComplete"
                                                          ELSE "TransferFailed"}
       \/ UNCHANGED events
    /\ Goto(c, "done")
    /\ UNCHANGED <<stored, world, payouts>>

-----------------------------------------------------------------------------
(***************************************************************************)
(* Kotani, the phone's later orders, failures and crashes.                 *)
(***************************************************************************)
DepositEnds ==
    /\ deposit = "pending"
    /\ deposit' \in {"ok", "failed"}
    /\ UNCHANGED <<stored, active, hasRef, misrouted, effects,
                   control>>

\* makeKotaniPayTx or sendMomoPayout for a later order of the same phone.
LaterOrder ==
    /\ active
    /\ active' = FALSE
    /\ UNCHANGED <<stored, deposit, hasRef, misrouted, effects,
                   control>>

Throw(c) ==
    /\ pc[c] \in {"readTransfer", "readOrder", "query", "payOut", "saveTransaction"}
    /\ Goto(c, "done")
    /\ UNCHANGED <<stored, world, effects>>

Crash ==
    /\ Running # {}
    /\ pc' = [c \in Call |-> IF c \in Running THEN "done" ELSE pc[c]]
    /\ mem' = [c \in Call |-> Forget(mem[c])]
    /\ UNCHANGED <<op, stored, world, effects>>

Step(c) ==
    \/ ReadTransfer(c) \/ ReadForCallback(c) \/ ReadForQuery(c) \/ ReadToSet(c)
    \/ ReadTransaction(c) \/ UpdateTransaction(c)
    \/ Query(c) \/ PayOut(c)
    \/ ChangeOrderStatusFunc(c) \/ FuncFails(c) \/ UpdateTransferStatus(c)
    \/ Webhook(c) \/ Throw(c)

Next ==
    \/ DepositEnds \/ LaterOrder \/ Crash
    \/ \E c \in Call : Arrive(c) \/ Step(c)

Spec == Init /\ [][Next]_vars

-----------------------------------------------------------------------------
(***************************************************************************)
(* Properties.                                                             *)
(***************************************************************************)
ByHand ==
    \E c \in Call : op[c] \in {"change", "confirm", "confirmTransaction"}

\* A status poll pays only for an order nobody had settled when the poll read
\* it: neither a callback, a reminder, a merchant nor another poll ever puts a
\* settled order back to INITIATED, not even a late failure callback after
\* DONE.  Polls pay twice only by overlapping or when a DONE was not saved.
PollPaysUnsettledOrder ==
    \A c \in payouts : op[c] = "poll" => ~mem[c].late

\* Crypto leaves only after the order's own mobile money was collected; the
\* one other way is a success callback of an earlier collection that the
\* phone's activeOrderId sent to this order.
CryptoNeedsFiat ==
    payouts # {} => deposit = "ok" \/ misrouted

\* An order or transfer that shows as complete was paid, unless somebody
\* set it by hand: a failed payOutCrypto is not caught by `if (!txHash)`, only by the
\* CastError its result causes when the order is saved.  Over Lightning an
\* order is completed, and "Order paid successfully" answered, for a payment
\* that Blink refused.
ShownCompleteWasPaid ==
    /\ orderStatus = "DONE" \/ transferStatus = "TransferComplete"
    /\ ~ByHand
    => payouts # {}

\* The transfer only ever shows a status the order or the transaction was
\* saved with before.
TransferMirrorsOrder == Mirror!Spec

\* A handler that read the order as DONE leaves it DONE.
CompletedOrderIsKept ==
    [][orderStatus = "DONE" /\ orderStatus' # "DONE" =>
          \E c \in Call : pc'[c] # pc[c] /\ mem[c].status # "DONE"]_vars

=============================================================================
