---------------------------- MODULE SellSettlement ----------------------------
(***************************************************************************)
(* Settling one SELL order: the user has sent crypto and is to be paid in  *)
(* mobile money, or through PayCrest into a bank account.                  *)
(*                                                                         *)
(* The handlers that touch the order are checkOnChainTransaction (/tx),    *)
(* payoutOrderManually (/merchant/tx), kotaniPayWithdrawCallback,          *)
(* changeOrderStatus and confirmOrder (merchant panel), the part of        *)
(* publicTransferStatusHandler that asks PayCrest (payCrestStatusUpdater), *)
(* and two that go by the transaction: confirmTransaction (/tx/confirm)    *)
(* and openZepplinTrigger (/trigger).                                      *)
(* Each call is one HTTP request; calls interleave at their awaits.        *)
(***************************************************************************)
EXTENDS OrderStore

CONSTANTS
    Call,         \* HTTP requests that touch the order
    MaxRunning,   \* bound on the requests in flight together
    Channels      \* "momo", and "bank" for a bank on a network PayCrest lacks

ASSUME ChannelAssumption == Channels \subseteq {"momo", "bank"}
ASSUME BoundAssumption == MaxRunning \in Nat

VARIABLES
    channel,      \* how the order is to be paid
    orderRef,     \* OrdersModel.orderRef: the Kotani withdrawal, or None
    bankOrderId,  \* TransferModel.bankOrderId: the PayCrest order, or None
    withdrawals,  \* Kotani: state of the withdrawal a call asked for
    bankOrders,   \* PayCrest: state of the order a call opened
    bankPayouts,  \* calls whose crypto for PayCrest left the wallet
    refunds,      \* calls whose refund left the wallet
    events,       \* webhook event types sent to the store
    pc,           \* the await each call has reached
    op,           \* the handler each call runs
    mem,          \* what the call holds in memory
    active,       \* the phone's customer.activeOrderId is this order
    misrouted,    \* a failure callback about an earlier order came here
    raced,        \* two /tx calls read an open order before either claimed it
    reopened      \* the order went back from a claimed status to an open one

stored == <<orderStatus, transferStatus, facts, orderRef, bankOrderId>>
providers == <<withdrawals, bankOrders, bankPayouts, refunds, events, active>>
control == <<pc, op, mem>>
observed == <<raced, reopened, misrouted>>
vars == <<channel, stored, providers, control, observed>>

-----------------------------------------------------------------------------
Op == {"tx", "manual", "withdrawCallback", "change", "confirm", "status",
       "confirmTransaction", "trigger"}

\* None is no call, and no handler.
ASSUME NoneAssumption == None \notin Call \cup Op

\* The status each merchant operation or callback asks for.
Target == Fact

PC == {"idle", "readTransfer", "readOrder", "claim", "checkChain",
       "withdrawStatus", "tellFailed", "markRefunding", "refund",
       "saveRefunded", "bankStatus", "bankQuote", "payBank", "saveBankRef",
       "tellStatus", "momo", "saveRef", "saveManual", "saveFailed",
       "changeOrderStatusFunc", "updateTransfer", "saveTransaction", "done"}

\* In-memory copy of the order and transfer, the pending changeOrderStatusFunc
\* arguments, and the step that follows it.
Memory == [status: OrderStatus \cup {None}, ref: Call \cup {None},
           bank: Call \cup {None}, target: Target, txHash: PayoutResult, then: PC]

NoMemory == [status |-> "INITIATED", ref |-> None, bank |-> None,
             target |-> "INITIATED", txHash |-> "hash", then |-> "done"]

TypeOK ==
    /\ StoreTypeOK
    /\ channel \in Channels
    /\ orderRef \in Call \cup {None}
    /\ bankOrderId \in Call \cup {None}
    /\ withdrawals \in [Call -> {"none", "pending", "ok", "failed"}]
    /\ bankOrders \in [Call -> {"none"} \cup BankStatus]
    /\ bankPayouts \subseteq Call
    /\ refunds \subseteq Call
    /\ events \subseteq {"TransferStarted", "TransferComplete", "TransferFailed"}
    /\ active \in BOOLEAN
    /\ misrouted \in BOOLEAN
    /\ pc \in [Call -> PC]
    /\ op \in [Call -> Op \cup {None}]
    /\ mem \in [Call -> Memory]
    /\ raced \in BOOLEAN
    /\ reopened \in BOOLEAN

Init ==
    /\ StoreInit
    /\ channel \in Channels
    /\ orderRef = None
    /\ bankOrderId = None
    /\ withdrawals = [c \in Call |-> "none"]
    /\ bankOrders = [c \in Call |-> "none"]
    /\ bankPayouts = {}
    /\ refunds = {}
    /\ events = {}
    /\ pc = [c \in Call |-> "idle"]
    /\ op = [c \in Call |-> None]
    /\ mem = [c \in Call |-> NoMemory]
    /\ active = FALSE
    /\ misrouted = FALSE
    /\ raced = FALSE
    /\ reopened = FALSE

-----------------------------------------------------------------------------
Running == {c \in Call : pc[c] \notin {"idle", "done"}}

At(c, step) == pc[c] = step

\* What is remembered of a finished call: that it was /tx.
Finished(handler) == IF handler = "tx" THEN "tx" ELSE None

Goto(c, step) ==
    /\ pc' = [pc EXCEPT ![c] = step]
    /\ mem' = IF step = "done" THEN [mem EXCEPT ![c] = NoMemory] ELSE mem
    /\ op' = IF step = "done" THEN [op EXCEPT ![c] = Finished(@)] ELSE op

\* Go on with a changed in-memory copy.
GotoWith(c, step, copy) ==
    /\ pc' = [pc EXCEPT ![c] = step]
    /\ mem' = [mem EXCEPT ![c] = copy]
    /\ UNCHANGED op

\* changeOrderStatusFunc(order, status, txHash), then the step `then`.
CallFunc(c, copy, status, txHash, then) ==
    GotoWith(c, "changeOrderStatusFunc",
        [copy EXCEPT !.target = status, !.txHash = txHash, !.then = then])

\* The statuses for which /tx answers "already ..." and stops.
Claimed == {"IN-PROGRESS", "DONE", "IS-REFUNDING", "REFUNDED"}

\* The statuses on which each handler returns early.
Refused(handler) ==
    CASE handler = "tx" -> Claimed
      [] handler = "manual" -> {"DONE", "IN-PROGRESS"}
      [] handler = "withdrawCallback" -> {"REFUNDED"}
      [] handler = "change" -> {"DONE", "CANCELLED"}
      [] OTHER -> {}

\* Mutated form of Refuses: no handler stops for an order in progress.
RefusesLess(handler, status) == status \in Refused(handler) \ {"IN-PROGRESS"}

Refuses(handler, status) == status \in Refused(handler)

\* Saves the order's status and notes a claim given up.
Save(c, status) ==
    /\ SaveOrder(mem[c].status, status)
    /\ reopened' = (reopened \/
                       (orderStatus \in Claimed /\ orderStatus' \notin Claimed))
    /\ UNCHANGED <<raced, misrouted>>

-----------------------------------------------------------------------------
(***************************************************************************)
(* A call arrives.  Kotani calls back about a withdrawal that failed, once *)
(* or more often; its success callback changes nothing and is left out.    *)
(* The callback names a customer: it is served for the order the phone's   *)
(* activeOrderId names, also when it is about an earlier order's payout.   *)
(***************************************************************************)
Arrive(c) ==
    /\ At(c, "idle")
    /\ Cardinality(Running) < MaxRunning
    /\ \E handler \in Op :
         /\ handler = "withdrawCallback" => active
         /\ misrouted' = (misrouted \/ (handler = "withdrawCallback"
                            /\ \A w \in Call : withdrawals[w] # "failed"))
         /\ op' = [op EXCEPT ![c] = handler]
         /\ pc' = [pc EXCEPT ![c] = IF handler \in {"tx", "status"}
                                      THEN "readTransfer" ELSE "readOrder"]
    /\ UNCHANGED <<mem, stored, providers, raced, reopened>>

\* TransferModel.findById, in /tx and in the status route.
ReadTransfer(c) ==
    /\ At(c, "readTransfer")
    /\ IF op[c] = "tx" /\ transferStatus = "TransferComplete"
         THEN Goto(c, "done")
         ELSE GotoWith(c, "readOrder", [mem[c] EXCEPT !.bank = bankOrderId])
    /\ UNCHANGED <<stored, providers, observed>>

\* What a handler goes on to use of the order it reads; /tx its orderRef too.
Copy(c) == [mem[c] EXCEPT !.status = orderStatus]

ReadRefused(c) ==
    /\ At(c, "readOrder")
    /\ Refuses(op[c], orderStatus)
    /\ Goto(c, "done")
    /\ UNCHANGED <<stored, providers, observed>>

\* checkOnChainTransaction up to the IN-PROGRESS assignment.
ReadToPay(c) ==
    /\ At(c, "readOrder")
    /\ op[c] = "tx"
    /\ ~Refuses("tx", orderStatus)
    /\ GotoWith(c, "claim", [Copy(c) EXCEPT !.ref = orderRef])
    /\ raced' = (raced \/ \E d \in Call \ {c} : At(d, "claim") /\ op[d] = "tx")
    /\ UNCHANGED <<stored, providers, reopened, misrouted>>

\* payoutOrderManually looks at the chain before it claims the order.
ReadToPayManually(c) ==
    /\ At(c, "readOrder")
    /\ op[c] = "manual"
    /\ ~Refuses("manual", orderStatus)
    /\ GotoWith(c, "checkChain", Copy(c))
    /\ UNCHANGED <<stored, providers, observed>>

\* kotaniPayWithdrawCallback on CANCELLED, FAILED, DECLINED, DUPLICATE, ...
ReadToCancel(c) ==
    /\ At(c, "readOrder")
    /\ op[c] = "withdrawCallback"
    /\ ~Refuses("withdrawCallback", orderStatus)
    /\ CallFunc(c, Copy(c), "CANCELLED", "hash", "tellFailed")
    /\ UNCHANGED <<stored, providers, observed>>

\* changeOrderStatus and confirmOrder write the order and then the transfer
\* the way changeOrderStatusFunc does.
ReadToSet(c) ==
    /\ At(c, "readOrder")
    /\ \/ /\ op[c] = "change"
          /\ ~Refuses("change", orderStatus)
          /\ \E status \in {"IN-PROGRESS", "CANCELLED", "DONE"} :
                CallFunc(c, Copy(c), status, "hash", "done")
       \/ /\ op[c] = "confirm"
          /\ CallFunc(c, Copy(c), "DONE", "hash", "saveTransaction")
    /\ UNCHANGED <<stored, providers, observed>>

\* confirmTransaction and openZepplinTrigger find the transaction.
ReadTransaction(c) ==
    /\ At(c, "readOrder")
    /\ \/ /\ op[c] = "confirmTransaction"
          /\ GotoWith(c, "saveTransaction", [mem[c] EXCEPT !.target = "Done"])
       \/ /\ op[c] = "trigger"
          /\ IF TransactionPending
               THEN GotoWith(c, "saveTransaction", [mem[c] EXCEPT !.target = "Progress"])
               ELSE Goto(c, "done")
    /\ UNCHANGED <<stored, providers, observed>>

\* The status route; only a bank transfer with a PayCrest order goes on.
ReadToReport(c) ==
    /\ At(c, "readOrder")
    /\ op[c] = "status"
    /\ IF channel = "bank" /\ mem[c].bank # None
         THEN GotoWith(c, "bankStatus", Copy(c))
         ELSE Goto(c, "done")
    /\ UNCHANGED <<stored, providers, observed>>

-----------------------------------------------------------------------------
\* Back from changeOrderStatusFunc with a copy of the order that holds `status`;
\* its arguments are gone, but for the target that the status route tells.
Proceed(c, status) ==
    IF mem[c].then = "done"
      THEN Goto(c, "done")
      ELSE GotoWith(c, mem[c].then,
             [NoMemory EXCEPT !.status = status, !.target = mem[c].target])

(***************************************************************************)
(* changeOrderStatusFunc: two separate writes, the order's and the         *)
(* transfer's.  It returns an error instead of throwing, so its callers go *)
(* on as if it had worked.                                                 *)
(***************************************************************************)
ChangeOrderStatusFunc(c) ==
    /\ At(c, "changeOrderStatusFunc")
    /\ Castable(mem[c].txHash)
    /\ Save(c, mem[c].target)
    /\ GotoWith(c, "updateTransfer", [mem[c] EXCEPT !.status = mem[c].target])
    /\ UNCHANGED <<orderRef, bankOrderId, providers>>

\* Mutated form of FuncFails: a rejected save no longer skips the transfer.
UpdatesAnyway(c) ==
    /\ \/ At(c, "changeOrderStatusFunc") /\ Goto(c, "updateTransfer")
       \/ At(c, "updateTransfer") /\ Proceed(c, mem[c].status)
    /\ UNCHANGED <<stored, providers, observed>>

\* The status was assigned and its save rejects, because of a CastError or of
\* the database; or the transfer's update does.
FuncFails(c) ==
    /\ pc[c] \in {"changeOrderStatusFunc", "updateTransfer"}
    /\ IF op[c] \in {"status", "confirm"}
         THEN Goto(c, "done")
         ELSE Proceed(c, IF At(c, "updateTransfer") THEN mem[c].status ELSE None)
    /\ UNCHANGED <<stored, providers, observed>>

UpdateTransferStatus(c) ==
    /\ At(c, "updateTransfer")
    /\ UpdateTransfer(mem[c].target)
    /\ Proceed(c, mem[c].status)
    /\ UNCHANGED <<orderRef, bankOrderId, providers, observed>>

\* The transaction's status; confirmOrder ends with it (sendDepositsTrigger),
\* the other two show it on the transfer.
UpdateTransaction(c) ==
    /\ At(c, "saveTransaction")
    /\ SaveTransaction(IF op[c] = "confirm" THEN "Done" ELSE mem[c].target)
    /\ Goto(c, IF op[c] = "confirm" THEN "done" ELSE "updateTransfer")
    /\ UNCHANGED <<orderRef, bankOrderId, providers, observed>>

-----------------------------------------------------------------------------
(***************************************************************************)
(* checkOnChainTransaction and payoutOrderManually: claim and receipt.     *)
(***************************************************************************)
\* Mutated form of Claim: the status is assigned and its save forgotten.
ClaimsInMemory(c) ==
    /\ At(c, "claim")
    /\ LET copy == [mem[c] EXCEPT !.status = "IN-PROGRESS"] IN
         IF op[c] = "tx"
           THEN GotoWith(c, "checkChain", copy)
           ELSE CallFunc(c, copy, "IN-PROGRESS", "hash", "momo")
    /\ UNCHANGED <<stored, providers, observed>>

Claim(c) ==
    /\ At(c, "claim")
    /\ Save(c, "IN-PROGRESS")
    /\ LET copy == [mem[c] EXCEPT !.status = "IN-PROGRESS"] IN
         IF op[c] = "tx"
           THEN GotoWith(c, "checkChain", copy)
           ELSE CallFunc(c, copy, "IN-PROGRESS", "hash", "momo")
    /\ UNCHANGED <<orderRef, bankOrderId, providers>>

\* How /tx pays once nothing stands in the way.
PayStep(c) ==
    IF channel = "momo" THEN "momo"
    ELSE IF mem[c].bank = None THEN "bankQuote" ELSE "bankStatus"

\* No receipt, store, network or webhook secret: the order keeps the status
\* saved by the claim.  Lightning has no receipt to look up.
CheckChain(c) ==
    /\ At(c, "checkChain")
    /\ \/ Goto(c, "done")
       \/ /\ op[c] = "tx"
          /\ Network # "lightning"
          /\ Goto(c, IF mem[c].ref = None THEN PayStep(c) ELSE "withdrawStatus")
       \/ /\ op[c] = "manual"
          /\ Network # "lightning"
          /\ Goto(c, "claim")
    /\ UNCHANGED <<stored, providers, observed>>

\* Mutated form of MayRefund: a withdrawal still pending counts as failed.
MayRefundEarly(state) == state # "ok"

\* The withdrawal has ended and not well.
MayRefund(state) == state = "failed"

\* The orderRef that was looked up is not used again.
Looked(c, step) == GotoWith(c, step, [mem[c] EXCEPT !.ref = None])

\* An earlier withdrawal: refund it if it failed, wait while it is pending,
\* and pay once more if it succeeded.
WithdrawStatus(c) ==
    /\ At(c, "withdrawStatus")
    /\ LET state == withdrawals[mem[c].ref] IN
         \/ Goto(c, "done")                 \* pending, or the query fails
         \/ MayRefund(state) /\ Looked(c, "tellFailed")
         \/ state = "ok" /\ Looked(c, PayStep(c))
    /\ UNCHANGED <<stored, providers, observed>>

-----------------------------------------------------------------------------
(***************************************************************************)
(* Refunds.  /tx treats every answer of payOutCrypto as success; the       *)
(* callback looks at `.success`, which a hash does not have.               *)
(***************************************************************************)
TellFailed(c) ==
    /\ At(c, "tellFailed")
    /\ events' = events \cup {"TransferFailed"}
    /\ Goto(c, IF op[c] = "tx" THEN "markRefunding" ELSE "refund")
    /\ UNCHANGED <<stored, withdrawals, bankOrders, bankPayouts, refunds,
                   active,
                   observed>>

MarkRefunding(c) ==
    /\ At(c, "markRefunding")
    /\ Save(c, "IS-REFUNDING")
    /\ GotoWith(c, "refund", [mem[c] EXCEPT !.status = "IS-REFUNDING"])
    /\ UNCHANGED <<orderRef, bankOrderId, providers>>

\* payOutCrypto on the order's network: whether it moved money, and its answer.
Refund(c) ==
    /\ At(c, "refund")
    /\ \E result \in PayoutResult, sent \in {refunds, refunds \cup {c}} :
         /\ result \in PayOutAnswers(c \in sent)
         /\ refunds' = sent
         /\ IF op[c] = "tx" \/ result = "blinkFailure"
              THEN GotoWith(c, "saveRefunded", [mem[c] EXCEPT !.txHash = result])
              ELSE Goto(c, "done")
    /\ UNCHANGED <<stored, withdrawals, bankOrders, bankPayouts, events, active,
                   observed>>

SaveRefunded(c) ==
    /\ At(c, "saveRefunded")
    /\ Save(c, "REFUNDED")
    /\ IF op[c] = "tx"
         THEN CallFunc(c, [mem[c] EXCEPT !.status = "REFUNDED"],
                       "REFUNDED", mem[c].txHash, "done")
         ELSE Goto(c, "done")
    /\ UNCHANGED <<orderRef, bankOrderId, providers>>

-----------------------------------------------------------------------------
(***************************************************************************)
(* Paying through PayCrest.  A settled earlier order marks this one DONE,  *)
(* and the handler goes on to open and pay another.                        *)
(***************************************************************************)
BankStatusOfTx(c) ==
    /\ At(c, "bankStatus")
    /\ op[c] = "tx"
    /\ \/ Goto(c, "done")                   \* the query fails: no answer at all
       \/ /\ bankOrders[mem[c].bank] = "settled"
          /\ CallFunc(c, mem[c], "DONE", "hash", "bankQuote")
       \/ /\ bankOrders[mem[c].bank] # "settled"
          /\ Goto(c, "bankQuote")
    /\ UNCHANGED <<stored, providers, observed>>

\* payCrestStatusUpdater, called by the status route: it shows on the transfer
\* what PayCrest answers and tells the store.  It leaves the order's status.
BankStatusOfRoute(c) ==
    /\ At(c, "bankStatus")
    /\ op[c] = "status"
    /\ bankOrders[mem[c].bank] \in BankStatus
    /\ facts' = facts \cup {bankOrders[mem[c].bank]}
    /\ GotoWith(c, "updateTransfer",
          [mem[c] EXCEPT !.target = bankOrders[mem[c].bank], !.then = "tellStatus"])
    /\ UNCHANGED <<orderStatus, transferStatus, orderRef, bankOrderId, providers,
                   observed>>

TellStatus(c) ==
    /\ At(c, "tellStatus")
    /\ events' = events \cup {BankTransferStatus(mem[c].target)}
    /\ Goto(c, "done")
    /\ UNCHANGED <<stored, withdrawals, bankOrders, bankPayouts, refunds, active,
                   observed>>

\* Bank details, rate and PayCrest order; a refusal may leave the order open.
OpenBankOrder(c) ==
    /\ At(c, "bankQuote")
    /\ \/ /\ bankOrders' = [bankOrders EXCEPT ![c] = "initiated"]
          /\ Goto(c, "payBank") \/ Goto(c, "done")
       \/ /\ UNCHANGED bankOrders
          /\ Goto(c, "done")
    /\ UNCHANGED <<stored, withdrawals, bankPayouts, refunds, events, active,
                   observed>>

\* The dollars go to PayCrest's address on Base, whatever network the order's
\* crypto came over.
Base == INSTANCE PayoutContract WITH Network <- "evm"

PayBank(c) ==
    /\ At(c, "payBank")
    /\ \E result \in PayoutResult,
          sent \in {bankPayouts, bankPayouts \cup {c}} :
         /\ result \in Base!PayOutAnswers(c \in sent)
         /\ bankPayouts' = sent
         /\ GotoWith(c, "saveBankRef", [mem[c] EXCEPT !.txHash = result])
    /\ UNCHANGED <<stored, withdrawals, bankOrders, refunds, events, active,
                   observed>>

SaveBankRef(c) ==
    /\ At(c, "saveBankRef")
    /\ bankOrderId' = c
    /\ CallFunc(c, mem[c], "IN-PROGRESS", mem[c].txHash, "done")
    /\ UNCHANGED <<orderStatus, transferStatus, facts, orderRef, providers,
                   observed>>

-----------------------------------------------------------------------------
(***************************************************************************)
(* Paying by mobile money: sendMomoPayout points the phone's customer at   *)
(* this order and asks Kotani for a withdrawal.  A failure carries no      *)
(* response, so /tx throws on it and leaves the order IN-PROGRESS.         *)
(***************************************************************************)
Momo(c) ==
    /\ At(c, "momo")
    /\ \/ /\ withdrawals' = [withdrawals EXCEPT ![c] = "pending"]
          /\ Goto(c, IF op[c] = "tx" THEN "saveRef" ELSE "saveManual")
       \/ /\ withdrawals' \in {withdrawals,
                               [withdrawals EXCEPT ![c] = "pending"]}
          /\ Goto(c, IF op[c] = "tx" THEN "done" ELSE "saveFailed")
    /\ active' \in {active, TRUE}
    /\ UNCHANGED <<stored, bankOrders, bankPayouts, refunds, events, observed>>

SaveRef(c) ==
    /\ At(c, "saveRef")
    /\ orderRef' = c
    /\ \/ /\ CallFunc(c, mem[c], "IN-PROGRESS", "hash", "done")
          /\ UNCHANGED events
       \/ /\ Goto(c, "done")       \* Kotani's message is not "request sent"
          /\ events' \in {events, events \cup {"TransferComplete"}}
    /\ UNCHANGED <<orderStatus, transferStatus, facts, bankOrderId, withdrawals,
                   bankOrders, bankPayouts, refunds, active, observed>>

SaveManual(c) ==
    /\ At(c, "saveManual")
    /\ Save(c, "DONE")
    /\ orderRef' = c
    /\ \/ CallFunc(c, [mem[c] EXCEPT !.status = "DONE"], "DONE", "hash", "done")
       \/ Goto(c, "done")
    /\ UNCHANGED <<bankOrderId, providers>>

SaveFailed(c) ==
    /\ At(c, "saveFailed")
    /\ Save(c, "FAILED")
    /\ Goto(c, "done")
    /\ UNCHANGED <<orderRef, bankOrderId, providers>>

-----------------------------------------------------------------------------
(***************************************************************************)
(* The providers, failures and crashes.                                    *)
(***************************************************************************)
WithdrawalEnds(c) ==
    /\ withdrawals[c] = "pending"
    /\ \E state \in {"ok", "failed"} :
         withdrawals' = [withdrawals EXCEPT ![c] = state]
    /\ UNCHANGED <<stored, bankOrders, bankPayouts, refunds, events, active,
                   control,
                   observed>>

BankOrderEnds(c) ==
    /\ bankOrders[c] = "initiated"
    /\ \E state \in {"settled", "expired"} :
         bankOrders' = [bankOrders EXCEPT ![c] = state]
    /\ UNCHANGED <<stored, withdrawals, bankPayouts, refunds, events, active,
                   control,
                   observed>>

\* makeKotaniPayTx or sendMomoPayout for a later order of the same phone.
LaterOrder ==
    /\ active
    /\ active' = FALSE
    /\ UNCHANGED <<stored, withdrawals, bankOrders, bankPayouts, refunds,
                   events,
                   control, observed>>

\* An await outside changeOrderStatusFunc rejects: 500, nothing undone.
Throw(c) ==
    /\ pc[c] \notin {"idle", "done", "changeOrderStatusFunc", "updateTransfer"}
    /\ Goto(c, "done")
    /\ UNCHANGED <<stored, providers, observed>>

Crash ==
    /\ Running # {}
    /\ pc' = [c \in Call |-> IF c \in Running THEN "done" ELSE pc[c]]
    /\ mem' = [c \in Call |-> NoMemory]
    /\ op' = [c \in Call |-> Finished(op[c])]
    /\ UNCHANGED <<stored, providers, observed>>

Step(c) ==
    \/ ReadTransfer(c) \/ ReadRefused(c) \/ ReadToPay(c) \/ ReadToPayManually(c)
    \/ ReadToCancel(c) \/ ReadToSet(c) \/ ReadToReport(c)
    \/ ReadTransaction(c) \/ UpdateTransaction(c)
    \/ ChangeOrderStatusFunc(c) \/ FuncFails(c) \/ UpdateTransferStatus(c)
    \/ Claim(c) \/ CheckChain(c) \/ WithdrawStatus(c)
    \/ TellFailed(c) \/ MarkRefunding(c) \/ Refund(c) \/ SaveRefunded(c)
    \/ BankStatusOfTx(c) \/ BankStatusOfRoute(c) \/ TellStatus(c)
    \/ OpenBankOrder(c) \/ PayBank(c) \/ SaveBankRef(c)
    \/ Momo(c) \/ SaveRef(c) \/ SaveManual(c) \/ SaveFailed(c)
    \/ Throw(c)

Next ==
    /\ \/ Crash \/ LaterOrder
       \/ \E c \in Call : Arrive(c) \/ WithdrawalEnds(c) \/ BankOrderEnds(c)
       \/ \E c \in Running : Step(c)
    /\ UNCHANGED channel

Spec == Init /\ [][Next]_vars

-----------------------------------------------------------------------------
(***************************************************************************)
(* Properties.                                                             *)
(***************************************************************************)

\* /tx calls that moved money: a withdrawal, a bank payout or a refund.
TxPayers ==
    {c \in Call : /\ op[c] = "tx"
                  /\ \/ withdrawals[c] # "none"
                     \/ c \in bankPayouts \cup refunds}

\* The IN-PROGRESS check of checkOnChainTransaction lets two calls pay only if
\* both read the order before either saved its claim, or if something else
\* (callback, merchant, failed manual payout) took the claim back in between.
TxPaysOnce ==
    raced \/ reopened \/ \A c, d \in TxPayers : c = d

\* Crypto is sent back only for an order of which some mobile-money payout
\* was asked for and failed, even though /tx judges by an orderRef it read
\* several awaits earlier; or after a failure callback about another order
\* that the phone's activeOrderId sent to this one.
RefundNeedsFailedPayout ==
    refunds # {} => misrouted \/ \E w \in Call : withdrawals[w] = "failed"

\* A transfer shown as refunded had a refund leave the wallet: the failure
\* object of payOutCrypto cannot be saved as txId, so changeOrderStatusFunc
\* stops before it touches the transfer.
ShownRefundWasSent ==
    transferStatus = "TransferRefunded" => refunds # {}

\* The transfer only ever shows what the order, the transaction or PayCrest
\* recorded before.
TransferMirrorsOrder == Mirror!Spec

\* A payout whose reference was lost (a failed save, a crash) still blocks a
\* second /tx payout: the order keeps a claimed status.
LostPayoutStaysClaimed ==
    TxPayers # {} /\ ~raced /\ ~reopened => orderStatus \in Claimed

\* An order is refunded once.
RefundedOnce ==
    \A c, d \in refunds : c = d

=============================================================================
