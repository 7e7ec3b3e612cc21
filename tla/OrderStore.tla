------------------------------ MODULE OrderStore ------------------------------
(***************************************************************************)
(* The documents an accepted transfer leaves in MongoDB, its order, its    *)
(* transfer and its transaction, and the writes the settlement handlers    *)
(* share.                                                                  *)
(*                                                                         *)
(* A handler works on its own in-memory copy of the order.  Mongoose's     *)
(* save() sends only the paths that differ from that copy, so assigning    *)
(* the status the copy already has writes nothing, even when the stored    *)
(* status has changed since.  There is no version check on a status.       *)
(***************************************************************************)
EXTENDS Naturals, FiniteSets, PayoutContract

CONSTANTS
    OrderType,   \* "BUY" or "SELL": every handler call here serves one order
    None

ASSUME OrderTypeAssumption == OrderType \in {"BUY", "SELL"}

VARIABLES
    orderStatus,     \* OrdersModel.status
    transferStatus,  \* TransferModel.status
    facts            \* every status saved on the order or on the transaction,
                     \* or reported by PayCrest

OrderStatus == {"INITIATED", "IN-PROGRESS", "CANCELLED", "DONE", "FAILED",
                "IS-REFUNDING", "REFUNDED"}

\* What PayCrest reports of a bank payout.
BankStatus == {"initiated", "settled", "expired"}

\* TransactionModel.status once it has left "Pending"; no code sets it back.
TransactionStatus == {"Progress", "Done"}

Fact == OrderStatus \cup BankStatus \cup TransactionStatus

TransferStatus == {"TransferStarted", "TransferSendingCryptoFunds",
                   "TransferReceivedFiatFunds", "TransferFailed",
                   "TransferComplete", "TransferRefunded",
                   "TransferReceivedCryptoFunds", "TransferWaitingForUserAction"}

\* Mutated form of TransferStatusFor: the order's status is copied as it is.
CopiesStatus(status) == status

\* getTransferStatus of changeOrderStatusFunc.
TransferStatusFor(status) ==
    CASE status = "IN-PROGRESS" -> IF OrderType = "BUY"
                                     THEN "TransferSendingCryptoFunds"
                                     ELSE "TransferReceivedFiatFunds"
      [] status = "CANCELLED" -> "TransferFailed"
      [] status = "DONE" -> "TransferComplete"
      [] status = "REFUNDED" -> "TransferRefunded"
      [] OTHER -> "TransferWaitingForUserAction"

\* payCrestStatusUpdater's counterpart.
BankTransferStatus(status) ==
    CASE status = "settled" -> "TransferComplete"
      [] status = "initiated" -> "TransferStarted"
      [] status = "expired" -> "TransferFailed"

\* What openZepplinTrigger and confirmTransaction show.
TransactionTransferStatus(status) ==
    IF status = "Done" THEN "TransferComplete" ELSE "TransferReceivedCryptoFunds"

Shown(fact) ==
    CASE fact \in BankStatus -> BankTransferStatus(fact)
      [] fact \in TransactionStatus -> TransactionTransferStatus(fact)
      [] OTHER -> TransferStatusFor(fact)

(***************************************************************************)
(* An order's txId is a String: an object has no cast to it, so an order   *)
(* whose txId is set to one of payOutCrypto's failures cannot be saved.    *)
(***************************************************************************)
\* Mutated form of Castable: txId accepts any value.
AcceptsAny(result) == TRUE

Castable(result) == result \notin {"failure", "blinkFailure"}

StoreTypeOK ==
    /\ orderStatus \in OrderStatus
    /\ transferStatus \in TransferStatus
    /\ facts \subseteq Fact

StoreInit ==
    /\ orderStatus = "INITIATED"
    /\ transferStatus = "TransferStarted"
    /\ facts = {"INITIATED"}

\* order.status = status; await order.save(), from a copy that holds `seen`, or
\* holds a status that was assigned and could not be saved (None).
SaveOrder(seen, status) ==
    /\ orderStatus' = IF seen = status THEN orderStatus ELSE status
    /\ facts' = facts \cup {status}
    /\ UNCHANGED transferStatus

\* TransactionModel.findOneAndUpdate({ _id }, { $set: { status } })
SaveTransaction(status) ==
    /\ facts' = facts \cup {status}
    /\ UNCHANGED <<orderStatus, transferStatus>>

TransactionPending == facts \cap TransactionStatus = {}

\* TransferModel.updateOne({ quote }, { $set: { status } })
UpdateTransfer(fact) ==
    /\ transferStatus' = Shown(fact)
    /\ UNCHANGED <<orderStatus, facts>>

Mirror == INSTANCE OrderMirror

=============================================================================
