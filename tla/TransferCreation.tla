--------------------------- MODULE TransferCreation ---------------------------
(***************************************************************************)
(* Accepting a transfer: the Redis idempotency gate (verifyIdempotencyKey) *)
(* and the two public handlers it guards, publicTransferInHandler and      *)
(* publicTransferOutHandler, with the mobile-money collection the first    *)
(* one starts (makeKotaniPayTx).                                           *)
(*                                                                         *)
(* Express serves all requests in one Node process, so a request runs      *)
(* alone between two awaits and any other request can run at an await.     *)
(* Every action below is one such stretch of code; pc[r] names the await   *)
(* that request r has reached.  The transfer, transaction and order that   *)
(* request r inserts get fresh Mongo ids; the model uses r itself as that  *)
(* id, so transfers[r] is the document request r inserted.                 *)
(***************************************************************************)
EXTENDS Naturals, FiniteSets

CONSTANTS
    Request,    \* HTTP requests, each served once
    Quote,      \* quotes issued earlier
    InQuote,    \* the quotes whose transferType is "TransferIn"
    Key,        \* idempotency-key header values
    Phone,      \* phone numbers in the request body
    Earlier,    \* the order a returning customer was last pointed at
    None        \* an unset field, an absent document

ASSUME InQuoteAssumption == InQuote \subseteq Quote

VARIABLES
    pc,              \* the await each request has reached
    req,             \* what the request asks for
    ref,             \* the value makeKotaniPayTx returned to the request
    answer,          \* the HTTP answer the request got
    idempotencyKeys, \* keys present in Redis
    used,            \* quote.used
    transfers,       \* TransferModel
    transactions,    \* TransactionModel: ids of the stored documents
    orders,          \* OrdersModel
    bankQuotes,      \* BankQuote: transfer ids with stored bank details
    activeOrder,     \* CustomerModel.activeOrderId by phone; None: no customer
    deposits,        \* mobile-money collections Kotani has started, by order
    payCrestOrders,  \* PayCrest orders opened, by transfer
    events           \* webhooks sent to the store about the transfer

docs == <<used, transfers, transactions, orders, bankQuotes>>
outside == <<activeOrder, deposits, payCrestOrders, events>>
vars == <<pc, req, ref, answer, idempotencyKeys, docs, outside>>

-----------------------------------------------------------------------------
(***************************************************************************)
(* A request: which of the two routes, for which quote, under which key.   *)
(* `via` is how a TransferOut will be paid: "payCrest" for operator bank   *)
(* on a network PayCrest serves, "bankQuote" for operator bank on another  *)
(* network, "momo" otherwise.  `late` says that an earlier request with    *)
(* the key was in its handler, or had stored a transfer, when this one     *)
(* arrived; no code reads it.                                              *)
(***************************************************************************)
Route == {"in", "out"}
Via == {"momo", "payCrest", "bankQuote"}
RequestBody == [route: Route, quote: Quote, key: Key, phone: Phone,
                via: Via, late: BOOLEAN]

(***************************************************************************)
(* What makeKotaniPayTx hands back.  "reference" is Kotani's reference id. *)
(* "errorText" is an Error object, which Mongoose casts to its text.       *)
(* "failure" is a plain object {success: false, ...}: orderRef and         *)
(* kotaniRef are String paths, so the next save() fails with a CastError.  *)
(***************************************************************************)
Ref == {"reference", "errorText", "failure"}
SavedRef == (Ref \ {"failure"}) \cup {None}

TransferDoc == [quote: Quote, orderId: Request \cup {None},
                bankOrderId: BOOLEAN, kotaniRef: SavedRef]
OrderDoc == [quote: Quote, orderRef: SavedRef]

ASSUME EarlierAssumption == Earlier \notin Request
ASSUME NoneAssumption ==
    None \notin Request \cup RequestBody \cup Ref \cup TransferDoc \cup OrderDoc

\* The awaits of the gate, of makeKotaniPayTx and of the handlers.
GateSteps == {"getKey", "setKey"}
KotaniSteps == {"saveCustomer", "newCustomer", "deposit"}
HandlerSteps == {"findQuote", "findTransfer", "saveTransfer",
                 "saveTransaction", "createOrder", "saveQuote", "saveLink",
                 "makeKotaniPayTx", "saveTransferRef", "saveOrderRef",
                 "getRate", "offRamp", "createBankQuote"}
Running == GateSteps \cup HandlerSteps \cup KotaniSteps
PC == {"idle", "done"} \cup Running

TypeOK ==
    /\ pc \in [Request -> PC]
    /\ req \in [Request -> RequestBody \cup {None}]
    /\ ref \in [Request -> Ref \cup {None}]
    /\ answer \in [Request -> {"none", "ok", "refused", "keyUsed", "lost"}]
    /\ idempotencyKeys \subseteq Key
    /\ used \in [Quote -> BOOLEAN]
    /\ transfers \in [Request -> TransferDoc \cup {None}]
    /\ transactions \subseteq Request
    /\ orders \in [Request -> OrderDoc \cup {None}]
    /\ bankQuotes \subseteq Request
    /\ activeOrder \in [Phone -> Request \cup {Earlier, None}]
    /\ deposits \subseteq Request
    /\ payCrestOrders \subseteq Request
    /\ events \in [Request -> SUBSET {"TransferStarted", "TransferFailed"}]

Init ==
    /\ pc = [r \in Request |-> "idle"]
    /\ req = [r \in Request |-> None]
    /\ ref = [r \in Request |-> None]
    /\ answer = [r \in Request |-> "none"]
    /\ idempotencyKeys = {}
    /\ used = [q \in Quote |-> FALSE]
    /\ transfers = [r \in Request |-> None]
    /\ transactions = {}
    /\ orders = [r \in Request |-> None]
    /\ bankQuotes = {}
    /\ activeOrder \in [Phone -> {Earlier, None}]
    /\ deposits = {}
    /\ payCrestOrders = {}
    /\ events = [r \in Request |-> {}]

-----------------------------------------------------------------------------
At(r, step) == pc[r] = step

Goto(r, step) ==
    /\ pc' = [pc EXCEPT ![r] = step]
    /\ UNCHANGED answer

Answer(r, code) ==
    /\ pc' = [pc EXCEPT ![r] = "done"]
    /\ answer' = [answer EXCEPT ![r] = code]

-----------------------------------------------------------------------------
(***************************************************************************)
(* The gate.  get and set are separate Redis calls: two requests with one  *)
(* key may both read "absent" before either writes.                        *)
(***************************************************************************)
\* The gate let the request through to its handler.
Served(r) == pc[r] \in HandlerSteps \cup KotaniSteps \/ transfers[r] # None

Arrive(r) ==
    /\ At(r, "idle")
    /\ \E b \in RequestBody :
         /\ b.late = (\E s \in Request : Served(s) /\ req[s].key = b.key)
         /\ req' = [req EXCEPT ![r] = b]
    /\ Goto(r, "getKey")
    /\ UNCHANGED <<ref, idempotencyKeys, docs, outside>>

GetKey(r) ==
    /\ At(r, "getKey")
    /\ IF req[r].key \in idempotencyKeys
         THEN Answer(r, "keyUsed")
         ELSE Goto(r, "setKey")
    /\ UNCHANGED <<req, ref, idempotencyKeys, docs, outside>>

\* Mutated form of SetKey: the key is let through and not stored.
ForgetsKey(r) ==
    /\ At(r, "setKey")
    /\ Goto(r, "findQuote")
    /\ UNCHANGED <<req, ref, idempotencyKeys, docs, outside>>

SetKey(r) ==
    /\ At(r, "setKey")
    /\ idempotencyKeys' = idempotencyKeys \cup {req[r].key}
    /\ Goto(r, "findQuote")
    /\ UNCHANGED <<req, ref, docs, outside>>

-----------------------------------------------------------------------------
(***************************************************************************)
(* The part the two handlers share, up to the stored order.                *)
(***************************************************************************)
RouteServes(route, q) == (route = "in") <=> (q \in InQuote)

FindQuote(r) ==
    /\ At(r, "findQuote")
    /\ IF RouteServes(req[r].route, req[r].quote) /\ ~used[req[r].quote]
         THEN Goto(r, "findTransfer")
         ELSE Answer(r, "refused")
    /\ UNCHANGED <<req, ref, idempotencyKeys, docs, outside>>

HasTransfer(q) == \E s \in Request : transfers[s] # None /\ transfers[s].quote = q

\* Mutated form of DuplicateQuote: the collection has no unique index.
NoUniqueIndex(q) == FALSE

\* TransferSchema's unique index on `quote`, at the moment of the insert.
DuplicateQuote(q) == HasTransfer(q)

FindTransfer(r) ==
    /\ At(r, "findTransfer")
    /\ IF HasTransfer(req[r].quote)
         THEN Answer(r, "refused")
         ELSE Goto(r, "saveTransfer")
    /\ UNCHANGED <<req, ref, idempotencyKeys, docs, outside>>

SaveTransfer(r) ==
    /\ At(r, "saveTransfer")
    /\ IF DuplicateQuote(req[r].quote)
         THEN /\ Answer(r, "refused")
              /\ UNCHANGED transfers
         ELSE /\ transfers' = [transfers EXCEPT ![r] =
                    [quote |-> req[r].quote, orderId |-> None,
                     bankOrderId |-> FALSE, kotaniRef |-> None]]
              /\ Goto(r, "saveTransaction")
    /\ UNCHANGED <<req, ref, idempotencyKeys, used, transactions, orders,
                   bankQuotes, outside>>

SaveTransaction(r) ==
    /\ At(r, "saveTransaction")
    /\ transactions' = transactions \cup {r}
    /\ Goto(r, "createOrder")
    /\ UNCHANGED <<req, ref, idempotencyKeys, used, transfers, orders,
                   bankQuotes, outside>>

BeforeLink(via) ==
    CASE via = "payCrest" -> "getRate"
      [] via = "bankQuote" -> "createBankQuote"
      [] via = "momo" -> "saveLink"

\* Mutated forms of AfterOrder: the In handler collects before it links the
\* transfer; the Out handler marks the quote used before it links it.
CollectsFirst(body) ==
    IF body.route = "in" THEN "makeKotaniPayTx" ELSE BeforeLink(body.via)
UsesQuoteFirst(body) == "saveQuote"

AfterOrder(body) ==
    IF body.route = "in" THEN "saveQuote" ELSE BeforeLink(body.via)

CreateOrder(r) ==
    /\ At(r, "createOrder")
    /\ orders' = [orders EXCEPT ![r] =
            [quote |-> req[r].quote, orderRef |-> None]]
    /\ Goto(r, AfterOrder(req[r]))
    /\ UNCHANGED <<req, ref, idempotencyKeys, used, transfers, transactions,
                   bankQuotes, outside>>

-----------------------------------------------------------------------------
(***************************************************************************)
(* Marking the quote used and linking the transfer to the order.  The two  *)
(* handlers do them in opposite orders.                                    *)
(***************************************************************************)
AfterLink(route) == IF route = "in" THEN "makeKotaniPayTx" ELSE "saveQuote"

SaveQuote(r) ==
    /\ At(r, "saveQuote")
    /\ used' = [used EXCEPT ![req[r].quote] = TRUE]
    /\ IF req[r].route = "in"
         THEN Goto(r, "saveLink")
         ELSE Answer(r, "ok")
    /\ UNCHANGED <<req, ref, idempotencyKeys, transfers, transactions, orders,
                   bankQuotes, outside>>

SaveLink(r) ==
    /\ At(r, "saveLink")
    /\ transfers' = [transfers EXCEPT
            ![r].orderId = r,
            ![r].bankOrderId = (req[r].route = "out" /\ req[r].via = "payCrest")]
    /\ Goto(r, AfterLink(req[r].route))
    /\ UNCHANGED <<req, ref, idempotencyKeys, used, transactions, orders,
                   bankQuotes, outside>>

-----------------------------------------------------------------------------
(***************************************************************************)
(* TransferOut to a bank account.  On a network PayCrest serves its order  *)
(* is opened at once; a refused rate or order answers 400 and leaves the   *)
(* documents stored so far.  A PayCrest call that fails after the provider *)
(* acted leaves an order there.                                            *)
(***************************************************************************)
GetRate(r) ==
    /\ At(r, "getRate")
    /\ Goto(r, "offRamp") \/ Answer(r, "refused")
    /\ UNCHANGED <<req, ref, idempotencyKeys, docs, outside>>

OffRamp(r) ==
    /\ At(r, "offRamp")
    /\ \/ /\ payCrestOrders' = payCrestOrders \cup {r}
          /\ Goto(r, "saveLink") \/ Answer(r, "refused")
       \/ /\ UNCHANGED payCrestOrders
          /\ Answer(r, "refused")
    /\ UNCHANGED <<req, ref, idempotencyKeys, docs, activeOrder, deposits,
                   events>>

CreateBankQuote(r) ==
    /\ At(r, "createBankQuote")
    /\ bankQuotes' = bankQuotes \cup {r}
    /\ Goto(r, "saveLink")
    /\ UNCHANGED <<req, ref, idempotencyKeys, used, transfers, transactions,
                   orders, outside>>

-----------------------------------------------------------------------------
(***************************************************************************)
(* makeKotaniPayTx: point the phone's customer at this order, then ask     *)
(* Kotani to collect the money.                                            *)
(***************************************************************************)
Return(r, value) ==
    /\ ref' = [ref EXCEPT ![r] = value]
    /\ Goto(r, "saveTransferRef")

\* The webhook, unless the store has no callback or no webhook secret.
Tell(r, event) ==
    \/ events' = [events EXCEPT ![r] = @ \cup {event}]
    \/ UNCHANGED events

FindCustomer(r) ==
    /\ At(r, "makeKotaniPayTx")
    /\ \/ /\ Goto(r, IF activeOrder[req[r].phone] = None THEN "newCustomer"
                                                          ELSE "saveCustomer")
          /\ UNCHANGED ref
       \/ Return(r, "failure")     \* country or phone not acceptable
       \/ Return(r, "errorText")   \* the lookup throws
    /\ UNCHANGED <<req, idempotencyKeys, docs, outside>>

SaveCustomer(r) ==
    /\ At(r, "saveCustomer")
    /\ \/ /\ activeOrder' = [activeOrder EXCEPT ![req[r].phone] = r]
          /\ Goto(r, "deposit")
          /\ UNCHANGED ref
       \/ /\ UNCHANGED activeOrder
          /\ Return(r, "errorText")
    /\ UNCHANGED <<req, idempotencyKeys, docs, deposits, payCrestOrders, events>>

(***************************************************************************)
(* createNewKotaniCustomer.  phoneNumber is unique: a request that lost    *)
(* the race to insert the customer, or whose call failed, goes on with an  *)
(* error object as customer key, which Kotani does not accept.             *)
(***************************************************************************)
NewCustomer(r) ==
    /\ At(r, "newCustomer")
    /\ \/ /\ activeOrder[req[r].phone] = None
          /\ activeOrder' = [activeOrder EXCEPT ![req[r].phone] = r]
          /\ Goto(r, "deposit")
          /\ UNCHANGED <<ref, events>>
       \/ /\ UNCHANGED activeOrder
          /\ Return(r, "failure")
          /\ Tell(r, "TransferFailed")
       \/ /\ UNCHANGED <<activeOrder, events>>
          /\ Return(r, "errorText")
    /\ UNCHANGED <<req, idempotencyKeys, docs, deposits, payCrestOrders>>

(***************************************************************************)
(* createKotaniDeposit.  An answer lost on the way back reads as a failure *)
(* although the collection runs; an unknown country throws before Kotani   *)
(* is asked.  Kotani's success is taken to name a reference.               *)
(***************************************************************************)
\* Mutated form of Deposit: success is not looked at, so that reading the
\* reference of a failure throws.
ThrowsOnFailure(r) ==
    /\ At(r, "deposit")
    /\ \/ /\ deposits' = deposits \cup {r}
          /\ Return(r, "reference")
          /\ Tell(r, "TransferStarted")
       \/ /\ deposits' \in {deposits, deposits \cup {r}}
          /\ Return(r, "errorText")
          /\ UNCHANGED events
    /\ UNCHANGED <<req, idempotencyKeys, docs, activeOrder, payCrestOrders>>

Deposit(r) ==
    /\ At(r, "deposit")
    /\ \/ /\ deposits' = deposits \cup {r}
          /\ Return(r, "reference")
          /\ Tell(r, "TransferStarted")
       \/ /\ deposits' \in {deposits, deposits \cup {r}}
          /\ Return(r, "failure")
          /\ Tell(r, "TransferFailed")
       \/ /\ Return(r, "errorText")
          /\ UNCHANGED <<deposits, events>>
    /\ UNCHANGED <<req, idempotencyKeys, docs, activeOrder, payCrestOrders>>

\* Mutated form of Castable: the reference fields accept any value.
AcceptsAny(value) == TRUE

Castable(value) == value # "failure"

SaveTransferRef(r) ==
    /\ At(r, "saveTransferRef")
    /\ IF Castable(ref[r])
         THEN /\ transfers' = [transfers EXCEPT ![r].kotaniRef = ref[r]]
              /\ Goto(r, "saveOrderRef")
         ELSE /\ Answer(r, "refused")
              /\ UNCHANGED transfers
    /\ UNCHANGED <<req, ref, idempotencyKeys, used, transactions, orders,
                   bankQuotes, outside>>

SaveOrderRef(r) ==
    /\ At(r, "saveOrderRef")
    /\ orders' = [orders EXCEPT ![r].orderRef = ref[r]]
    /\ Answer(r, "ok")
    /\ UNCHANGED <<req, ref, idempotencyKeys, used, transfers, transactions,
                   bankQuotes, outside>>

-----------------------------------------------------------------------------
(***************************************************************************)
(* Failures.  Refuse: an await of a handler rejects, or a check on the     *)
(* input (store, operator, pause lists) fails, and the handler answers     *)
(* 400; nothing it has stored is undone.  A database write that is applied *)
(* and then reported as failed is the write's action followed by Refuse.   *)
(* GateFails: Redis rejects.  Crash: the process stops; every request in   *)
(* flight is lost, the databases keep what they hold.                      *)
(***************************************************************************)
Refuse(r) ==
    /\ pc[r] \in HandlerSteps
    /\ Answer(r, "refused")
    /\ UNCHANGED <<req, ref, idempotencyKeys, docs, outside>>

GateFails(r) ==
    /\ pc[r] \in GateSteps
    /\ Answer(r, "refused")
    /\ UNCHANGED <<req, ref, idempotencyKeys, docs, outside>>

Crash ==
    /\ \E r \in Request : pc[r] \in Running
    /\ pc' = [r \in Request |-> IF pc[r] \in Running THEN "done" ELSE pc[r]]
    /\ answer' = [r \in Request |->
                    IF pc[r] \in Running THEN "lost" ELSE answer[r]]
    /\ UNCHANGED <<req, ref, idempotencyKeys, docs, outside>>

Step(r) ==
    \/ GetKey(r) \/ SetKey(r)
    \/ FindQuote(r) \/ FindTransfer(r) \/ SaveTransfer(r)
    \/ SaveTransaction(r) \/ CreateOrder(r) \/ SaveQuote(r) \/ SaveLink(r)
    \/ GetRate(r) \/ OffRamp(r) \/ CreateBankQuote(r)
    \/ FindCustomer(r) \/ SaveCustomer(r) \/ NewCustomer(r) \/ Deposit(r)
    \/ SaveTransferRef(r) \/ SaveOrderRef(r)
    \/ Refuse(r) \/ GateFails(r)

Next == Crash \/ \E r \in Request : Arrive(r) \/ Step(r)

Spec == Init /\ [][Next]_vars

-----------------------------------------------------------------------------
(***************************************************************************)
(* Properties.                                                             *)
(***************************************************************************)

\* A quote never yields two orders, even when several requests pass the
\* `used` and `findOne` checks before any of them stores a transfer.
OneOrderPerQuote ==
    \A r, s \in Request :
        orders[r] # None /\ orders[s] # None /\ orders[r].quote = orders[s].quote
            => r = s

\* What is stored as a reference says whether Kotani collects for r.
TellsCollection(r, value) ==
    value = IF r \in deposits THEN "reference" ELSE "errorText"

\* A request told "ok" left everything the later steps of a transfer look up:
\* transaction, order, transfer linked to that order, quote used.  "ok" does
\* not say that a TransferIn is being paid for: makeKotaniPayTx returns what it
\* catches, and the error's text is then saved as the reference.  But what is
\* saved tells the two apart, on transfer and order alike: Kotani's reference
\* exactly if a collection runs, else an error's text.
AcceptedIsRecorded ==
    \A r \in Request : answer[r] = "ok" =>
        /\ r \in transactions
        /\ orders[r] # None
        /\ transfers[r] # None
        /\ transfers[r].orderId = r
        /\ transfers[r].quote = orders[r].quote
        /\ used[req[r].quote]
        /\ transfers[r].kotaniRef = orders[r].orderRef
        /\ req[r].route = "in" => TellsCollection(r, orders[r].orderRef)

\* Money is collected by mobile money, and a customer is pointed at an order,
\* only when that order is stored, its transfer linked and its quote used, so
\* Kotani's callback finds an order whose quote cannot be reused.
CollectsOnRecord ==
    \A r \in Request :
        r \in deposits \/ (\E p \in Phone : activeOrder[p] = r) =>
            /\ orders[r] # None
            /\ transfers[r] # None
            /\ transfers[r].orderId = r
            /\ used[orders[r].quote]

\* A store that was sent TransferFailed for a transfer is never also told
\* "ok" by the request: makeKotaniPayTx returns an object in that case, which
\* the next save rejects.
FailureToldIsNotAccepted ==
    \A r \in Request : "TransferFailed" \in events[r] => answer[r] # "ok"

\* A retry sent once the handler has started on the first attempt never
\* reaches a handler itself: the key is stored before the handler runs, and
\* stays when the attempt fails or the process stops.
RetryIsRefused ==
    \A r \in Request : req[r] # None /\ req[r].late =>
        /\ pc[r] \in {"getKey", "done"}
        /\ answer[r] \in {"none", "keyUsed", "refused", "lost"}
        /\ transfers[r] = None

\* Once the request that stored a quote's transfer has ended, however it
\* ended, no other request changes that transfer, its order or its quote: a
\* failed acceptance is neither completed nor repeated by a retry.
EndedIsFrozen ==
    [][\A r \in Request : pc[r] = "done" =>
          /\ transfers'[r] = transfers[r]
          /\ orders'[r] = orders[r]
          /\ transfers[r] # None =>
                used'[transfers[r].quote] = used[transfers[r].quote]]_vars

-----------------------------------------------------------------------------
(***************************************************************************)
(* The handlers keep the promise of QuoteClaim.                            *)
(***************************************************************************)
For(q, R) == {r \in R : req[r] # None /\ req[r].quote = q}

Claims == INSTANCE QuoteClaim WITH
    claimants <- [q \in Quote |->
                    {r \in Request : transfers[r] # None /\ transfers[r].quote = q}],
    collectors <- [q \in Quote |-> For(q, deposits \cup payCrestOrders)],
    accepted <- [q \in Quote |-> For(q, {r \in Request : answer[r] = "ok"})]

ClaimsSpec == Claims!Spec

=============================================================================
