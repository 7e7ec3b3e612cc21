---------------------------- MODULE OlderTransfers ----------------------------
(***************************************************************************)
(* The two older generations of the API, which stay mounted beside the     *)
(* public one: the FiatConnect handlers under /api/admin (fiat accounts    *)
(* and transfers) and the routes under /api (/transfer/in and              *)
(* /transfer/out behind a Mongo idempotency key, /raw/transfer/in).        *)
(*                                                                         *)
(* Each call is one HTTP request and interleaves with the others at its    *)
(* awaits.  All of them act for one user, so that fiat accounts are equal  *)
(* in the fields the handler compares.                                     *)
(***************************************************************************)
EXTENDS FiniteSets, Naturals

CONSTANTS
    Call,        \* HTTP requests
    Quote,       \* quotes the requests name
    InQuote,     \* those of them with transferType "TransferIn"
    Key,         \* idempotency keys
    Ops,         \* the handlers the requests may call
    Earlier,     \* the account the user may have created long before
    MaxRunning,  \* bound on the requests in flight together
    None

AllOps == {"fcIn", "fcOut", "createTransferIn", "createTransfer", "rawIn",
           "account", "deleteAccount"}

ASSUME OpsAssumption == Ops \subseteq AllOps
ASSUME QuoteAssumption == InQuote \subseteq Quote
ASSUME NoneAssumption == None \notin Call \cup Quote \cup Key \cup {Earlier}

AccountId == Call \cup {Earlier}

VARIABLES
    accounts,     \* FiatAccountModel, each record by the call that made it
    keys,         \* IdempotencyModel: <<key, call>> that stored it
    transfers,    \* TransferModel: quote -> call that saved it, or None
    transactions, \* TransactionModel: <<quote, call>>
    orders,       \* OrdersModel: <<quote, call>>
    used,         \* quotes with used = true
    op, quote, key, account,  \* what each call was asked
    pc,           \* the await each call has reached
    overlaps      \* pairs of calls between the same look and its write

asked == <<op, quote, key, account>>
records == <<accounts, keys, transfers, transactions, orders, used>>
vars == <<records, asked, pc, overlaps>>

PC == {"idle", "findKey", "createKey", "findAccount", "findQuote",
       "findTransfer", "saveTransfer", "saveTx", "saveOrder", "saveUsed",
       "lookAccount", "createAccount", "lookDelete", "delete",
       "ok", "refused", "lost"}

TypeOK ==
    /\ accounts \subseteq AccountId
    /\ keys \subseteq Key \X Call
    /\ transfers \in [Quote -> Call \cup {None}]
    /\ transactions \subseteq Quote \X Call
    /\ orders \subseteq Quote \X Call
    /\ used \subseteq Quote
    /\ op \in [Call -> AllOps \cup {None}]
    /\ quote \in [Call -> Quote \cup {None}]
    /\ key \in [Call -> Key \cup {None}]
    /\ account \in [Call -> AccountId \cup {None}]
    /\ pc \in [Call -> PC]
    /\ overlaps \subseteq SUBSET Call

Init ==
    /\ accounts \in {{}, {Earlier}} /\ keys = {}
    /\ transfers = [q \in Quote |-> None]
    /\ transactions = {} /\ orders = {} /\ used = {}
    /\ op = [c \in Call |-> None] /\ quote = [c \in Call |-> None]
    /\ key = [c \in Call |-> None] /\ account = [c \in Call |-> None]
    /\ pc = [c \in Call |-> "idle"]
    /\ overlaps = {}

-----------------------------------------------------------------------------
Gated == {"createTransferIn", "createTransfer"}  \* verifyIdempotencyKey first
MarksUsed == {"fcIn", "fcOut"}
In == {"fcIn", "createTransferIn", "rawIn"}
Out == {"fcOut", "createTransfer"}
Running == {c \in Call : pc[c] \notin {"idle", "ok", "refused", "lost"}}

FirstAwait(o) ==
    IF o \in Gated THEN "findKey"
    ELSE IF o \in MarksUsed THEN "findAccount"
    ELSE IF o = "rawIn" THEN "findQuote"
    ELSE IF o = "account" THEN "lookAccount" ELSE "lookDelete"

\* A request comes in.  The schemas have checked its body: a transfer names a
\* quote and, except on the raw route, an account the client once was given.
Start(c, o, q, k, a) ==
    /\ pc[c] = "idle"
    /\ Cardinality(Running) < MaxRunning
    /\ (q # None) <=> (o \in In \cup Out)
    /\ (k # None) <=> (o \in Gated)
    /\ a \in accounts \cup {Earlier, None}
    /\ (a # None) <=> (o \in Gated \cup MarksUsed \cup {"deleteAccount"})
    /\ op' = [op EXCEPT ![c] = o]
    /\ quote' = [quote EXCEPT ![c] = q]
    /\ key' = [key EXCEPT ![c] = k]
    /\ account' = [account EXCEPT ![c] = a]
    /\ pc' = [pc EXCEPT ![c] = FirstAwait(o)]
    /\ UNCHANGED <<records, overlaps>>

At(c, await) == pc[c] = await
Goto(c, await) == pc' = [pc EXCEPT ![c] = await] /\ UNCHANGED asked

\* The step reads only; c stands between a look and its write from now on,
\* together with the calls d that already do.
Look(c, await, found, d) ==
    /\ Goto(c, IF found THEN "refused" ELSE await)
    /\ overlaps' = IF found THEN overlaps
                   ELSE overlaps \cup {{c, e} : e \in d}
    /\ UNCHANGED records

Read(c, await) == Goto(c, await) /\ UNCHANGED <<records, overlaps>>

-----------------------------------------------------------------------------
(* verifyIdempotencyKey                                                    *)

\* IdempotencyModel.findOne.
FindKey(c) ==
    /\ At(c, "findKey")
    /\ Look(c, "createKey", \E r \in keys : r[1] = key[c],
            {d \in Call : At(d, "createKey") /\ key[d] = key[c]})

\* IdempotencyModel.create, which no index refuses; then next().
CreateKey(c) ==
    /\ At(c, "createKey")
    /\ keys' = keys \cup {<<key[c], c>>}
    /\ Goto(c, "findAccount")
    /\ UNCHANGED <<accounts, transfers, transactions, orders, used,
                   overlaps>>

-----------------------------------------------------------------------------
(* Transfers                                                               *)

\* Mutated form of FindAccount: find instead of findById, whose answer is a
\* list that is never empty-handed.
FindAccountList(c) ==
    /\ At(c, "findAccount")
    /\ pc' = [pc EXCEPT ![c] = "findQuote"]
    /\ account' = [account EXCEPT ![c] = accounts \cap {account[c]}]
    /\ UNCHANGED <<records, op, quote, key, overlaps>>

\* FiatAccountModel.findById.  createTransferOut goes on without an account,
\* until it reads the operator of null.
FindAccount(c) ==
    /\ At(c, "findAccount")
    /\ pc' = [pc EXCEPT ![c] =
                IF account[c] \in accounts \/ op[c] = "fcOut"
                THEN "findQuote" ELSE "refused"]
    /\ account' = [account EXCEPT ![c] =
                     IF account[c] \in accounts THEN account[c] ELSE None]
    /\ UNCHANGED <<records, op, quote, key, overlaps>>

\* QuoteModel.findOne, and the checks on the quote and the operator.  Only
\* FiatConnect's handlers look at used.
FindQuote(c) ==
    /\ At(c, "findQuote")
    /\ Read(c, IF \/ op[c] \in MarksUsed /\ quote[c] \in used
                  \/ op[c] \in In /\ quote[c] \notin InQuote
                  \/ op[c] \in Out /\ quote[c] \in InQuote
                  \/ op[c] = "fcOut" /\ account[c] = None
               THEN "refused" ELSE "findTransfer")

\* TransferModel.findOne({quote}).
FindTransfer(c) ==
    /\ At(c, "findTransfer")
    /\ Read(c, IF transfers[quote[c]] # None THEN "refused"
               ELSE "saveTransfer")

\* Mutated form of SaveTransfer: the schema lacks its unique index on quote.
SaveTransferUnindexed(c) ==
    /\ At(c, "saveTransfer")
    /\ transfers' = [transfers EXCEPT ![quote[c]] = c]
    /\ Goto(c, "saveTx")
    /\ UNCHANGED <<accounts, keys, transactions, orders, used, overlaps>>

\* newTransfer.save(): the index on quote is unique.
SaveTransfer(c) ==
    /\ At(c, "saveTransfer")
    /\ IF transfers[quote[c]] = None
       THEN /\ transfers' = [transfers EXCEPT ![quote[c]] = c]
            /\ Goto(c, "saveTx")
       ELSE Goto(c, "refused") /\ UNCHANGED transfers
    /\ UNCHANGED <<accounts, keys, transactions, orders, used, overlaps>>

\* Mutated form of AfterTx: a purchase's quote is marked before its order.
AfterTxUsedFirst(c) == IF op[c] \in MarksUsed THEN "saveUsed"
                       ELSE IF op[c] \in In THEN "saveOrder" ELSE "ok"

\* What follows the transaction: an order for a purchase, used on FiatConnect.
AfterTx(c) == IF op[c] \in In THEN "saveOrder"
              ELSE IF op[c] = "fcOut" THEN "saveUsed" ELSE "ok"

\* tx.save().
SaveTx(c) ==
    /\ At(c, "saveTx")
    /\ transactions' = transactions \cup {<<quote[c], c>>}
    /\ Goto(c, AfterTx(c))
    /\ UNCHANGED <<accounts, keys, transfers, orders, used, overlaps>>

\* OrdersModel.create.
SaveOrder(c) ==
    /\ At(c, "saveOrder")
    /\ orders' = orders \cup {<<quote[c], c>>}
    /\ Goto(c, IF op[c] = "fcIn" THEN "saveUsed" ELSE "ok")
    /\ UNCHANGED <<accounts, keys, transfers, transactions, used,
                   overlaps>>

\* quote.used = true; quote.save().
SaveUsed(c) ==
    /\ At(c, "saveUsed")
    /\ used' = used \cup {quote[c]}
    /\ Goto(c, "ok")
    /\ UNCHANGED <<accounts, keys, transfers, transactions, orders,
                   overlaps>>

-----------------------------------------------------------------------------
(* Fiat accounts                                                           *)

\* Mutated form of LookAccount: an account that is there is not refused.
LookAccountAnyway(c) ==
    At(c, "lookAccount") /\ Read(c, "createAccount")

\* createFiatAccountHandler: FiatAccountModel.findOne of the same account.
LookAccount(c) ==
    /\ At(c, "lookAccount")
    /\ Look(c, "createAccount", accounts # {},
            {d \in Call : At(d, "createAccount")})

\* FiatAccountModel.create.
CreateAccount(c) ==
    /\ At(c, "createAccount")
    /\ accounts' = accounts \cup {c}
    /\ Goto(c, "ok")
    /\ UNCHANGED <<keys, transfers, transactions, orders, used, overlaps>>

\* deleteFiatAccountHandler: findById, then findByIdAndDelete.
LookDelete(c) ==
    /\ At(c, "lookDelete")
    /\ Read(c, IF account[c] \in accounts THEN "delete" ELSE "refused")

Delete(c) ==
    /\ At(c, "delete")
    /\ accounts' = accounts \ {account[c]}
    /\ Goto(c, "ok")
    /\ UNCHANGED <<keys, transfers, transactions, orders, used, overlaps>>

-----------------------------------------------------------------------------
\* A save the database or a cast refuses: the handler's catch answers 400.
SaveFails(c) ==
    /\ pc[c] \in {"createKey", "saveTransfer", "saveTx", "saveOrder",
                  "saveUsed", "createAccount"}
    /\ Read(c, "refused")

\* The process stops: its requests are lost and the database stays.
Crash ==
    /\ Running # {}
    /\ pc' = [c \in Call |-> IF c \in Running THEN "lost" ELSE pc[c]]
    /\ UNCHANGED <<records, asked, overlaps>>

Step(c) ==
    \/ FindKey(c) \/ CreateKey(c)
    \/ FindAccount(c) \/ FindQuote(c) \/ FindTransfer(c)
    \/ SaveTransfer(c) \/ SaveTx(c) \/ SaveOrder(c) \/ SaveUsed(c)
    \/ LookAccount(c) \/ CreateAccount(c) \/ LookDelete(c) \/ Delete(c)
    \/ SaveFails(c)

Next ==
    \/ \E c \in Call, o \in Ops, q \in Quote \cup {None},
          k \in Key \cup {None}, a \in AccountId \cup {None} :
         Start(c, o, q, k, a)
    \/ \E c \in Call : Step(c)
    \/ Crash

Spec == Init /\ [][Next]_vars

-----------------------------------------------------------------------------
(* Properties                                                              *)

\* Whatever handlers race for a quote, its transaction and its order are of
\* the call that saved its transfer: the unique index decides, though no
\* handler holds a lock and half of them never look at used.
RecordsAreTheTransfers ==
    \A r \in transactions \cup orders : transfers[r[1]] = r[2]

\* A quote is marked used only when all its records are there, so that no
\* failure leaves a used quote without the order that is to settle it.
UsedIsComplete ==
    \A q \in used : /\ \E c \in Call : <<q, c>> \in transactions
                    /\ q \in InQuote => \E c \in Call : <<q, c>> \in orders

\* A purchase answered with success has an order for the merchant to see,
\* after any crash or failed save of others.
AcceptedHasOrder ==
    \A c \in Call : At(c, "ok") /\ op[c] \in In => <<quote[c], c>> \in orders

\* Records that should be one are two only if both calls looked before either
\* wrote.
DuplicatesOverlapped ==
    /\ \A c, d \in accounts : c # d => {c, d} \in overlaps
    /\ \A r, s \in keys : r[1] = s[1] /\ r # s => {r[2], s[2]} \in overlaps

=============================================================================
