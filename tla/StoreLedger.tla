------------------------------ MODULE StoreLedger -----------------------------
(***************************************************************************)
(* The books kept for one store: its record and keys, the deposit and      *)
(* withdraw records, and the activity record whose running totals the      *)
(* handlers read, add to and write back.  Transactions reach them from     *)
(* the public /tx/create, from the OpenZeppelin webhook, from merchants    *)
(* confirming an order and from the timer that stands in for a merchant    *)
(* in the DEV enviroment.                                                  *)
(*                                                                         *)
(* Every amount is one unit: the code adds amounts and compares none.      *)
(***************************************************************************)
EXTENDS FiniteSetsExt, Sequences

CONSTANTS
    Call,        \* HTTP requests
    Tx,          \* transactions of transfers, numbered in order of creation
    WithoutTransfer, \* orders without a transfer: the calls that confirm one
    Ops,         \* the handlers the requests may call
    MaxRunning,  \* bound on the requests in flight together
    None

\* The awaits of each handler, in order.
Program == [
    txCreate |-> <<"findStore", "saveTx", "saveDeposit", "findActivity",
                   "writeActivity", "schedule">>,
    deposit |-> <<"saveDeposit", "findActivity", "writeActivity">>,
    withdraw |-> <<"saveWithdraw", "findActivity", "writeActivity">>,
    trigger |-> <<"findPending", "findStore", "saveDeposit", "markTx",
                  "findActivity", "writeActivity", "schedule",
                  "setTransfer">>,
    confirm |-> <<"setTransfer", "findTx", "findStore", "saveDeposit",
                  "markTx", "findActivity", "writeActivity", "schedule">>,
    confirmTx |-> <<"markTx", "setTransfer">>,
    newStore |-> <<"saveStore", "saveCreds", "saveActivity">>,
    removeStore |-> <<"deleteStore", "deleteCreds">>,
    switchStore |-> <<"switch", "switchActivity">>,
    addCallback |-> <<"upsert">>,
    removeDeposits |-> <<"deleteDeposits">>,
    removeWithdraws |-> <<"deleteWithdraws">>,
    removeActivity |-> <<"deleteActivity">>]

ASSUME OpsAssumption == Ops \subseteq DOMAIN Program
ASSUME TxAssumption == Tx \subseteq Nat /\ IsFiniteSet(Tx)
\* A call that saves a transaction gives it an id that no other one has.
ASSUME CallAssumption == WithoutTransfer \subseteq Call /\ Tx \cap Call = {}

TxId == Tx \cup Call  \* the call's own transaction, if it is txCreate

VARIABLES
    store,     \* storeModel: its enviroment, or "absent"
    creds,     \* storeCredsModel has its keys
    deposits,  \* DepositsModel: <<call that saved it, its transaction>>
    withdraws, \* WithdrawModel, by the call that saved it
    activity,  \* StoreActivityModel: the store's records, oldest first
    status,    \* TransactionModel: status, or "absent"
    transfer,  \* TransferModel: status of the transfer of each transaction
    timers,    \* callbacks due in 30 seconds
    op, tx, env, seen, \* each call's request and what it has read
    pc,        \* how many of its awaits each call has passed; 99 once over
    saved,     \* calls that ever saved a deposit or a withdraw
    disturbed, \* what came between a read of the totals and their write
    races,     \* pairs of calls: triggers that found one transaction Pending
               \* together, a removal of a store whose keys were being saved
    cut        \* calls that failed or were lost midway

books == <<deposits, withdraws, activity, saved>>
stores == <<store, creds>>
txs == <<status, transfer, timers>>
local == <<op, tx, env, seen>>
ghosts == <<disturbed, races, cut>>
vars == <<stores, books, txs, local, pc, ghosts>>

Over == 99
Enviroment == {"DEV", "LIVE"}
Status == {"absent", "Pending", "Progress", "Done"}
Totals == [id : Call \cup {None}, total : Nat, deposits : Nat,
           withdraws : Nat]

ASSUME NoneAssumption == None \notin Call /\ None \notin Totals

TypeOK ==
    /\ store \in Enviroment \cup {"absent"}
    /\ creds \in BOOLEAN
    /\ deposits \subseteq Call \X (TxId \cup {None})
    /\ withdraws \subseteq Call
    /\ activity \in Seq(Totals)
    /\ status \in [TxId -> Status]
    /\ transfer \in [Tx -> {"Started", "Received", "Complete"}]
    /\ timers \subseteq TxId
    /\ op \in [Call -> DOMAIN Program \cup {"none"}]
    /\ tx \in [Call -> TxId \cup {None}]
    /\ env \in [Call -> Enviroment \cup {"absent"}]
    /\ seen \in [Call -> Totals \cup {None}]
    /\ pc \in [Call -> 0..Over]
    /\ saved \subseteq Call /\ disturbed \in BOOLEAN /\ cut \subseteq Call
    /\ races \subseteq SUBSET Call

Init ==
    /\ \/ /\ store \in Enviroment /\ creds = TRUE
          /\ activity = <<[id |-> None, total |-> 0, deposits |-> 0,
                           withdraws |-> 0]>>
       \/ store = "absent" /\ creds = FALSE /\ activity = <<>>
    /\ deposits = {} /\ withdraws = {} /\ saved = {}
    /\ status = [t \in TxId |-> IF t \in Tx THEN "Pending" ELSE "absent"]
    /\ transfer = [t \in Tx |-> "Started"]
    /\ timers = {}
    /\ op = [c \in Call |-> "none"] /\ tx = [c \in Call |-> None]
    /\ env = [c \in Call |-> "absent"] /\ seen = [c \in Call |-> None]
    /\ pc = [c \in Call |-> 0]
    /\ disturbed = FALSE /\ races = {} /\ cut = {}

-----------------------------------------------------------------------------
UnderWay(c) == op[c] # "none" /\ pc[c] # Over
Running == {c \in Call : UnderWay(c)}
Awaits(c) == IF UnderWay(c) THEN Program[op[c]][pc[c] + 1] ELSE "none"
At(c, await) == Awaits(c) = await

\* What c has read and no longer needs.
Forget(C) ==
    /\ env' = [c \in Call |-> IF c \in C THEN "absent" ELSE env[c]]
    /\ seen' = [c \in Call |-> IF c \in C THEN None ELSE seen[c]]

Answer(c) == pc' = [pc EXCEPT ![c] = Over]
Advance(c) ==
    pc' = [pc EXCEPT ![c] = IF pc[c] + 1 = Len(Program[op[c]]) THEN Over
                            ELSE pc[c] + 1]

\* A request comes in: confirm and confirmTx name a transaction.  A new store
\* gets an id of its own, so one call makes the store of these books.
Start(c, o, t) ==
    /\ op[c] = "none"
    /\ Cardinality(Running) < MaxRunning
    /\ (t # None) <=> (o \in {"confirm", "confirmTx"})
    /\ o = "confirm" => t \in Tx
    /\ o = "confirmTx" => status[t] # "absent"
    /\ o = "newStore" => /\ store = "absent"
                         /\ \A d \in Call : op[d] \notin
                              {"newStore", "removeStore", "addCallback"}
    /\ op' = [op EXCEPT ![c] = o]
    /\ tx' = [tx EXCEPT ![c] = t]
    /\ UNCHANGED <<stores, books, txs, env, seen, pc, ghosts>>

-----------------------------------------------------------------------------
(* Transactions                                                            *)

\* storeModel.findById: no store, no more steps; its enviroment is kept.
FindStore(c) ==
    /\ At(c, "findStore")
    /\ env' = [env EXCEPT ![c] = store]
    /\ IF store = "absent" THEN Answer(c) ELSE Advance(c)
    /\ UNCHANGED <<stores, books, txs, op, tx, seen, ghosts>>

\* createTransactionAPI saves a transaction of no quote and no address, with
\* the status the request names.
SaveTx(c, s) ==
    /\ At(c, "saveTx")
    /\ status' = [status EXCEPT ![c] = s]
    /\ tx' = [tx EXCEPT ![c] = c]
    /\ Advance(c)
    /\ UNCHANGED <<stores, books, transfer, timers, op, env, seen, ghosts>>

\* Mutated form of FindPending: the webhook's status filter is gone.
FindPendingAnyStatus(c) ==
    /\ At(c, "findPending")
    /\ tx' = [tx EXCEPT ![c] = Max(Tx)]
    /\ Advance(c)
    /\ UNCHANGED <<stores, books, txs, op, env, seen, ghosts>>

\* openZepplinTrigger: the latest Pending transaction of the address.  The
\* hash of the payment that is reported takes no part in the choice: it is
\* stored with the transaction and never looked up, so a second delivery of
\* one payment takes the next older Pending transaction, if there is one.
FindPending(c) ==
    LET pending == {t \in Tx : status[t] = "Pending"}
        held == {d \in Running \ {c} : op[d] = "trigger" /\ pc[d] > 0
                                       /\ tx[d] = Max(pending)}
    IN  /\ At(c, "findPending")
        /\ IF pending = {} THEN Answer(c) /\ UNCHANGED <<tx, races>>
           ELSE /\ tx' = [tx EXCEPT ![c] = Max(pending)]
                /\ races' = races \cup {{c, d} : d \in held}
                /\ Advance(c)
        /\ UNCHANGED <<stores, books, txs, op, env, seen, disturbed, cut>>

\* confirmOrder: the transaction of the transfer's quote.  An order without a
\* transfer asks for a transaction without a quote, and finds any.
FindTx(c) ==
    /\ At(c, "findTx")
    /\ LET quoteless == {d \in Call : status[d] # "absent"}
           found == IF c \in WithoutTransfer THEN quoteless ELSE {tx[c]}
       IN  IF found = {} THEN Answer(c) /\ UNCHANGED tx
           ELSE /\ \E t \in found : tx' = [tx EXCEPT ![c] = t]
                /\ Advance(c)
    /\ UNCHANGED <<stores, books, txs, op, env, seen, ghosts>>

\* TransactionModel.findOneAndUpdate.
MarkTx(c) ==
    /\ At(c, "markTx")
    /\ status' = [status EXCEPT ![tx[c]] = IF op[c] = "trigger"
                                           THEN "Progress" ELSE "Done"]
    /\ Advance(c)
    /\ UNCHANGED <<stores, books, transfer, timers, local, ghosts>>

\* The transfer of the transaction, when there is one, follows.
SetTransfer(c) ==
    /\ At(c, "setTransfer")
    /\ transfer' = [t \in Tx |->
         IF t # tx[c] \/ (op[c] = "confirm" /\ c \in WithoutTransfer)
         THEN transfer[t]
         ELSE IF op[c] = "trigger" THEN "Received" ELSE "Complete"]
    /\ Advance(c)
    /\ UNCHANGED <<stores, books, status, timers, local, ghosts>>

\* In DEV nobody pays: callback is to run in 30 seconds.
Schedule(c) ==
    /\ At(c, "schedule")
    /\ timers' = IF env[c] = "DEV" THEN timers \cup {tx[c]} ELSE timers
    /\ Advance(c) /\ Forget({c})
    /\ UNCHANGED <<stores, books, status, transfer, op, tx, ghosts>>

\* external/calls.ts callback.
Callback(t) ==
    /\ t \in timers
    /\ timers' = timers \ {t}
    /\ status' = [status EXCEPT ![t] = "Done"]
    /\ UNCHANGED <<stores, books, transfer, local, pc, ghosts>>

-----------------------------------------------------------------------------
(* Deposits, withdraws and the totals                                      *)

SaveDeposit(c) ==
    /\ At(c, "saveDeposit")
    /\ deposits' = deposits \cup {<<c, tx[c]>>}
    /\ saved' = saved \cup {c}
    /\ Advance(c)
    /\ UNCHANGED <<stores, withdraws, activity, txs, local, ghosts>>

SaveWithdraw(c) ==
    /\ At(c, "saveWithdraw")
    /\ withdraws' = withdraws \cup {c}
    /\ saved' = saved \cup {c}
    /\ Advance(c)
    /\ UNCHANGED <<stores, deposits, activity, txs, local, ghosts>>

\* StoreActivityModel.findOne.
FindActivity(c) ==
    /\ At(c, "findActivity")
    /\ seen' = [seen EXCEPT ![c] = IF activity = <<>> THEN None
                                   ELSE Head(activity)]
    /\ disturbed' = (disturbed \/ \E d \in Call : At(d, "writeActivity"))
    /\ Advance(c)
    /\ UNCHANGED <<stores, books, txs, op, tx, env, races, cut>>

\* The record of a store that had none.
FirstTotals(c) ==
    [id |-> c, total |-> 1,
     deposits |-> IF op[c] = "withdraw" THEN 0 ELSE 1,
     withdraws |-> IF op[c] = "withdraw" THEN 1 ELSE 0]

\* Mutated form of Sum: a deposit's record is added to the total twice.
SumTwice(c, doc) ==
    [doc EXCEPT !.total = seen[c].total + 2]

\* What the handler makes of the totals it read: /tx/create and the webhook
\* give deposits the new total, a confirmed order writes all three back.
Sum(c, doc) ==
    LET total == seen[c].total + 1
    IN  CASE op[c] \in {"txCreate", "trigger"} ->
               [doc EXCEPT !.total = total, !.deposits = total]
          [] op[c] = "confirm" ->
               [doc EXCEPT !.total = total, !.deposits = seen[c].deposits + 1,
                           !.withdraws = seen[c].withdraws]
          [] op[c] = "deposit" ->
               [doc EXCEPT !.total = total,
                           !.deposits = seen[c].deposits + 1]
          [] op[c] = "withdraw" ->
               [doc EXCEPT !.total = total,
                           !.withdraws = seen[c].withdraws + 1]

\* createDeposit and createWithdraw save the document they read, and fail when
\* it is gone; the others update the record they find by then.
Replaced(c) ==
    {i \in 1..Len(activity) :
       IF op[c] \in {"deposit", "withdraw"} THEN activity[i].id = seen[c].id
       ELSE i = 1}

\* Mutated form of WriteActivity: the totals start anew with every record.
WriteActivityAnew(c) ==
    /\ At(c, "writeActivity")
    /\ activity' = <<FirstTotals(c)>>
    /\ Advance(c)
    /\ UNCHANGED <<stores, deposits, withdraws, saved, txs, local, ghosts>>

WriteActivity(c) ==
    /\ At(c, "writeActivity")
    /\ IF seen[c] = None
       THEN activity' = Append(activity, FirstTotals(c)) /\ Advance(c)
       ELSE /\ activity' = [i \in 1..Len(activity) |->
                 IF i \in Replaced(c) THEN Sum(c, activity[i])
                 ELSE activity[i]]
            /\ IF op[c] \in {"deposit", "withdraw"} /\ Replaced(c) = {}
               THEN Answer(c) ELSE Advance(c)
    /\ seen' = [seen EXCEPT ![c] = None]
    /\ UNCHANGED <<stores, deposits, withdraws, saved, txs, op, tx, env,
                   ghosts>>

\* removeDeposits, removeWithdraws and removeActivity: deleteMany.
Remove(c) ==
    /\ Awaits(c) \in {"deleteDeposits", "deleteWithdraws", "deleteActivity"}
    /\ deposits' = IF At(c, "deleteDeposits") THEN {} ELSE deposits
    /\ withdraws' = IF At(c, "deleteWithdraws") THEN {} ELSE withdraws
    /\ activity' = IF At(c, "deleteActivity") THEN <<>> ELSE activity
    /\ disturbed' = (disturbed \/ At(c, "deleteActivity"))
    /\ Advance(c)
    /\ UNCHANGED <<stores, saved, txs, local, races, cut>>

-----------------------------------------------------------------------------
(* The store and its keys                                                  *)

\* newStore and createStore save the store, its keys, then its first totals.
SaveStore(c) ==
    /\ At(c, "saveStore")
    /\ store' = "DEV"
    /\ Advance(c)
    /\ UNCHANGED <<creds, books, txs, local, ghosts>>

SaveCreds(c) ==
    /\ At(c, "saveCreds")
    /\ creds' = TRUE
    /\ Advance(c)
    /\ UNCHANGED <<store, books, txs, local, ghosts>>

SaveActivity(c) ==
    /\ At(c, "saveActivity")
    /\ activity' = Append(activity, [id |-> c, total |-> 0, deposits |-> 0,
                                     withdraws |-> 0])
    /\ disturbed' = (disturbed \/ \E d \in Call : At(d, "writeActivity"))
    /\ Advance(c)
    /\ UNCHANGED <<stores, deposits, withdraws, saved, txs, local, races,
                   cut>>

\* Mutated form of DeleteStore: the keys are left behind.
DeleteStoreOnly(c) ==
    /\ At(c, "deleteStore")
    /\ store' = "absent"
    /\ Answer(c)
    /\ UNCHANGED <<creds, books, txs, local, ghosts>>

\* removeStore deletes the store, and then its keys if there was a store.
DeleteStore(c) ==
    /\ At(c, "deleteStore")
    /\ store' = "absent"
    /\ IF store = "absent" THEN Answer(c) ELSE Advance(c)
    /\ races' = races \cup {{c, d} : d \in {e \in Call : At(e, "saveCreds")}}
    /\ UNCHANGED <<creds, books, txs, local, disturbed, cut>>

DeleteCreds(c) ==
    /\ At(c, "deleteCreds")
    /\ creds' = FALSE
    /\ Advance(c)
    /\ UNCHANGED <<store, books, txs, local, ghosts>>

\* switchStoreEnviroment updates the store if it is there, and then, whether
\* it was or not, the enviroment beside the totals.  Only the panel shows that
\* copy, and the books do not keep it: what matters to them is the switch of
\* the store, between any two steps of the others.
Switch(c) ==
    /\ At(c, "switch")
    /\ \E e \in Enviroment :
         store' = IF store = "absent" THEN store ELSE e
    /\ Advance(c)
    /\ UNCHANGED <<creds, books, txs, local, ghosts>>

SwitchActivity(c) ==
    /\ At(c, "switchActivity")
    /\ Advance(c)
    /\ UNCHANGED <<stores, books, txs, local, ghosts>>

\* addStoreCallback: its upsert makes a store of an id that has none.

Upsert(c) ==
    /\ At(c, "upsert")
    /\ store' = IF store = "absent" THEN "DEV" ELSE store
    /\ Advance(c)
    /\ UNCHANGED <<creds, books, txs, local, ghosts>>

-----------------------------------------------------------------------------
\* The database refuses a step, or the process stops: a call keeps what it
\* has written, and the timers of a stopped process are lost.
Fail(c) ==
    /\ c \in Running
    /\ Answer(c) /\ Forget({c})
    /\ cut' = cut \cup {c}
    /\ UNCHANGED <<stores, books, txs, op, tx, disturbed, races>>

Crash ==
    /\ Running # {} \/ timers # {}
    /\ cut' = cut \cup Running
    /\ pc' = [c \in Call |-> IF c \in Running THEN Over ELSE pc[c]]
    /\ timers' = {} /\ Forget(Call)
    /\ UNCHANGED <<stores, books, status, transfer, op, tx, disturbed, races>>

Step(c) ==
    \/ FindStore(c) \/ FindPending(c) \/ FindTx(c) \/ MarkTx(c)
    \/ \E s \in {"Pending", "Done"} : SaveTx(c, s)
    \/ SetTransfer(c) \/ Schedule(c)
    \/ SaveDeposit(c) \/ SaveWithdraw(c) \/ FindActivity(c)
    \/ WriteActivity(c) \/ Remove(c)
    \/ SaveStore(c) \/ SaveCreds(c) \/ SaveActivity(c)
    \/ DeleteStore(c) \/ DeleteCreds(c) \/ Upsert(c)
    \/ Switch(c) \/ SwitchActivity(c)
    \/ Fail(c)

Next ==
    \/ \E c \in {d \in Call : op[d] = "none"}, o \in Ops,
          t \in TxId \cup {None} : Start(c, o, t)
    \/ \E c \in Running : Step(c)
    \/ \E t \in TxId : Callback(t)
    \/ Crash

Spec == Init /\ [][Next]_vars

-----------------------------------------------------------------------------
(* Properties                                                              *)

\* However the handlers' reads and writes of the totals interleave, and
\* whatever fails or is removed between them, the totals of a store are never
\* of more records than were saved: an update may be lost, none is counted
\* twice.
TotalNeverOverstates ==
    MapThenSumSet(LAMBDA i : activity[i].total, 1..Len(activity))
      <= Cardinality(saved)

\* Without a concurrent update, a removal or a failure, the total the store
\* is shown, and what the calls in flight are yet to add, is every record.
LedgerIsExact ==
    LET due == {c \in saved : c \in Running
                  /\ \E i \in (pc[c] + 1)..Len(Program[op[c]]) :
                       Program[op[c]][i] = "writeActivity"}
    IN  ~disturbed /\ cut = {} =>
          Cardinality(saved) =
            (IF activity = <<>> THEN 0 ELSE Head(activity).total)
              + Cardinality(due)

\* The webhook deposits each transaction of an address once, in whatever
\* order deliveries, confirmations and the DEV timer come, unless two
\* deliveries that found it Pending overlap or one failed before it marked
\* the transaction.  This is said of transactions, not of payments: the
\* handler knows no payment, and one that is delivered again deposits the
\* address's next Pending transaction.
TransactionDepositedOnce ==
    \A x, y \in deposits :
      /\ x # y /\ x[2] = y[2]
      /\ op[x[1]] = "trigger" /\ op[y[1]] = "trigger"
      => {x[1], y[1]} \in races \/ {x[1], y[1]} \cap cut # {}

\* A store that is gone leaves no keys to call the API with, unless its
\* removal was cut short or came while its creation was saving them.
CredsGoWithStore ==
    store = "absent" /\ creds =>
      \/ \E c \in Call : op[c] = "removeStore" /\ (c \in Running \/ c \in cut)
      \/ \E c, d \in Call : op[d] = "newStore" /\ {c, d} \in races

=============================================================================
