# TLA+ models of the OneRamp API

OneRamp moves money between mobile money or bank accounts and crypto wallets.
A client asks for a *quote*, turns it into a *transfer* (BUY: fiat in, crypto
out; SELL: crypto in, fiat out), and the API settles the *order* behind it by
talking to Kotani Pay (mobile money), PayCrest (bank payouts), Blink
(Lightning) and EVM or Starknet nodes. All state is in MongoDB, except the
idempotency keys, which are in Redis. There is one Node process; no transaction
and no lock is used anywhere.

## The system

| component | state it keeps | operations | what makes it correct |
|---|---|---|---|
| idempotency gate, `authMiddleware/siweHandler.ts` | keys in Redis | `verifyIdempotencyKey`: get, then set | a key lets one request through; a retry never reaches a handler |
| transfer acceptance, `controllers/public/transfer.ts`, `helpers/kotani` | quote.used, transfers, transactions, orders, bank quotes, customers | `publicTransferInHandler`, `publicTransferOutHandler`, `makeKotaniPayTx` | one order per quote; "ok" means everything is stored; nothing is collected off the record |
| SELL settlement, `controllers/public/transfer.ts`, `controllers/kotani`, `helpers/momo`, `helpers/paycrest` | order.status and orderRef, transfer.status and bankOrderId | `checkOnChainTransaction` (/tx), `payoutOrderManually`, `kotaniPayWithdrawCallback`, `payCrestStatusUpdater` | an order is paid or refunded once; a refund needs a failed payout |
| BUY settlement, `controllers/kotani`, `controllers/public/transfer.ts` | order.status, transfer.status | `confirmKotaniPayCallback`, `publicTransferStatusHandler`, `sendOrderPaidReminer` | crypto leaves once, for collected fiat; what is announced is true |
| merchant panel and dashboard, `controllers/merchants/orders.ts`, `controllers/orders.ts`, `controllers/store.ts`, `controllers/transactions.ts` | the same documents, transaction.status | `changeOrderStatus`, `confirmOrder`, `confirmTransaction`, `openZepplinTrigger` | finished orders stay finished; the transfer agrees with the order |
| crypto payouts, `helpers/payouts` | the wallets' nonces and balances | `payOutCrypto` and one function per network | one nonce per payout; an answer says no more than happened |
| quotes and pricing, `controllers/public/quote.ts`, `controllers/getQuoteIn.ts`, `getQuoteOut.ts`, `helpers/fiatconnect` | quotes | quote in, quote out, rates, in three generations | no NaN moves money; fiat-asked purchases of stable coins and mobile money payouts are covered by what came in; a refund is within what was due |
| older routes, `controllers/transfer.ts`, `controllers/fiatconnect` | the same collections, fiat accounts, keys in Mongo | transfer in and out, accounts, key gate | one call makes all the records of a quote |
| store ledger, `events/onchain.ts`, `controllers/transactions.ts`, `controllers/store.ts` | deposits, withdraws, activity totals, stores and their keys | `sendDepositsTrigger`, `createTransactionAPI`, `createDeposit`, `removeStore`, ... | no record counted twice, totals equal the records |
| KYC, `controllers/MetaMap`, `controllers/fiatconnect`, `controllers/store.ts` | KYC records, applications to stores | webhook, cron job, `deleteKYCRecordHandler`, `createStoreUserKYC` | the latest result stands; every verified user gets its document |
| sockets and emulator, `sockets`, `controllers/emulator.ts` | a map of sockets, emulators | join, disconnect, create | a notification reaches the live socket |
| login, client library | sessions; nothing | | (not modelled) |

The components meet in four ways.

* *Shared documents.* Every settlement handler reads its own copy of the order
  and saves back the paths that changed. Mongoose does not check that the
  stored status is still the one that was read.
* *Provider callbacks.* Kotani calls back with a customer key, not with an
  order id. The handler takes the order the customer's `activeOrderId` names at
  that moment. Every order of a phone that reaches Kotani overwrites it.
* *Failures as values.* `payOutCrypto`, `makeKotaniPayTx`, `sendMomoPayout` and
  `changeOrderStatusFunc` catch and return what went wrong. What protects a
  caller that does not look is that a plain object has no String cast, so the
  document it is assigned to cannot be saved.
* *Webhooks* to the store: one POST each, errors ignored, never repeated.

What is hard here is therefore interleaving at the awaits, stale copies, calls
whose answer is lost, repeated or misrouted callbacks, and a process that stops
between two writes. `PROJECT.json` lists each such hazard at its line, with
the properties that cover it.

## Modules

| module | what it models |
|---|---|
| `TransferCreation` | gate, both public acceptance handlers, `makeKotaniPayTx` |
| `QuoteClaim` | abstract: what acceptance promises about one quote |
| `OrderStore` | the order, transfer and transaction documents, what their statuses mean, the shared writes |
| `OrderMirror` | abstract: a transfer shows only what was recorded before |
| `SellSettlement`, `BuySettlement` | every handler that settles one SELL or one BUY order (both extend `OrderStore`) |
| `PayoutContract` | abstract: what a caller of `payOutCrypto` may count on, by network |
| `CryptoPayout` | `payOutCrypto` on EVM chains, Starknet and Lightning, with nonces, mempool and receipts |
| `Pricing` | the arithmetic of quotes: rates, fees, rounding, NaN |
| `Amounts` | what the amounts of a quote become in transactions, orders and money (extends `Pricing`) |
| `OlderTransfers` | the FiatConnect transfer and account handlers, the older `/transfer` routes, the Mongo key gate |
| `StoreLedger` | deposits, withdraws and totals of a store, its keys, the OpenZeppelin webhook, the DEV timer |
| `Kyc` | the MetaMap webhook, the cron job that fetches documents, FiatConnect's deletion |
| `StoreKyc` | users' KYC applications to stores |
| `Emulator` | the registry of sockets, the emulators |
| `Records` | `Emulator`, `Kyc` and `StoreKyc` side by side |
| `MC...` | instances for TLC |
| `...Proofs` | theorems about the module of that name |

**How they fit together.** `SellSettlement` and `BuySettlement` do not model
the chains: a payout returns one of `PayOutAnswers(moved)`, which
`PayoutContract` defines for the network paid on: the order's, and for the
coins forwarded to PayCrest always base, an EVM chain. `CryptoPayout` models
the chains and shows (`KeepsContract`, checked and proved) that the code gives
no other answer. What a status is worth to a client is `OrderMirror`, which
both settlements implement; what acceptance promises is `QuoteClaim`, which
`TransferCreation` implements. `Amounts` follows one quote through the same
handlers with each running alone, because interleaving changes who acts and
never how much. `Emulator`, `Kyc` and `StoreKyc` share no state with each
other, so `Records` has a variable `part`, fixed at the start, that names the
one of them that moves: together they have as many states as one after another,
and every behaviour of `Records` is one of each (`PartsRun`).

**Reading a model.** A request runs alone between two awaits, because Node has
one thread; at an await any other request may run. So an action is one stretch
of a handler, from one await to the next, and `pc` names the await a request
has reached, by the call it waits for (`saveTransfer`, `payOutCrypto` is
`payOut`, ...). Two awaits are merged into one only if nothing that another
request can see happens between them: the lookups of quote, transaction, store
and secrets, whose results no handler changes.

A database call or provider call may reject. `Refuse` (acceptance), `Throw`
(settlement), `Fail` and their like are the handler's `catch`: it answers and
undoes nothing. A write that was applied and reported as failed is the write's
action followed by that one. Provider calls have a third outcome where the code
cannot tell: the provider acted and the answer was lost. `Crash` ends all
requests in flight and keeps the databases. When a request ends, its local
variables are reset, so that states differ only by what can still matter.

**TransferCreation.** A request inserts at most one transfer, transaction and
order, so `transfers[r]` is the document of request `r`, and `r` also serves as
its id. `DuplicateQuote` is the unique index on `TransferModel.quote`; the
earlier `findOne` is a separate action. `Castable` is Mongoose's String cast.
The checks of store, operator and pause lists have no effect but a refusal, so
they are `Refuse`. A phone may already have a customer, made for an order
before these requests (`Earlier`): then `makeKotaniPayTx` saves the customer
(`SaveCustomer`) where it otherwise makes one (`NewCustomer`).

**OrderStore.** `facts` is a history variable: all statuses ever saved on the
order or transaction, or reported by PayCrest. `SaveOrder(seen, status)` is
`order.status = status; await order.save()` from a copy that holds `seen`:
equal values are not sent, so a handler that assigns the status its stale copy
already has leaves a different stored status alone.

**SellSettlement, BuySettlement.** One order, any number of calls; `op` is the
handler a call runs, `mem` its in-memory copy. `Claim` is the IN-PROGRESS
write of /tx and of the manual payout. `active` is whether the phone's
`activeOrderId` still names this order; `misrouted` records that a callback
about an earlier order was served for this one; `raced` and `reopened` record
the two circumstances under which the claim does not protect (two calls past
the check before either claimed; a claim taken back by another handler).

**CryptoPayout.** Each payout reads the wallet's pending nonce in one await and
sends in a later one. `pool` is what the nodes hold, `Pending` the first nonce
without a transaction, `Accepts` a node's rule (a free nonce, or a higher price
for a taken one). `sent`, `known` and `refused` are history: they tell whether
a refusal was of payouts that overlapped. `Mine`, `Drop` and the Lightning
balance are the outside world.

**Pricing, Amounts.** A JavaScript number is an integer of 1/`Scale` units or
`NaN`, which every operation passes on; reading a property an object lacks and
computing with it gives `NaN`. `Pricing` has one operator per helper or inline
computation of the source. Rates and fees are fractions, of `RateScale` and
`FeeScale` parts. Market prices are asked for anew by each handler, so each
takes any of `Markets`; `convertSatsBTCtoUSD` may also fail, and its caller then
asks for an invoice of `NaN` satoshis, before it saves anything. In `Amounts` a
quote record keeps which generation priced it (`source`) and the body it was
asked by; a leg is money that moved or was asked for: kind, amount and quote.

**OlderTransfers.** Calls act for one user. The five handlers store the same
records and differ in where they begin (`FirstAwait`), in what they look at
(`FindQuote`) and in what follows the transaction (`AfterTx`). `overlaps` is history:
the pairs of calls that were between the same look and its write together.

**StoreLedger.** `Program` gives each handler as the sequence of its awaits;
`pc` counts those passed. The documents are those of one store. Amounts are one
unit, since the code adds them and compares none. The webhook's hash plays no
part in the handler and so none here: a delivery takes the latest `Pending`
transaction of its address, which for a repeated delivery may be an older one.
`disturbed` (a second writer between a read of the totals and their write, or a
removal), `races` and `cut` (calls that failed half-way) are history.

**Kyc.** `CreateUser` meets two unique indexes, on the e-mail and on the
document number, which is empty until the cron job fetches it.
`deleteKYCRecordHandler` filters by `phoneNumber` and `ethAddress`, which the
schema does not have: a request that names either finds nothing, and one that
names neither fits every record, of which one is deleted (`DeleteKYCRecord`).
A webhook or run that had found it then writes to nothing (`stale`, a `target`
of `None`), even if the user has a new record by then. `last`, `crossed` and
`deleted` are history: the latest result received for a user since the last
deletion, the users of whom two webhooks, or one and a deletion, were under way
together or one was lost, and those whose record was deleted.

**Emulator, StoreKyc.** `joined` and `latest` are history: all joins, and each
user's last. `sendEmulatorMomoMessage` reads `req.store`, which the guard of its
route (`authorizeRoute`) never sets, so it throws and saves nothing. In
`StoreKyc`, `Find` and `FindPending` look within one store, `Indexed` is what
the collection holds unique.

## Runs

Every bound is a CONSTANT of the `.cfg`.

| run | instance | states | what it shows |
|---|---|---|---|
| `creation` | 2 requests, 1 quote in and 1 out, 2 keys, 1 phone with or without a customer | 0.5 M | one order per quote, what "ok" guarantees, collection only on record, a failure told to the store is not accepted, a late retry is refused, an ended request's documents are frozen, `QuoteClaim` is implemented |
| `sell` | 3 calls, 2 in flight, mobile money or bank | 1.5 M | when the claim protects; no payout is forgotten; a refund follows a failed payout; "refunded" is shown only if crypto left; `OrderMirror` is implemented |
| `sell_refunded_twice` | as `sell`, mobile money | - | **violated**: one order is refunded twice |
| `buy_payouts` | 3 calls, 2 in flight | 1.6 M | a poll pays only untouched orders; crypto needs collected fiat or a misrouted callback; "complete" is shown only if crypto left; `OrderMirror` is implemented |
| `buy_completed_kept` | as `buy_payouts` | - | **violated**: a handler that read DONE cancels the order |
| `payout_contract` | 3 payouts, 4 networks, 2 gas prices, wallets of 0 or 1 unit | 0.6 M | `payOutCrypto` keeps `PayoutContract`; only payouts that overlap are refused for their nonce |
| `amounts_moves` | 1 quote, 3 countries, 2 coins, 20 requests, 2 markets, all routes | 546 | NaN moves nothing; a stable coin bought by a fiat amount and a mobile money payout are covered; both refunds are within what was due |
| `amounts_bank_forward` | as `amounts_moves` | - | **violated**: a bank sale forwards an amount of fiat as crypto |
| `older_transfers` | 3 calls in flight, all handlers, 2 quotes, 1 key | 0.3 M | one call makes all records; used only when complete; duplicates only of overlapping looks |
| `ledger` | 3 calls, 2 in flight, all handlers, 2 transactions | 1.8 M | no total overstates; undisturbed books are exact; the webhook deposits a transaction once; keys go with their store |
| `records` | 2 users, webhooks, cron runs, documents; 2 sockets; 2 requests, stores, e-mails, addresses | 0.2 M | unique keys hold; the latest result stands; a newer join survives; every verified user gets its document |
| `kyc_unrecorded` | as `records` | - | **violated**: a webhook is handled and its user has no record |

*Why the bounds are enough.* Acceptance races are between the requests for one
quote, and a second quote interacts only through the phone's customer; two
requests cover both, with one key or two, and a retry is the second request
after the first has ended. Settlement races are between the handler that read a
stale copy and one that wrote in between: two in flight. The third call adds
what comes afterwards: a retry, a repeated callback, a later poll. `MaxRunning`
bounds only how many are in flight together. Three payouts are two that collide
and one that replaces or follows. One quote is enough for amounts, which depend
on no other quote; the bodies are within the limits, in either currency, in a
country where buying is paused, one where selling is, and one where neither is,
there also below and above each limit and with both amounts; rates and fees are
those of the code's table for these countries. Of a settling call that has
ended, `SellSettlement` remembers only whether it was /tx. Two calls cause a
lost update of the ledger's totals, a third reads the result. Of webhooks, cron
runs, users and documents two are a race. Two transactions let a repeated
delivery of the OpenZeppelin webhook find an older one. What needs more of
anything is left to the theorems, which hold for every number. Every disjunct of
the next-state relations fires. Deadlock is not checked: a system all of whose
requests have ended stops. Symmetry is on calls, which no property tells apart;
it is off in the run with liveness.

*Fairness.* `Fairness` in `Records`, for `Kyc`, assumes that the schedule
goes on ticking and its handlers resume (weak fairness of a run), and that each
request of the run that is made again and again succeeds sometime (strong
fairness: a failure ends the run, and the next tick tries again). Without the
second half every fetch could fail for ever and no code could help. The other
modules make no liveness claim. Nothing in the code retries, so no order is
guaranteed to finish; and the providers are asked without a timeout, so that not
even an answer to every request is guaranteed.

## What the runs found

1. `kotaniPayWithdrawCallback` refunds first and marks the order only if
   `payOutResponse.success`. A successful payout returns a hash, which has no
   such field, so the order stays CANCELLED and the next failure callback
   refunds it again (`sell_refunded_twice`).
2. `confirmKotaniPayCallback` cancels an order it read as DONE when a late
   failure or DUPLICATE callback arrives (`buy_completed_kept`).
3. `checkOnChainTransaction` forwards `quote.amountPaid` to PayCrest as USDC.
   When the quote was asked for in fiat that is a number of shillings
   (`amounts_bank_forward`).
4. `KYCModel` stores an empty document number under a unique index, so until
   the first user's document is fetched no second user's record can be created.
   The webhook has been acknowledged by then, and the error is swallowed
   (`kyc_unrecorded`).

Other disagreements between the code and its own comments or messages, met
while modelling. The models reproduce each; no run is dedicated to it.

* Key check and key store are two calls, in Redis (`siweHandler.ts:155`, `:165`)
  as in Mongo (`authToken.ts:113`): simultaneous requests with one key both
  pass. The unique index keeps a quote from yielding two orders all the same
  (`OneOrderPerQuote`, `DuplicatesOverlapped`).
* `if (!payOutResponse)` (`public/transfer.ts:1115`) and `if (!txHash)`
  (`kotani-controllers.ts:123`) never fire, since failures are objects: the
  order becomes REFUNDED, or the store is told TransferComplete, with nothing
  sent. The transfer is saved from the same fate by the String cast of `txId`
  (`ShownRefundWasSent`, `ShownCompleteWasPaid`).
* `sendBlinkPayment` (`blink/index.ts:83`) takes any HTTP 200 for a payment.
  Over Lightning an order can thus show as complete unpaid: `PayoutContract`
  with `Network = "lightning"` allows it, and `ShownCompleteWasPaid` holds only
  of the networks with a chain, of which `buy_payouts` takes `evm`.
* `makeKotaniPayTx` returns what it catches (`helpers/kotani/helpers/index.ts:128`),
  and the caller saves it as the reference: a request may be answered ok with
  an error's text there and nothing collected. `AcceptedIsRecorded` says what
  still holds: the two documents agree, and tell the cases apart.
* `makeKotaniPayTx` asks Kotani to collect `quote.amountPaid` from the phone
  (`helpers/kotani/helpers/index.ts:74`). For a purchase asked for in crypto
  that is the number of coins, far less fiat than the order's amount, "the amount
  the user paid in fiat" (`public/transfer.ts:150`): `FiatBuyIsCovered` is said
  of purchases asked in fiat only.
* An error of `convertSatsBTCtoUSD` becomes an invoice of `NaN` satoshis
  (`public/transfer.ts:756`).
* A failure callback refunds `order.recieves`, the quoted crypto, while /tx
  refunds what was asked for in crypto: the two differ by the fees
  (`kotani-controllers.ts:449`, `RefundIsWithinDue`).
* A repeated delivery of the OpenZeppelin webhook deposits the address's next
  older Pending transaction for the same payment (`transactions.ts:346`).
* `deleteKYCRecordHandler` without a body deletes some user's record
  (`fiatconnect/handlers.ts:963`).
* The Bitcoin fee in fiat is divided by the fiat rate and never by the satoshis
  of a bitcoin (`helpers/fiatconnect/handlers.ts:1179`).
* `createFiatAccountHandler` looks for an equal account and creates one in two
  calls without a unique index (`controllers/fiatconnect/handlers.ts:517`).
* `/tx/create` and the webhook set `deposits` to the total, withdraws included
  (`transactions.ts:95`).
* `sendDepositsTrigger` never looks at the status of the transaction it
  deposits, so confirming an order again deposits it again (`onchain.ts:200`).
* `email` and `address` of an application are unique in the whole collection,
  so an application to one store refuses one to another (`UserKYCModel.ts:49`).

## Proofs

Proved for any sets and any number of requests, calls, quotes, users and so on.

| module | theorem | `Spec =>` |
|---|---|---|
| `TransferCreationProofs` | `TypeCorrect` | `[]TypeOK` |
| | `OneOrder` | `[]OneOrderPerQuote` |
| | `AcceptedRecorded` | `[]AcceptedIsRecorded` |
| | `CollectedOnRecord` | `[]CollectsOnRecord` |
| | `FailureNotAccepted` | `[]FailureToldIsNotAccepted` |
| | `RetryRefused` | `[]RetryIsRefused` |
| | `EndedFrozen` | `EndedIsFrozen` (an action property) |
| | `QuotesClaimedOnce` | `ClaimsSpec`, the refinement of `QuoteClaim` |
| `SellSettlementProofs` | `Typed` | `[]TypeOK` |
| | `OnePays` | `[]TxPaysOnce` |
| | `PayoutStaysClaimed` | `[]LostPayoutStaysClaimed` |
| | `RefundsAreJustified` | `[]RefundNeedsFailedPayout` |
| | `RefundedWasSent` | `[]ShownRefundWasSent`, not on Starknet |
| | `MirrorsOrder` | `TransferMirrorsOrder`, the refinement of `OrderMirror` |
| `BuySettlementProofs` | `Typed` | `[]TypeOK` |
| | `PollsPayUnsettled` | `[]PollPaysUnsettledOrder` |
| | `CryptoFollowsFiat` | `[]CryptoNeedsFiat` |
| | `CompleteWasPaid` | `[]ShownCompleteWasPaid`, on the EVM chains |
| | `MirrorsOrder` | `TransferMirrorsOrder`, the refinement of `OrderMirror` |
| `CryptoPayoutProofs` | `Typed` | `[]TypeOK` |
| | `ContractKept` | `[]KeepsContract` |
| | `RefusalsOverlap` | `[]RefusedOnlyByOverlap` |
| `StoreLedgerProofs` | `Typed` | `[]TypeOK` |
| | `DepositsOnce` | `[]TransactionDepositedOnce` |
| | `KeysGoWithStore` | `[]CredsGoWithStore` |
| | `BooksExact` | `[]LedgerIsExact` |
| | `TotalsCounted` | `[]TotalNeverOverstates` |
| `OlderTransfersProofs` | `TypeCorrect` | `[]TypeOK` |
| | `OneCallMakesTheRecords` | `[]RecordsAreTheTransfers` |
| | `UsedComplete` | `[]UsedIsComplete` |
| | `AcceptedOrdered` | `[]AcceptedHasOrder` |
| | `OnlyOverlapsDuplicate` | `[]DuplicatesOverlapped` |
| `AmountsProofs` | `NumbersOnly` | `[]NaNMovesNothing` |
| | `BuysCovered` | `[]FiatBuyIsCovered` |
| | `SalesCovered` | `[]SellPayoutIsCovered` |
| | `RefundsWithinDue` | `[]RefundIsWithinDue` |
| `RecordsProofs` | `LatestStands` | `[]LatestResultStands`, of `Kyc` |
| | `NewerJoinStays` | `[]NewerJoinSurvives`, of `Emulator` |
| | `StaleShared` | `[]StaleOnlyIfShared`, of `Emulator` |
| | `UniqueKeys` | `[]UniqueKeysHold`, of all three |
| | `PartsRun` | `RecordsSpec` implies the three specifications |
| | `RecordsKept` | all four invariants, of `RecordsSpec` |

The proofs rest on the constants' named assumptions and on nothing else:

* `None` is none of the values it stands beside: of `Call` and `Op` in
  `SellSettlement`, of calls and totals in `StoreLedger`, of quotes and operators
  in `Amounts`, of sockets in `Emulator`;
* the quotes bought are among the quotes; `StoreLedger`'s transactions are
  finitely many numbers, ordered by age, and a call that creates one gives it
  an id that no other has;
* in `Amounts`, amounts are whole numbers of 1/`Scale`, rates of 1/`RateScale`,
  fees of 1/`FeeScale` (`NumbersAssumption`, `RatesAssumption`,
  `BodyAssumption`), each scale as fine as one likes: with 100 and 1000 they
  hold every rate and fee of `localExchangeRates`. Rates are positive, as the
  table has them, a fee is no gift, and `NaN` is no integer;
* market prices are positive (`MarketsAssumption`);
* `LimitsAssumption`: limits are positive, and a step of 1/`Scale` is so small
  that what one division loses is less than what the provider charges for the
  smallest sale. The code computes with doubles, whose steps are far smaller.

Two theorems have a hypothesis on the network. `CompleteWasPaid` is about the
EVM chains: over Lightning any HTTP 200 counts as a payment, and the property
is false. `RefundedWasSent` leaves out Starknet, where a hash may be that of a
transaction that was not executed.

*TransferCreation.* None of the properties is inductive: they speak of stored
orders, answers and collections, while what a step may rely on is how far its
request has got. The invariant `Inv` adds that. `Local(r)` says of one request,
by its `pc`, which documents it must have stored by now (`Owned`), that transfer
and order carry its own quote (`Linked`), that the references on both agree
(`Referred`), and that collections and customers pointing at it came late enough
(`Outlives`). `Unique` says that no two requests have a transfer for one quote,
which the index check of `SaveTransfer` preserves. The proof splits accordingly:
`OthersSame` (a step of `r` changes no other request's documents, `used` only
grows) gives `SameKeepsLocal`, `StepKeepsLocal` has a case per action of `r`
itself, `StepKeepsUnique` has only `SaveTransfer` to worry about. `FullInv` goes
on to what comes after a failure: an event is sent only where the answer is
already bound to be a refusal (`Told`); a key in Redis stays, and a late retry
has one (`Keyed`, `Retried`). In the refinement the claim of a quote is
`SaveTransfer`, its collection `Deposit` or `OffRamp`, its use `SaveQuote`, and
its acceptance the last save of a handler; every other action leaves all four
variables of `QuoteClaim` as they are (`Stutters`).

*Settlement.* A handler acts on a copy it read several awaits ago, so each
invariant says what the copy is still good for. For `MirrorsOrder`, whatever a
call carries to the transfer (`mem[c].target`) is already among the recorded
`facts`, which only grow. For `OnePays`, `Exclusive` and `Engaged` say that
while neither `raced` nor `reopened` holds, a call past its claim is the only
one, and the order stays claimed after it paid. `Justified` follows a refund
back to the withdrawal that failed; it needs that withdrawals that failed stay
failed, and that each await of a refunding handler is reached only with such a
withdrawal or by a misrouted callback. `CryptoNeedsFiat` is alike: `payOut` is reached
only with Kotani's word that the fiat is there (`Funds`). A poll's copy may be
old, but an order that has left INITIATED never returns to it (`Polls`).
`CompleteWasPaid` and `RefundedWasSent` follow the failure object: no call gets
past the save that it makes fail, so a call beyond it has paid.

*CryptoPayout.* The await tells the network: only a call on a chain is ever in
the pool, and a Lightning call moves nothing before it pays (`Placed`); what it
answered fits what moved (`Answered`), and `moved` only grows. For nonces the
invariant is that no transaction a call knew of and a node still holds has its
nonce, so one that has it now was sent since (`Apart`). That a pending nonce exists at all
is `PendingIsFree`: a finite pool does not fill an interval longer than itself.

*StoreLedger.* The header of `StoreLedgerProofs` says it: a webhook call holds
its transaction from the look to the mark, and a second call finds the
transaction unmarked only in between, or when the first was cut (`Pairwise`).
For the totals, `Booked` ties the saved records to how far their calls are, and
`Wrote` are those whose call is past its write. As long as nothing is
`disturbed`, one call at a time is between its look and its write, and holds
what is stored (`Current`); so each write adds one to the first total and one
member to `Wrote` (`ExactInv`), and the calls that still owe theirs are the
rest of `saved`. Without that hypothesis updates are lost and several totals
are stored, and the theorem is that nothing is counted twice. The invariant
names for each stored total, and for each total a call has read, the set of
records it counts (`Counts`): the sets of stored totals are disjoint, and a
copy is disjoint from all but the first, to which alone it can be written back
because ids are unique (`IdsInv`). The sum, a fold over the records, is then the
size of the union (`SumOfTotals`). The library's induction is out of reach, but
its well-founded order of finite sets is not: the function that counts unions
solves the fold's equation, and a least set on which the fold differs from it
cannot be.

*Amounts.* The invariant follows a number through the records: a public quote
is as the helper priced it for its body (`Priced`), transaction and order copy
it (`Copied`), and each leg moves what its kind takes from them (`LegFits`).
The four theorems are then arithmetic about the helper's operators, whose only
hard part is division: each lemma says what one rounding loses. A sale asked in
crypto loses nothing that matters; one asked in fiat rounds the crypto due
down, and is covered because the provider's charge on the smallest sale exceeds
that loss. NaN stays in the quotes of the FiatConnect routes: such a quote
names no `amountPaid`, so the casts refuse the order a public handler would
make of it. The first proof attempt failed on a request for bitcoin over a
chain, which the code refuses and the model allowed: `AllowedAsset` is that
guard, `validateAsset`. An invoice is asked for and moves nothing, so it is the
one leg that may be of `NaN`.

*OlderTransfers.* `Asked(c)` ties the await of a call to the handler it runs,
`Wrote(c)` to the records it must have saved by then, and `Between` says that
two calls between the same look and its write, or one there and one whose
record it did not find, are in `overlaps`.

*Records: Kyc.* For a user none of whose webhooks crossed or was lost (`Alone`), at most
one is under way, the record it found is still the record there is, and the
latest result is the one it carries. Then whichever write it takes leaves that,
and a deletion, which crosses every webhook under way, sets record and latest
result back together.

*Records: Emulator.* `FromJoins`: what the registry names was joined. A disconnect
removes the entry of one user of the socket; if another entry of it is left,
the two joins are the trace `StaleOnlyIfShared` asks for.

*Records: keys.* Each handler looks, and saves in a later step. What a look
found says nothing by then; it is the collections' unique indexes at the save
that keep `UniqueKeysHold`. The document number, empty at first, is the
delicate one: a record is made only while every other has its number, and a run
fills in that of the user it queried, if it still has its record (`RunsName`).

Every inductive invariant was first checked by TLC on the instance of its run;
`CountedInv`, which quantifies over functions, on one with four of the handlers.

Every invariant and action property that a run checks is a theorem. Only
model-checked is liveness, `VerifiedIsFilled`: it rests on fairness, and the
prover has no ENABLED. The sums of `StoreLedger` are proved as
described; what the operators of `Pricing` compute is not recursive.

## What is not modelled

* Callbacks that `activeOrderId` sends to an order of the other type: a
  deposit callback served for a SELL order, a withdraw callback for a BUY order.
  Each settlement module has the handlers written for its order type.
* Kotani is assumed to send a reference with a deposit it reports as started.
* A SELL order whose network PayCrest serves directly is paid by the user's own
  transfer to PayCrest's address; /tx then takes the mobile-money branch, which
  is the `momo` channel.
* The Lightning invoice kept in a module-level map (`public/transfer.ts:767`):
  a status request shows whichever was made last. It is stored nowhere and no
  other state depends on it.
* Of the KYC handlers of the FiatConnect routes, the creation is always refused
  (the handler makes objects where `KYCModel` has strings) and the status query
  reads only, as does `publicKYCStatus`; the deletion is in `Kyc`.
* `getPlatformRates` and `getExchangeRate` price as the quote handlers do, answer
  and save nothing.
* The chain listeners of `events/onchain.ts` use the provider classes of ethers
  5 and cannot run under the installed version 6; `payCrestPayCrypto`, and
  several copies of the quote handlers, are not routed or called from anywhere.
* SIWE login: one session and one nonce with a lifetime, in front of the
  transfers, changing none of their records. Rate tables, schemas, routing and
  scripts are data and wiring. The client library keeps no state.
* Listing handlers, bank lookups, notifications: they change no state that
  another handler reads. Gas estimates, addresses and the wording of answers.

## Plan

1. *(done)* acceptance, both settlements, first theorems.
2. *(done)* payouts and their contract, pricing and amounts, older routes,
   store ledger, KYC, emulator and applications; theorems about the older
   routes, payouts, KYC and the registry.
3. *(done)* proofs of both settlements and their refinement of `OrderMirror`,
   of the rest of acceptance and its refinement of `QuoteClaim`, of nonces, and
   of the ledger's webhook and keys.
4. *(done)* proofs about the amounts, for every rate and limit, about unique
   keys, and about the ledger's totals: every safety property of a run.
