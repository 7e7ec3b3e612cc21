------------------------------- MODULE Amounts -------------------------------
(***************************************************************************)
(* What the amounts of a quote become on their way to money.               *)
(*                                                                         *)
(* A quote is priced by one of three generations of handlers, all writing  *)
(* to QuoteModel, and is then accepted by any of the transfer handlers,    *)
(* which copy its amounts to a TransactionModel and an OrdersModel record; *)
(* the settlement handlers move money by what they find there.  Here each  *)
(* handler runs alone: TransferCreation, SellSettlement and BuySettlement  *)
(* have the interleavings, which change who acts and never how much.       *)
(* getPlatformRates and getExchangeRate price, answer and save nothing.    *)
(***************************************************************************)
EXTENDS Pricing, FiniteSets

CONSTANTS
    Quote,                  \* quotes that may be created
    None,
    Body,                   \* what a client asks for
    MinMaxFiat,             \* MIN_MAX_FIAT_AMOUNTS: country -> <<min, max>>
    MinMaxCrypto,           \* MIN_MAX_CRYPTO_AMOUNTS
    FlatFiat, FlatCrypto,   \* the limits of the FiatConnect routes
    PausedOnRampCountries, PausedOffRampCountries

ASSUME NoneAssumption == None \notin Quote \cup {"momo", "bank", "older"}

ASSUME BodyAssumption ==
    \A b \in Body : /\ b.country \in DOMAIN LocalExchangeRates
                    /\ {b.fiatAmount, b.cryptoAmount} \subseteq Int

\* The steps of Scale are small enough that what a division loses is less
\* than what the provider charges for the smallest sale.
ASSUME LimitsAssumption ==
    \A c \in DOMAIN LocalExchangeRates :
      /\ {MinMaxFiat[c][1], MinMaxCrypto[c][1]} \subseteq Nat \ {0}
      /\ LocalExchangeRates[c].selling <=
            ((MinMaxFiat[c][1] * LocalExchangeRates[c].kotaniSellingRate)
               \div FeeScale) * RateScale

VARIABLES
    quotes,        \* QuoteModel, with the body each was asked by
    transfers,     \* quote -> operator of its TransferModel record
    transactions,  \* quote -> amounts of its TransactionModel record
    orders,        \* quote -> amounts of its OrdersModel record
    legs           \* amounts of money that moved, or were asked for

vars == <<quotes, transfers, transactions, orders, legs>>

\* Number() of a field the record lacks is NaN.
Number(field) == IF field = Absent THEN NaN ELSE field

TransferType == {"TransferIn", "TransferOut"}
Kind == {"collect", "send", "invoice", "offRamp", "payout", "forward",
         "refund", "callbackRefund"}
Amount == Int \cup {NaN}

TypeOK ==
    /\ DOMAIN quotes = Quote
    /\ \A q \in Quote : quotes[q] # None =>
         /\ quotes[q].body \in Body
         /\ quotes[q].transferType \in TransferType
         /\ {quotes[q].fiatAmount, quotes[q].cryptoAmount, quotes[q].fee,
             quotes[q].amountPaid, quotes[q].providerAmount} \subseteq Amount
    /\ DOMAIN transfers = Quote
    /\ DOMAIN transactions = Quote /\ DOMAIN orders = Quote
    /\ \A l \in legs : quotes[l.quote] # None /\ l.kind \in Kind

Init ==
    /\ quotes = [q \in Quote |-> None]
    /\ transfers = [q \in Quote |-> None]
    /\ transactions = [q \in Quote |-> None]
    /\ orders = [q \in Quote |-> None]
    /\ legs = {}

-----------------------------------------------------------------------------
(* The public API's quotes                                                 *)

\* validateAsset: allowedAssets has bitcoin on lightning, nothing else there.
AllowedAsset(b) == b.cryptoType = "BTC" <=> b.network = "lightning"

\* A country's limits hold for the amount asked; bitcoin has no maximum.
WithinLimits(b) ==
    /\ Truthy(b.cryptoAmount) =>
         /\ b.cryptoAmount >= MinMaxCrypto[b.country][1]
         /\ b.cryptoType # "BTC" =>
              b.cryptoAmount <= MinMaxCrypto[b.country][2]
    /\ Truthy(b.fiatAmount) =>
         /\ b.fiatAmount >= MinMaxFiat[b.country][1]
         /\ b.fiatAmount <= MinMaxFiat[b.country][2]

ChargeFee(b, rates) ==
    IF b.cryptoType = "BTC" THEN rates.feeFiat ELSE rates.feeUsd

AmountPaid(b) == IF Truthy(b.fiatAmount) THEN b.fiatAmount ELSE b.cryptoAmount

RequestType(b) == IF Truthy(b.fiatAmount) THEN "fiat" ELSE "crypto"

Save(q, quote) ==
    /\ quotes[q] = None
    /\ quotes' = [quotes EXCEPT ![q] = quote]
    /\ UNCHANGED <<transfers, transactions, orders, legs>>

\* getPublicQuoteOut.
GetPublicQuoteOut(q, b, market) ==
    LET rates == calculatePlatformRatesHelper(b, "selling", market)
    IN  /\ AllowedAsset(b)
        /\ b.country \notin PausedOffRampCountries
        /\ WithinLimits(b)
        /\ rates.success
        /\ Truthy(rates.fiat) /\ Truthy(rates.crypto)
        /\ Truthy(ChargeFee(b, rates))
        /\ Save(q, [body |-> b, source |-> "public",
                    transferType |-> "TransferOut",
                    fiatAmount |-> rates.fiat, cryptoAmount |-> rates.crypto,
                    fee |-> ChargeFee(b, rates), amountPaid |-> AmountPaid(b),
                    providerAmount |-> rates.payout,
                    requestType |-> RequestType(b)])

\* getPublicQuoteIn: requestType is left to the schema's default, and the
\* provider's amount is not kept.
GetPublicQuoteIn(q, b, market) ==
    LET rates == calculatePlatformRatesHelper(b, "buying", market)
    IN  /\ AllowedAsset(b)
        /\ b.country \notin PausedOnRampCountries
        /\ WithinLimits(b)
        /\ rates.success
        /\ Truthy(rates.fiat) /\ Truthy(rates.crypto)
        /\ Truthy(ChargeFee(b, rates))
        /\ Save(q, [body |-> b, source |-> "public",
                    transferType |-> "TransferIn",
                    fiatAmount |-> rates.fiat, cryptoAmount |-> rates.crypto,
                    fee |-> ChargeFee(b, rates), amountPaid |-> AmountPaid(b),
                    providerAmount |-> Absent, requestType |-> "fiat"])

-----------------------------------------------------------------------------
(* FiatConnect's quotes: flat limits, and no order type for the helper, so *)
(* the rate is undefined                                                   *)

WithinFlatLimits(b) ==
    /\ Truthy(b.cryptoAmount) # Truthy(b.fiatAmount)
    /\ b.cryptoType # "BTC"
    /\ Truthy(b.cryptoAmount) => b.cryptoAmount \in FlatCrypto
    /\ Truthy(b.fiatAmount) => b.fiatAmount \in FlatFiat

\* The quote both handlers save, without looking at what the helper found.
FiatConnectQuote(b, type, market) ==
    LET rates == calculatePlatformRatesHelper(b, "none", market)
    IN  [body |-> b, source |-> "fiatConnect", transferType |-> type,
         fiatAmount |-> ToCents(rates.fiat), cryptoAmount |-> rates.crypto,
         fee |-> rates.feeUsd, amountPaid |-> Absent,
         providerAmount |-> Absent, requestType |-> "fiat"]

QuoteInHelperHandler(q, b, market) ==
    WithinFlatLimits(b) /\ Save(q, FiatConnectQuote(b, "TransferIn", market))

QuoteOutHelperHandler(q, b, market) ==
    WithinFlatLimits(b) /\ Save(q, FiatConnectQuote(b, "TransferOut", market))

-----------------------------------------------------------------------------
(* The oldest quotes, at the spot rate and without limits                  *)

\* getQuoteIn saves what was asked; only its answer names the total.
GetQuoteIn(q, b, market) ==
    /\ b.cryptoType # "BTC"
    /\ Save(q, [body |-> b, source |-> "spot", transferType |-> "TransferIn",
                fiatAmount |-> b.fiatAmount, cryptoAmount |-> b.cryptoAmount,
                fee |-> getCurrentExchangeIn(Number(b.fiatAmount),
                                             b.country, market).charge,
                amountPaid |-> Absent, providerAmount |-> Absent,
                requestType |-> "fiat"])

\* getQuoteOut.
GetQuoteOut(q, b, market) ==
    LET spot == getCurrentExchangeOut(Number(b.cryptoAmount), b.country,
                                      market)
    IN  /\ b.cryptoType # "BTC"
        /\ Save(q, [body |-> b, source |-> "spot",
                    transferType |-> "TransferOut",
                    fiatAmount |-> spot.total, cryptoAmount |-> b.cryptoAmount,
                    fee |-> spot.charge, amountPaid |-> Absent,
                    providerAmount |-> Absent, requestType |-> "fiat"])

\* getAssetQuoteIn: "BTCLit"; its fiat amount holds satoshis.
GetAssetQuoteIn(q, b, market) ==
    LET spot == getBTCExchangeIn(Number(b.fiatAmount), b.country, market)
    IN  /\ b.cryptoType = "BTC"
        /\ Save(q, [body |-> b, source |-> "spot",
                    transferType |-> "TransferIn",
                    fiatAmount |-> spot.total, cryptoAmount |-> spot.satsAmount,
                    fee |-> spot.charge, amountPaid |-> Absent,
                    providerAmount |-> Absent, requestType |-> "fiat"])

-----------------------------------------------------------------------------
(* Accepting a quote.  The transfer is saved first; mongoose then refuses  *)
(* to cast NaN, and what follows the refused record is not done            *)

HasNaN(record) == NaN \in {record[f] : f \in DOMAIN record}

\* Mutated form of Accept: the records take any number.
AcceptUncast(q, operator, tx, order, asked, moved) ==
    /\ quotes[q] # None
    /\ transfers[q] = None
    /\ transfers' = [transfers EXCEPT ![q] = operator]
    /\ transactions' = [transactions EXCEPT ![q] = tx]
    /\ orders' = [orders EXCEPT ![q] = order]
    /\ legs' = legs \cup asked \cup IF order = None THEN {} ELSE moved
    /\ UNCHANGED quotes

\* A transfer, then tx, then order, as far as the casts let the handler get;
\* asked is asked for before them, moved after.
Accept(q, operator, tx, order, asked, moved) ==
    /\ quotes[q] # None
    /\ transfers[q] = None
    /\ transfers' = [transfers EXCEPT ![q] = operator]
    /\ transactions' = [transactions EXCEPT ![q] =
                          IF HasNaN(tx) THEN None ELSE tx]
    /\ orders' = [orders EXCEPT ![q] =
                    IF HasNaN(tx) \/ order = None \/ HasNaN(order)
                    THEN None ELSE order]
    /\ legs' = legs \cup asked \cup IF orders'[q] = None THEN {} ELSE moved
    /\ UNCHANGED quotes

\* What publicTransferInHandler and publicTransferOutHandler write.
PublicTx(quote) ==
    [amount |-> Number(quote.cryptoAmount), fiat |-> Number(quote.fiatAmount)]
PublicOrder(quote) ==
    [amount |-> Number(quote.fiatAmount),
     recieves |-> Number(quote.cryptoAmount),
     amountPaid |-> Number(quote.amountPaid)]

Leg(q, kind, amount) == [quote |-> q, kind |-> kind, amount |-> amount]

Settle(q, kind, amount) ==
    /\ legs' = legs \cup {Leg(q, kind, amount)}
    /\ UNCHANGED <<quotes, transfers, transactions, orders>>

\* publicTransferInHandler: Kotani is asked to collect Number(amountPaid).
PublicTransferIn(q) ==
    /\ quotes[q] # None /\ quotes[q].transferType = "TransferIn"
    /\ Accept(q, "momo", PublicTx(quotes[q]), PublicOrder(quotes[q]), {},
              {Leg(q, "collect", Number(quotes[q].amountPaid))})

\* What the invoice a bitcoin sale is paid by may be asked for: whole
\* satoshis, from fiat, or NaN when the price could not be had.
InvoiceAmounts(quote) ==
    {IF sats = NaN THEN NaN ELSE (sats \div Scale) * Scale :
       sats \in convertSatsBTCtoUSD(
                  Number(IF quote.requestType = "fiat" THEN quote.amountPaid
                         ELSE quote.fiatAmount), quote.body.country)}

\* publicTransferOutHandler.  An older quote has no network, hence no
\* address, which TransferModel requires; a bank on a network PayCrest has is
\* ordered at once, for the quoted crypto.
SellStable(q, operator) ==
    LET quote == quotes[q]
    IN  /\ quote.body.cryptoType # "BTC"
        /\ Accept(q, operator, PublicTx(quote), PublicOrder(quote), {},
                  IF operator = "bank" /\ quote.body.network = "base"
                  THEN {Leg(q, "offRamp", Number(quote.cryptoAmount))}
                  ELSE {})

\* The invoice is asked for before anything is saved.  An invoice refused is
\* replaced by a fixed address; a request that fails ends the handler.
SellBitcoin(q, operator) ==
    LET quote == quotes[q]
    IN  /\ quote.body.cryptoType = "BTC"
        /\ transfers[q] = None
        /\ \E amount \in InvoiceAmounts(quote) :
             \/ Accept(q, operator, PublicTx(quote), PublicOrder(quote),
                       {Leg(q, "invoice", amount)}, {})
             \/ Settle(q, "invoice", amount)

PublicTransferOut(q, operator) ==
    /\ quotes[q] # None /\ quotes[q].transferType = "TransferOut"
    /\ quotes[q].source = "public"
    /\ SellStable(q, operator) \/ SellBitcoin(q, operator)

\* createTransferInHelperHandler (FiatConnect).
FiatConnectTransferIn(q) ==
    /\ quotes[q] # None /\ quotes[q].transferType = "TransferIn"
    /\ Accept(q, "older", PublicTx(quotes[q]),
              [amount |-> Number(quotes[q].fiatAmount),
               recieves |-> Number(quotes[q].cryptoAmount)], {}, {})

\* createTransferOutHelperHandler (FiatConnect) and createTransfer: no order.
FiatConnectTransferOut(q) ==
    /\ quotes[q] # None /\ quotes[q].transferType = "TransferOut"
    /\ Accept(q, "older", PublicTx(quotes[q]), None, {}, {})

\* createTransferIn: the fiat amount in every field.
CreateTransferIn(q) ==
    LET fiat == Number(quotes[q].fiatAmount)
    IN  /\ quotes[q] # None /\ quotes[q].transferType = "TransferIn"
        /\ Accept(q, "older", [amount |-> fiat, fiat |-> fiat],
                  [amount |-> fiat, recieves |-> fiat], {}, {})

\* exchangeToUSD and exchangeFromUSD: the platform's charge on top.
exchangeToUSD(fiat, country, market) ==
    LET amount == ToCrypto(fiat, market.usdFiat[country])
    IN  Plus(amount, Share(amount, PlatformCharge))
exchangeFromUSD(crypto, country, market) ==
    LET amount == ToFiat(crypto, market.usdFiat[country])
    IN  Plus(amount, Share(amount, PlatformCharge))

\* createRawTransferInHelperHandler: by the crypto amount if the quote has
\* one, else by the fiat amount, each with a charge on top.
RawTransferIn(q, market) ==
    LET quote == quotes[q]
        byCrypto == quote.cryptoAmount # Absent
        base == IF byCrypto THEN quote.cryptoAmount
                            ELSE Number(quote.fiatAmount)
    IN  /\ quote # None /\ quote.transferType = "TransferIn"
        /\ Accept(q, "older",
             IF byCrypto
             THEN [amount |-> Plus(base, OnePercent(base)),
                   fiat |-> exchangeFromUSD(base, quote.body.country, market)]
             ELSE [amount |-> exchangeToUSD(base, quote.body.country, market),
                   fiat |-> base],
             IF quote.source = "spot" /\ quote.body.cryptoType = "BTC"
             THEN [amount |-> base, recieves |-> Number(quote.fiatAmount)]
             ELSE [amount |-> Plus(base, Share(base, PlatformCharge)),
                   recieves |-> base], {}, {})

-----------------------------------------------------------------------------
(* Settling                                                                *)

Moved(q, kind) == \E l \in legs : l.quote = q /\ l.kind = kind

\* A paid BUY order is sent order.recieves.
SendCrypto(q) ==
    /\ Moved(q, "collect") /\ ~Moved(q, "send")
    /\ Settle(q, "send", orders[q].recieves)

\* checkOnChainTransaction, for a chain it can look a transaction up on.
Settleable(q, operator) ==
    /\ orders[q] # None
    /\ quotes[q].transferType = "TransferOut"
    /\ quotes[q].body.network # "lightning"
    /\ ~\E k \in {"payout", "forward"} : Moved(q, k)
    /\ operator = transfers[q]

\* Mutated form of PayoutAmount: rounded up to the next unit.
PayoutAmountRoundedUp(quote) ==
    Plus(ToUnits(Number(quote.providerAmount)), Scale)

\* The amount Kotani is told to pay out; Kenya's without decimals.
PayoutAmount(quote) ==
    IF quote.body.country = "KE" THEN ToUnits(Number(quote.providerAmount))
                                 ELSE Number(quote.providerAmount)

\* Mobile money, and also a bank order on a network PayCrest has.
SendMomo(q) ==
    /\ \E operator \in {"momo", "bank"} :
         /\ Settleable(q, operator)
         /\ operator = "bank" => quotes[q].body.network = "base"
    /\ Settle(q, "payout", PayoutAmount(quotes[q]))

\* A bank on another network: USDC on base to the address PayCrest gives.
ForwardToBank(q) ==
    /\ Settleable(q, "bank") /\ quotes[q].body.network # "base"
    /\ Settle(q, "forward", Number(quotes[q].amountPaid))

\* Mutated form of RefundAmount: what the user typed, whatever its currency.
RefundAmountAsTyped(quote) == Number(quote.amountPaid)

\* What publicTxHandler sends back to the user once the payout has failed;
\* it marks the order refunded.
RefundAmount(quote) ==
    IF quote.requestType = "crypto" THEN Number(quote.amountPaid)
                                    ELSE ToCents(Number(quote.cryptoAmount))

Refund(q) ==
    /\ Moved(q, "payout") /\ ~Moved(q, "refund")
    /\ Settle(q, "refund", RefundAmount(quotes[q]))

\* What kotaniPayWithdrawCallback sends back: order.recieves, whatever the
\* quote was asked in.  It does not mark the order, so that Refund may follow.
CallbackRefund(q) ==
    /\ Moved(q, "payout") /\ ~Moved(q, "refund")
    /\ Settle(q, "callbackRefund", orders[q].recieves)

-----------------------------------------------------------------------------
Next ==
    \/ \E q \in Quote, b \in Body, m \in Markets :
         \/ GetPublicQuoteOut(q, b, m) \/ GetPublicQuoteIn(q, b, m)
         \/ QuoteInHelperHandler(q, b, m) \/ QuoteOutHelperHandler(q, b, m)
         \/ GetQuoteIn(q, b, m) \/ GetQuoteOut(q, b, m)
         \/ GetAssetQuoteIn(q, b, m)
    \/ \E q \in Quote :
         \/ PublicTransferIn(q)
         \/ \E o \in {"momo", "bank"} : PublicTransferOut(q, o)
         \/ FiatConnectTransferIn(q) \/ FiatConnectTransferOut(q)
         \/ CreateTransferIn(q) \/ \E m \in Markets : RawTransferIn(q, m)
         \/ SendCrypto(q) \/ SendMomo(q) \/ ForwardToBank(q)
         \/ Refund(q) \/ CallbackRefund(q)

Spec == Init /\ [][Next]_vars

-----------------------------------------------------------------------------
(* Properties                                                              *)

IsPublic(q) == quotes[q] # None /\ quotes[q].source = "public"
AskedIn(q) == RequestType(quotes[q].body)
Asked(q) == AmountPaid(quotes[q].body)
Rate(q, side) == IF side = "buying"
                 THEN LocalExchangeRates[quotes[q].body.country].buying
                 ELSE LocalExchangeRates[quotes[q].body.country].selling
IsStable(q) == quotes[q].body.cryptoType # "BTC"

\* The crypto a seller has to send for the order to be paid: the amount asked
\* for, if it was asked in crypto, else the amount the quote names.
Due(q) == IF AskedIn(q) = "crypto" THEN Asked(q) ELSE quotes[q].cryptoAmount

Of(kind) == {l \in legs : l.kind = kind}

\* No amount that is not a number reaches a transaction, an order, or a
\* transfer of money, though quotes that hold NaN are saved and accepted, and
\* though publicTransferOutHandler asks for an invoice of NaN satoshis when
\* it cannot have the bitcoin price.
NaNMovesNothing ==
    /\ \A l \in legs : l.kind # "invoice" => l.amount # NaN
    /\ \A q \in Quote : /\ transactions[q] # None => ~HasNaN(transactions[q])
                        /\ orders[q] # None => ~HasNaN(orders[q])

\* A stable coin bought by a fiat amount is paid for: the fiat collected is at
\* least what the crypto sent is worth at the buying rate, so that no fee is
\* the platform's to pay.  (Asked in crypto it is not: the number of coins is
\* collected in fiat.)
FiatBuyIsCovered ==
    \A s \in Of("send"), c \in Of("collect") :
        s.quote = c.quote /\ AskedIn(s.quote) = "fiat" /\ IsStable(s.quote) =>
            c.amount * RateScale >= s.amount * Rate(s.quote, "buying")

\* A mobile money payout is never more than the crypto due for it is worth at
\* the selling rate, up to Kenya's rounding to whole shillings.
SellPayoutIsCovered ==
    \A l \in Of("payout") :
        l.amount * RateScale <= Due(l.quote) * Rate(l.quote, "selling")
                                  + (Scale \div 2) * RateScale

\* publicTxHandler refunds what was asked for or quoted, the callback what the
\* order says is received.  Neither gives back more than the seller had to
\* send, nor less than what the quote left of it after the fees, to half a
\* cent, whichever currency the user had asked in.
RefundIsWithinDue ==
    \A l \in Of("refund") \cup Of("callbackRefund") :
        /\ l.amount <= Due(l.quote) + Scale \div 200
        /\ l.amount >= quotes[l.quote].cryptoAmount - Scale \div 200

\* A comment on the quote's amountPaid says it is what the user pays, in fiat
\* or in crypto: the crypto forwarded to PayCrest is no more than what the
\* user was to send.
ForwardIsWhatWasDue ==
    \A l \in Of("forward") : l.amount <= Due(l.quote)
=============================================================================
