------------------------------ MODULE AmountsProofs -----------------------------
(***************************************************************************)
(* Proofs about Amounts, for any rates and fees with as many fraction      *)
(* digits as RateScale and FeeScale give, any limits and market prices,    *)
(* and any bodies a client sends.                                          *)
(***************************************************************************)
EXTENDS Amounts, TLAPS

-----------------------------------------------------------------------------
(***************************************************************************)
(* Arithmetic.                                                             *)
(***************************************************************************)
LEMMA Division ==
    ASSUME NEW a \in Int, NEW d \in Nat \ {0}
    PROVE  /\ a \div d \in Int
           /\ (a \div d) * d <= a
           /\ a < (a \div d) * d + d
           /\ a >= 0 => a \div d >= 0
OBVIOUS

LEMMA DivisionGrows ==
    ASSUME NEW a \in Int, NEW b \in Int, a <= b, NEW d \in Nat \ {0}
    PROVE  a \div d <= b \div d
OBVIOUS

LEMMA ProductGrows ==
    ASSUME NEW a \in Int, NEW b \in Int, a <= b, NEW n \in Nat
    PROVE  a * n <= b * n /\ a * n \in Int
OBVIOUS

LEMMA ProductOfNaturals ==
    ASSUME NEW a \in Nat, NEW b \in Nat
    PROVE  a * b \in Nat
OBVIOUS

\* What the operations are on numbers, and that NaN comes of nothing else.
LEMMA OnNumbers ==
    ASSUME NEW a \in Int, NEW b \in Int
    PROVE  /\ Plus(a, b) = a + b /\ Plus(a, b) \in Int
           /\ Minus(a, b) = a - b /\ Minus(a, b) \in Int
           /\ Times(a, b) = a * b /\ Times(a, b) \in Int
           /\ b > 0 => Over(a, b) = a \div b /\ Over(a, b) \in Int
           /\ Truthy(a) <=> a # 0
BY NumbersAssumption DEF Plus, Minus, Times, Over, Truthy

LEMMA ScaledOnNumbers ==
    ASSUME NEW a \in Int, NEW b \in Int
    PROVE  /\ Share(a, b) = (a * b) \div FeeScale /\ Share(a, b) \in Int
           /\ ToFiat(a, b) = (a * b) \div RateScale /\ ToFiat(a, b) \in Int
           /\ b > 0 => /\ ToCrypto(a, b) = (a * RateScale) \div b
                       /\ ToCrypto(a, b) \in Int
<1>1. /\ FeeScale \in Int /\ FeeScale > 0
      /\ RateScale \in Int /\ RateScale > 0
    BY NumbersAssumption
<1> DEFINE product == a * b
           scaled == a * RateScale
<1>2. /\ Times(a, b) = product /\ product \in Int
      /\ Times(a, RateScale) = scaled /\ scaled \in Int
    BY <1>1, OnNumbers
<1> HIDE DEF product, scaled
<1>3. /\ Over(product, FeeScale) = product \div FeeScale
      /\ Over(product, FeeScale) \in Int
      /\ Over(product, RateScale) = product \div RateScale
      /\ Over(product, RateScale) \in Int
      /\ b > 0 => /\ Over(scaled, b) = scaled \div b
                  /\ Over(scaled, b) \in Int
    BY <1>1, <1>2, OnNumbers
<1> QED
    BY <1>2, <1>3 DEF Share, ToFiat, ToCrypto, product, scaled

LEMMA ShareOfNatural ==
    ASSUME NEW a \in Nat, NEW p \in Nat
    PROVE  Share(a, p) \in Nat
<1> DEFINE product == a * p
<1>1. product \in Nat
    BY ProductOfNaturals
<1>2. Share(a, p) = product \div FeeScale
    BY ScaledOnNumbers
<1> HIDE DEF product
<1>3. product \div FeeScale \in Int /\ product \div FeeScale >= 0
    BY <1>1, NumbersAssumption, Division
<1> QED
    BY <1>2, <1>3

LEMMA ShareGrows ==
    ASSUME NEW a \in Int, NEW b \in Int, a <= b, NEW p \in Nat
    PROVE  /\ (a * p) \div FeeScale <= Share(b, p)
           /\ (a * p) \div FeeScale \in Int /\ Share(b, p) \in Int
<1>1. a * p \in Int /\ b * p \in Int /\ a * p <= b * p
    BY ProductGrows
<1> DEFINE small == a * p
           large == b * p
<1>2. Share(b, p) = large \div FeeScale
    BY ScaledOnNumbers
<1>3. small \in Int /\ large \in Int /\ small <= large
    BY <1>1
<1> HIDE DEF small, large
<1>4. /\ small \div FeeScale \in Int /\ large \div FeeScale \in Int
      /\ small \div FeeScale <= large \div FeeScale
    BY <1>3, NumbersAssumption, DivisionGrows, Division
<1> QED
    BY <1>2, <1>4 DEF small

\* Rounding moves an amount by half a step at most.
LEMMA Rounds ==
    ASSUME NEW a \in Int, NEW step \in Nat \ {0}
    PROVE  /\ RoundTo(a, step) \in Int
           /\ RoundTo(a, step) <= a + step \div 2
           /\ RoundTo(a, step) >= a - step \div 2
<1> DEFINE half == step \div 2
<1>1. half \in Nat /\ 2 * half <= step /\ step <= 2 * half + 1
    OBVIOUS
<1> HIDE DEF half
<1> DEFINE up == a + half
<1>2. /\ up \div step \in Int
      /\ (up \div step) * step <= up
      /\ up < (up \div step) * step + step
    BY <1>1, Division
<1>3. RoundTo(a, step) = (up \div step) * step
    BY NumbersAssumption DEF RoundTo, half
<1> DEFINE rounded == (up \div step) * step
<1>4. rounded \in Int
    BY <1>2
<1>5. RoundTo(a, step) = rounded /\ rounded <= up /\ up < rounded + step
    BY <1>2, <1>3
<1> HIDE DEF rounded
<1>6. rounded <= a + half /\ rounded >= a - half
    BY <1>1, <1>4, <1>5
<1> QED
    BY <1>4, <1>5, <1>6 DEF half

-----------------------------------------------------------------------------
(***************************************************************************)
(* What the helper answers a body with, when a side is named: numbers.     *)
(***************************************************************************)
Sides == {"buying", "selling"}

AreNumbers(rates) == {rates.fiat, rates.crypto, rates.payout,
                      rates.feeFiat, rates.feeUsd} \subseteq Int

\* What the tables and the market hold for the country of a body.
LEMMA Tables ==
    ASSUME NEW b \in Body, NEW t \in Sides
    PROVE  LET r == LocalExchangeRates[b.country]
           IN  /\ {b.fiatAmount, b.cryptoAmount} \subseteq Int
               /\ b.country \in DOMAIN LocalExchangeRates
               /\ RateOf(b.country, t) \in Nat \ {0}
               /\ ProviderPercent(b.country, t) \in Nat
               /\ r.feeRate \in Nat /\ r.kotaniSellingRate \in Nat
<1>1. /\ b.country \in DOMAIN LocalExchangeRates
      /\ {b.fiatAmount, b.cryptoAmount} \subseteq Int
    BY BodyAssumption
<1> DEFINE r == LocalExchangeRates[b.country]
<1>2. /\ {r.buying, r.selling} \subseteq Nat \ {0}
      /\ {r.feeRate, r.kotaniBuyingRate, r.kotaniSellingRate} \subseteq Nat
    BY <1>1, RatesAssumption
<1>3. RateOf(b.country, t) \in Nat \ {0}
    BY <1>2 DEF RateOf, Sides
<1>4. ProviderPercent(b.country, t) \in Nat
    BY <1>2 DEF ProviderPercent, Sides
<1> QED
    BY <1>1, <1>2, <1>3, <1>4

LEMMA MarketRate ==
    ASSUME NEW b \in Body, NEW m \in Markets
    PROVE  /\ Share(m.usdFiat[b.country], PercentageRate) \in Nat \ {0}
           /\ m.btcUsd \in Nat \ {0}
<1>1. b.country \in DOMAIN LocalExchangeRates
    BY BodyAssumption
<1>2. PICK u \in Nat : /\ u = m.usdFiat[b.country]
                       /\ (u * PercentageRate) \div FeeScale > 0
    BY <1>1, MarketsAssumption
<1>3. PercentageRate \in Int
    BY NumbersAssumption
<1>4. /\ Share(u, PercentageRate) = (u * PercentageRate) \div FeeScale
      /\ Share(u, PercentageRate) \in Int
    BY <1>3, ScaledOnNumbers
<1>5. m.btcUsd \in Nat \ {0}
    BY MarketsAssumption
<1> QED
    BY <1>2, <1>4, <1>5

LEMMA BtcRatesAreNumbers ==
    ASSUME NEW b \in Body, NEW m \in Markets
    PROVE  AreNumbers(BtcRates(b, m)) /\ BtcRates(b, m).success = TRUE
<1> DEFINE rate == Share(m.usdFiat[b.country], PercentageRate)
           price == m.btcUsd
<1>1. /\ rate \in Int /\ rate > 0 /\ price \in Int /\ price > 0
      /\ b.fiatAmount \in Int /\ b.cryptoAmount \in Int
    BY MarketRate, BodyAssumption
<1>2. /\ SatsPerBtc \in Int /\ SatsPerBtc > 0 /\ PlatformCharge \in Int
    BY NumbersAssumption
<1> HIDE DEF rate, price
<1>3. CASE Truthy(b.cryptoAmount)
  <2> DEFINE fee == Share(b.cryptoAmount, PlatformCharge)
             received == Minus(b.cryptoAmount, fee)
  <2>1. fee \in Int
      BY <1>1, <1>2, ScaledOnNumbers
  <2>2. received \in Int
      BY <1>1, <2>1, OnNumbers
  <2> HIDE DEF fee, received
  <2>3. SatsToFiat(received, rate, m) \in Int
    <3>1. Times(received, price) \in Int
        BY <1>1, <2>2, OnNumbers
    <3>2. Over(Times(received, price), SatsPerBtc) \in Int
        BY <1>2, <3>1, OnNumbers
    <3> QED
        BY <1>1, <3>2, ScaledOnNumbers DEF SatsToFiat, price
  <2>4. ToCrypto(Times(fee, price), rate) \in Int
    <3>1. Times(fee, price) \in Int
        BY <1>1, <2>1, OnNumbers
    <3> QED
        BY <1>1, <3>1, ScaledOnNumbers
  <2>5. BtcRates(b, m) =
          [success |-> TRUE, rate |-> rate, crypto |-> received,
           fiat |-> SatsToFiat(received, rate, m),
           feeFiat |-> ToCrypto(Times(fee, price), rate),
           feeUsd |-> fee, payout |-> Absent]
      BY <1>3 DEF BtcRates, rate, price, fee, received
  <2> QED
      BY <2>1, <2>2, <2>3, <2>4, <2>5 DEF AreNumbers, Absent
<1>4. CASE ~Truthy(b.cryptoAmount)
  <2> DEFINE fee == Share(b.fiatAmount, PlatformCharge)
             received == Minus(b.fiatAmount, fee)
  <2>1. fee \in Int
      BY <1>1, <1>2, ScaledOnNumbers
  <2>2. received \in Int
      BY <1>1, <2>1, OnNumbers
  <2> HIDE DEF fee, received
  <2>3. FiatToSats(received, rate, m) \in Int
    <3>1. ToCrypto(received, rate) \in Int
        BY <1>1, <2>2, ScaledOnNumbers
    <3>2. Times(ToCrypto(received, rate), SatsPerBtc) \in Int
        BY <1>2, <3>1, OnNumbers
    <3> QED
        BY <1>1, <3>2, OnNumbers DEF FiatToSats, price
  <2>4. ToCrypto(fee, rate) \in Int
      BY <1>1, <2>1, ScaledOnNumbers
  <2>5. BtcRates(b, m) = [success |-> TRUE, rate |-> rate,
                       crypto |-> FiatToSats(received, rate, m),
                       fiat |-> received, feeFiat |-> fee,
                       feeUsd |-> ToCrypto(fee, rate), payout |-> Absent]
      BY <1>4 DEF BtcRates, rate, fee, received
  <2> QED
      BY <2>1, <2>2, <2>3, <2>4, <2>5 DEF AreNumbers, Absent
<1> QED
    BY <1>3, <1>4

\* A stable coin asked for by its own amount.
LEMMA CryptoRates ==
    ASSUME NEW b \in Body, NEW t \in Sides
    PROVE  LET rates == RatesOfCrypto(b, t)
               platform == Share(b.cryptoAmount,
                                 LocalExchangeRates[b.country].feeRate)
               provider == Share(b.cryptoAmount, ProviderPercent(b.country, t))
           IN  /\ AreNumbers(rates) /\ rates.payout = rates.fiat
               /\ platform \in Int /\ provider \in Int
               /\ rates.payout = ((b.cryptoAmount - platform)
                                    * RateOf(b.country, t)) \div RateScale
               /\ rates.crypto = b.cryptoAmount - platform - provider
<1> DEFINE rate == RateOf(b.country, t)
           platform == Share(b.cryptoAmount,
                             LocalExchangeRates[b.country].feeRate)
           provider == Share(b.cryptoAmount, ProviderPercent(b.country, t))
           left == Minus(b.cryptoAmount, platform)
           fees == Plus(platform, provider)
<1>1. /\ rate \in Int /\ b.cryptoAmount \in Int
      /\ ProviderPercent(b.country, t) \in Int
      /\ LocalExchangeRates[b.country].feeRate \in Int
    BY Tables
<1>2. platform \in Int /\ provider \in Int
    BY <1>1, ScaledOnNumbers
<1> HIDE DEF platform, provider
<1>3. left = b.cryptoAmount - platform /\ left \in Int /\ fees \in Int
    BY <1>1, <1>2, OnNumbers
<1>4. RatesOfCrypto(b, t) =
        [success |-> TRUE, rate |-> rate, fiat |-> ToFiat(left, rate),
         payout |-> ToFiat(left, rate), crypto |-> Minus(left, provider),
         feeUsd |-> fees, feeFiat |-> ToFiat(fees, rate)]
    BY DEF RatesOfCrypto, platform, provider
<1> HIDE DEF left, fees, rate
<1>5. /\ ToFiat(left, rate) = (left * rate) \div RateScale
      /\ ToFiat(left, rate) \in Int /\ ToFiat(fees, rate) \in Int
    BY <1>1, <1>3, ScaledOnNumbers
<1>6. Minus(left, provider) = left - provider /\ Minus(left, provider) \in Int
    BY <1>2, <1>3, OnNumbers
<1> QED
    BY <1>2, <1>3, <1>4, <1>5, <1>6 DEF AreNumbers, platform, provider, rate

\* A stable coin asked for by a fiat amount.
LEMMA FiatRates ==
    ASSUME NEW b \in Body, NEW t \in Sides
    PROVE  LET rates == RatesOfFiat(b, t)
               rate == RateOf(b.country, t)
               platform == Share(b.fiatAmount,
                                 LocalExchangeRates[b.country].feeRate)
               provider == Share(b.fiatAmount, ProviderPercent(b.country, t))
               received == b.fiatAmount - platform - provider
           IN  /\ AreNumbers(rates) /\ rates.payout = rates.fiat
               /\ platform \in Int /\ provider \in Int
               /\ rates.crypto = (received * RateScale) \div rate
               /\ t = "selling" => rates.payout = received - provider
<1> DEFINE rate == RateOf(b.country, t)
           platform == Share(b.fiatAmount,
                             LocalExchangeRates[b.country].feeRate)
           provider == Share(b.fiatAmount, ProviderPercent(b.country, t))
           received == Minus(Minus(b.fiatAmount, platform), provider)
           payout == IF t = "buying" THEN Plus(received, provider)
                                     ELSE Minus(received, provider)
           fees == Plus(platform, provider)
<1>1. /\ rate \in Int /\ rate > 0 /\ b.fiatAmount \in Int
      /\ ProviderPercent(b.country, t) \in Int
      /\ LocalExchangeRates[b.country].feeRate \in Int
    BY Tables
<1>2. platform \in Int /\ provider \in Int
    BY <1>1, ScaledOnNumbers
<1> HIDE DEF platform, provider
<1>3. /\ received = b.fiatAmount - platform - provider /\ received \in Int
      /\ fees \in Int
  <2> DEFINE less == Minus(b.fiatAmount, platform)
  <2>1. less = b.fiatAmount - platform /\ less \in Int
      BY <1>1, <1>2, OnNumbers
  <2> HIDE DEF less
  <2>2. /\ Minus(less, provider) = less - provider
        /\ Minus(less, provider) \in Int
      BY <1>2, <2>1, OnNumbers
  <2>3. fees \in Int
      BY <1>2, OnNumbers
  <2> QED
      BY <2>1, <2>2, <2>3 DEF less
<1>4. RatesOfFiat(b, t) =
        [success |-> TRUE, rate |-> rate, fiat |-> payout, payout |-> payout,
         crypto |-> ToCrypto(received, rate), feeFiat |-> fees,
         feeUsd |-> ToCrypto(fees, rate)]
    BY DEF RatesOfFiat, platform, provider
<1> HIDE DEF fees, rate, received
<1>5. payout \in Int /\ (t = "selling" => payout = received - provider)
    BY <1>2, <1>3, OnNumbers DEF Sides
<1> HIDE DEF payout
<1>6. /\ ToCrypto(received, rate) = (received * RateScale) \div rate
      /\ ToCrypto(received, rate) \in Int /\ ToCrypto(fees, rate) \in Int
    BY <1>1, <1>3, ScaledOnNumbers
<1>7. /\ RatesOfFiat(b, t).payout = payout /\ RatesOfFiat(b, t).fiat = payout
      /\ RatesOfFiat(b, t).crypto = (received * RateScale) \div rate
      /\ RatesOfFiat(b, t).feeFiat = fees
      /\ RatesOfFiat(b, t).feeUsd = ToCrypto(fees, rate)
    BY <1>4, <1>6
<1>8. AreNumbers(RatesOfFiat(b, t))
    BY <1>3, <1>5, <1>6, <1>7 DEF AreNumbers
<1> QED
    BY <1>2, <1>3, <1>5, <1>7, <1>8 DEF platform, provider, rate

\* Stable coins have no market price.
StableRates(b, t) == IF Truthy(b.cryptoAmount) THEN RatesOfCrypto(b, t)
                                               ELSE RatesOfFiat(b, t)

\* The helper's three cases, and that it names one amount only.
LEMMA RatesAreNumbers ==
    ASSUME NEW b \in Body, NEW t \in Sides, NEW m \in Markets,
           calculatePlatformRatesHelper(b, t, m).success
    PROVE  LET rates == calculatePlatformRatesHelper(b, t, m)
           IN  /\ AreNumbers(rates)
               /\ Truthy(b.fiatAmount) # Truthy(b.cryptoAmount)
               /\ b.cryptoType # "BTC" => rates = StableRates(b, t)
<1>1. Truthy(b.fiatAmount) # Truthy(b.cryptoAmount)
  <2>1. SUFFICES ASSUME Truthy(b.fiatAmount) = Truthy(b.cryptoAmount)
                 PROVE  FALSE
      OBVIOUS
  <2>2. calculatePlatformRatesHelper(b, t, m) = Failed
      BY <2>1 DEF calculatePlatformRatesHelper
  <2> QED
      BY <2>2 DEF Failed
<1>2. calculatePlatformRatesHelper(b, t, m) =
        IF b.cryptoType = "BTC" THEN BtcRates(b, m)
        ELSE IF Truthy(b.cryptoAmount) THEN RatesOfCrypto(b, t)
                                       ELSE RatesOfFiat(b, t)
    BY <1>1 DEF calculatePlatformRatesHelper
<1>3. /\ AreNumbers(BtcRates(b, m)) /\ AreNumbers(RatesOfCrypto(b, t))
      /\ AreNumbers(RatesOfFiat(b, t))
    BY BtcRatesAreNumbers, CryptoRates, FiatRates
<1> QED
    BY <1>1, <1>2, <1>3 DEF StableRates

-----------------------------------------------------------------------------
(***************************************************************************)
(* The inductive invariant: where every amount that is kept comes from.    *)
(***************************************************************************)
SideOf(type) == IF type = "TransferIn" THEN "buying" ELSE "selling"

\* Only a public quote names what is paid, and it is as the helper priced it.
Priced(quote) ==
    LET b == quote.body
    IN  /\ quote.source # "public" => quote.amountPaid = Absent
        /\ quote.source = "public" =>
             /\ b \in Body /\ AllowedAsset(b) /\ WithinLimits(b)
             /\ quote.amountPaid = AmountPaid(b)
             /\ quote.transferType = "TransferOut" =>
                  quote.requestType = RequestType(b)
             /\ \E m \in Markets :
                  LET rates == calculatePlatformRatesHelper(
                                 b, SideOf(quote.transferType), m)
                  IN  /\ rates.success
                      /\ Truthy(rates.fiat) /\ Truthy(rates.crypto)
                      /\ quote.fiatAmount = rates.fiat
                      /\ quote.cryptoAmount = rates.crypto
                      /\ quote.transferType = "TransferOut" =>
                           quote.providerAmount = rates.payout

QuotesPriced == \A q \in Quote : quotes[q] # None => Priced(quotes[q])

\* The public handlers' records hold the quote's amounts.
Copied(q) ==
    /\ transfers[q] # None => quotes[q] # None
    /\ transactions[q] # None => ~HasNaN(transactions[q])
    /\ orders[q] # None => transfers[q] # None /\ ~HasNaN(orders[q])
    /\ orders[q] # None /\ transfers[q] \in {"momo", "bank"} =>
         /\ IsPublic(q) /\ orders[q] = PublicOrder(quotes[q])

RecordsCopied == \A q \in Quote : Copied(q)

\* What each way to move money moves, for which quotes.  An invoice only
\* asks for money, and may be left by a handler that saved nothing.
Buys == {"collect", "send"}
ForStable == {"payout", "refund", "callbackRefund"}

LegAmount(kind, quote) ==
    CASE kind = "collect" -> Number(quote.amountPaid)
      [] kind = "send" -> Number(quote.cryptoAmount)
      [] kind = "offRamp" -> Number(quote.cryptoAmount)
      [] kind = "payout" -> PayoutAmount(quote)
      [] kind = "forward" -> Number(quote.amountPaid)
      [] kind = "refund" -> RefundAmount(quote)
      [] kind = "callbackRefund" -> Number(quote.cryptoAmount)

LegFits(l, quote) ==
    /\ l.kind \in Kind \ {"invoice"}
    /\ l.amount = LegAmount(l.kind, quote)
    /\ quote.transferType = IF l.kind \in Buys THEN "TransferIn"
                                               ELSE "TransferOut"
    /\ l.kind \in ForStable => quote.body.network # "lightning"

Sound(l) ==
    /\ l.quote \in Quote /\ quotes[l.quote] # None
    /\ l.kind # "invoice" => /\ transfers[l.quote] \in {"momo", "bank"}
                             /\ orders[l.quote] # None
                             /\ LegFits(l, quotes[l.quote])

LegsSound == \A l \in legs : Sound(l)

Domains == /\ DOMAIN quotes = Quote /\ DOMAIN transfers = Quote
           /\ DOMAIN transactions = Quote /\ DOMAIN orders = Quote

AInv == Domains /\ QuotesPriced /\ RecordsCopied /\ LegsSound

-----------------------------------------------------------------------------
(***************************************************************************)
(* The three ways a step writes.                                           *)
(***************************************************************************)
LEMMA SaveStep ==
    ASSUME AInv, NEW q \in Quote, NEW quote, Priced(quote), Save(q, quote)
    PROVE  AInv'
<1>1. /\ quotes[q] = None /\ quotes' = [quotes EXCEPT ![q] = quote]
      /\ UNCHANGED <<transfers, transactions, orders, legs>>
    BY DEF Save
<1>2. /\ Domains /\ \A r \in Quote : r # q => quotes'[r] = quotes[r]
      /\ quotes'[q] = quote /\ DOMAIN quotes' = Quote
    BY <1>1 DEF AInv, Domains
<1>3. transfers[q] = None /\ orders[q] = None
    BY <1>1 DEF AInv, RecordsCopied, Copied
<1>4. Domains'
    BY <1>1, <1>2 DEF Domains
<1>5. QuotesPriced'
    BY <1>2 DEF AInv, QuotesPriced
<1>6. RecordsCopied'
  <2> SUFFICES ASSUME NEW r \in Quote
               PROVE  Copied(r)'
      BY DEF RecordsCopied
  <2>1. Copied(r)
      BY DEF AInv, RecordsCopied
  <2>2. CASE r = q
      BY <1>1, <1>3, <2>1, <2>2 DEF Copied
  <2>3. CASE r # q
    <3>1. quotes'[r] = quotes[r]
        BY <1>2, <2>3
    <3> QED
        BY <1>1, <2>1, <3>1 DEF Copied, IsPublic
  <2> QED
      BY <2>2, <2>3
<1>7. LegsSound'
  <2> SUFFICES ASSUME NEW l \in legs
               PROVE  Sound(l)'
      BY <1>1 DEF LegsSound
  <2>1. Sound(l)
      BY DEF AInv, LegsSound
  <2>2. l.quote # q
      BY <1>1, <2>1 DEF Sound
  <2>3. quotes'[l.quote] = quotes[l.quote]
      BY <1>2, <2>1, <2>2 DEF Sound
  <2> QED
      BY <1>1, <2>1, <2>3 DEF Sound
<1> QED
    BY <1>4, <1>5, <1>6, <1>7 DEF AInv

LEMMA StutterStep ==
    ASSUME AInv, UNCHANGED vars
    PROVE  AInv'
<1>1. UNCHANGED <<quotes, transfers, transactions, orders, legs>>
    BY DEF vars
<1>2. Domains' /\ QuotesPriced'
    BY <1>1 DEF AInv, Domains, QuotesPriced
<1>3. RecordsCopied'
    BY <1>1 DEF AInv, RecordsCopied, Copied, IsPublic
<1>4. LegsSound'
    BY <1>1 DEF AInv, LegsSound, Sound
<1> QED
    BY <1>2, <1>3, <1>4 DEF AInv

\* A transfer is accepted with a public operator only by the handlers that
\* copy a public quote, or whose order the casts refuse.
LEMMA AcceptStep ==
    ASSUME AInv, NEW q \in Quote, NEW operator, NEW tx, NEW order,
           NEW asked, NEW moved,
           Accept(q, operator, tx, order, asked, moved),
           operator # None,
           \A l \in asked : l.quote = q /\ l.kind = "invoice",
           order # None /\ ~HasNaN(order) /\ operator \in {"momo", "bank"} =>
              IsPublic(q) /\ order = PublicOrder(quotes[q]),
           order # None /\ ~HasNaN(order) =>
              \A l \in moved : /\ l.quote = q /\ operator \in {"momo", "bank"}
                               /\ LegFits(l, quotes[q])
    PROVE  AInv'
<1>1. /\ quotes[q] # None /\ transfers[q] = None
      /\ transfers' = [transfers EXCEPT ![q] = operator]
      /\ UNCHANGED quotes
    BY DEF Accept
<1> DEFINE keptTx == IF HasNaN(tx) THEN None ELSE tx
           keptOrder == IF HasNaN(tx) \/ order = None \/ HasNaN(order)
                        THEN None ELSE order
<1>2. /\ transactions' = [transactions EXCEPT ![q] = keptTx]
      /\ orders' = [orders EXCEPT ![q] = keptOrder]
      /\ legs' = legs \cup asked
                   \cup IF orders'[q] = None THEN {} ELSE moved
    BY DEF Accept
<1>3. Domains
    BY DEF AInv
<1>4. /\ transfers'[q] = operator /\ transactions'[q] = keptTx
      /\ orders'[q] = keptOrder
    BY <1>1, <1>2, <1>3 DEF Domains
<1>5. \A r \in Quote : r # q => /\ transfers'[r] = transfers[r]
                                /\ transactions'[r] = transactions[r]
                                /\ orders'[r] = orders[r]
    BY <1>1, <1>2, <1>3 DEF Domains
<1>6. Domains'
    BY <1>1, <1>2, <1>3 DEF Domains
<1>7. keptTx # None => ~HasNaN(keptTx)
    OBVIOUS
<1>8. keptOrder # None =>
        keptOrder = order /\ order # None /\ ~HasNaN(order)
    OBVIOUS
<1> HIDE DEF keptTx, keptOrder
<1>9. QuotesPriced'
    BY <1>1 DEF AInv, QuotesPriced
<1>10. RecordsCopied'
  <2> SUFFICES ASSUME NEW r \in Quote
               PROVE  Copied(r)'
      BY DEF RecordsCopied
  <2>1. CASE r = q
    <3>1. transfers'[q] # None /\ quotes'[q] # None
        BY <1>1, <1>4
    <3>2. transactions'[q] # None => ~HasNaN(transactions'[q])
        BY <1>4, <1>7
    <3>3. orders'[q] # None =>
            orders'[q] = order /\ order # None /\ ~HasNaN(order)
        BY <1>4, <1>8
    <3>4. orders'[q] # None /\ transfers'[q] \in {"momo", "bank"} =>
            IsPublic(q)' /\ orders'[q] = PublicOrder(quotes'[q])
        BY <1>1, <1>4, <3>3 DEF IsPublic
    <3> QED
        BY <2>1, <3>1, <3>2, <3>3, <3>4 DEF Copied
  <2>2. CASE r # q
    <3>1. Copied(r)
        BY DEF AInv, RecordsCopied
    <3> QED
        BY <1>1, <1>5, <2>2, <3>1 DEF Copied, IsPublic
  <2> QED
      BY <2>1, <2>2
<1>11. LegsSound'
  <2> SUFFICES ASSUME NEW l \in legs'
               PROVE  Sound(l)'
      BY DEF LegsSound
  <2>1. CASE l \in legs
    <3>1. Sound(l)
        BY <2>1 DEF AInv, LegsSound
    <3>2. l.kind # "invoice" => l.quote # q
        BY <1>1, <3>1, NoneAssumption DEF Sound
    <3> QED
        BY <1>1, <1>5, <3>1, <3>2 DEF Sound
  <2>2. CASE l \in asked
      BY <1>1, <2>2 DEF Sound
  <2>3. CASE l \notin legs /\ l \notin asked
    <3>1. orders'[q] # None /\ l \in moved
        BY <1>2, <2>3
    <3>2. order # None /\ ~HasNaN(order)
        BY <1>4, <1>8, <3>1
    <3>3. /\ l.quote = q /\ operator \in {"momo", "bank"}
          /\ LegFits(l, quotes[q])
        BY <3>1, <3>2
    <3> QED
        BY <1>1, <1>4, <3>1, <3>3 DEF Sound
  <2> QED
      BY <2>1, <2>2, <2>3
<1> QED
    BY <1>6, <1>9, <1>10, <1>11 DEF AInv

LEMMA SettleStep ==
    ASSUME AInv, NEW q \in Quote, NEW kind, NEW amount,
           Settle(q, kind, amount), Sound(Leg(q, kind, amount))
    PROVE  AInv'
<1>1. /\ legs' = legs \cup {Leg(q, kind, amount)}
      /\ UNCHANGED <<quotes, transfers, transactions, orders>>
    BY DEF Settle
<1>2. Domains' /\ QuotesPriced'
    BY <1>1 DEF AInv, Domains, QuotesPriced
<1>3. RecordsCopied'
    BY <1>1 DEF AInv, RecordsCopied, Copied, IsPublic
<1>4. LegsSound'
  <2> SUFFICES ASSUME NEW l \in legs'
               PROVE  Sound(l)
      BY <1>1 DEF LegsSound, Sound
  <2> QED
      BY <1>1 DEF AInv, LegsSound
<1> QED
    BY <1>2, <1>3, <1>4 DEF AInv

-----------------------------------------------------------------------------
(***************************************************************************)
(* Quotes.                                                                 *)
(***************************************************************************)
LEMMA PublicOutStep ==
    ASSUME AInv, NEW q \in Quote, NEW b \in Body, NEW m \in Markets,
           GetPublicQuoteOut(q, b, m)
    PROVE  AInv'
<1> DEFINE rates == calculatePlatformRatesHelper(b, "selling", m)
           quote == [body |-> b, source |-> "public",
                     transferType |-> "TransferOut",
                     fiatAmount |-> rates.fiat, cryptoAmount |-> rates.crypto,
                     fee |-> ChargeFee(b, rates), amountPaid |-> AmountPaid(b),
                     providerAmount |-> rates.payout,
                     requestType |-> RequestType(b)]
<1>1. /\ AllowedAsset(b) /\ WithinLimits(b) /\ rates.success
      /\ Truthy(rates.fiat) /\ Truthy(rates.crypto)
      /\ Save(q, quote)
    BY DEF GetPublicQuoteOut
<1>2. /\ quote.body = b /\ quote.source = "public"
      /\ SideOf(quote.transferType) = "selling"
      /\ quote.fiatAmount = rates.fiat /\ quote.cryptoAmount = rates.crypto
      /\ quote.amountPaid = AmountPaid(b)
      /\ quote.providerAmount = rates.payout
      /\ quote.requestType = RequestType(b)
    BY DEF SideOf
<1> HIDE DEF quote
<1>3. Priced(quote)
    BY <1>1, <1>2 DEF Priced
<1> QED
    BY <1>1, <1>3, SaveStep

LEMMA PublicInStep ==
    ASSUME AInv, NEW q \in Quote, NEW b \in Body, NEW m \in Markets,
           GetPublicQuoteIn(q, b, m)
    PROVE  AInv'
<1> DEFINE rates == calculatePlatformRatesHelper(b, "buying", m)
           quote == [body |-> b, source |-> "public",
                     transferType |-> "TransferIn",
                     fiatAmount |-> rates.fiat, cryptoAmount |-> rates.crypto,
                     fee |-> ChargeFee(b, rates), amountPaid |-> AmountPaid(b),
                     providerAmount |-> Absent, requestType |-> "fiat"]
<1>1. /\ AllowedAsset(b) /\ WithinLimits(b) /\ rates.success
      /\ Truthy(rates.fiat) /\ Truthy(rates.crypto)
      /\ Save(q, quote)
    BY DEF GetPublicQuoteIn
<1>2. /\ quote.body = b /\ quote.source = "public"
      /\ quote.transferType = "TransferIn"
      /\ SideOf(quote.transferType) = "buying"
      /\ quote.fiatAmount = rates.fiat /\ quote.cryptoAmount = rates.crypto
      /\ quote.amountPaid = AmountPaid(b)
    BY DEF SideOf
<1> HIDE DEF quote
<1>3. Priced(quote)
    BY <1>1, <1>2 DEF Priced
<1> QED
    BY <1>1, <1>3, SaveStep

\* The other generations' quotes name nothing that is paid.
LEMMA OlderQuoteStep ==
    ASSUME AInv, NEW q \in Quote, NEW b \in Body, NEW m \in Markets,
           \/ QuoteInHelperHandler(q, b, m) \/ QuoteOutHelperHandler(q, b, m)
           \/ GetQuoteIn(q, b, m) \/ GetQuoteOut(q, b, m)
           \/ GetAssetQuoteIn(q, b, m)
    PROVE  AInv'
<1>1. \A quote : quote.source # "public" /\ quote.amountPaid = Absent
                   => Priced(quote)
    BY DEF Priced
<1>2. CASE QuoteInHelperHandler(q, b, m) \/ QuoteOutHelperHandler(q, b, m)
  <2>1. PICK type : Save(q, FiatConnectQuote(b, type, m))
      BY <1>2 DEF QuoteInHelperHandler, QuoteOutHelperHandler
  <2>2. Priced(FiatConnectQuote(b, type, m))
      BY <1>1 DEF FiatConnectQuote
  <2> QED
      BY <2>1, <2>2, SaveStep
<1>3. CASE GetQuoteIn(q, b, m)
  <2>1. PICK fee : Save(q,
            [body |-> b, source |-> "spot", transferType |-> "TransferIn",
             fiatAmount |-> b.fiatAmount, cryptoAmount |-> b.cryptoAmount,
             fee |-> fee, amountPaid |-> Absent, providerAmount |-> Absent,
             requestType |-> "fiat"])
      BY <1>3 DEF GetQuoteIn
  <2> QED
      BY <1>1, <2>1, SaveStep
<1>4. CASE GetQuoteOut(q, b, m)
  <2>1. PICK fiat, fee : Save(q,
            [body |-> b, source |-> "spot", transferType |-> "TransferOut",
             fiatAmount |-> fiat, cryptoAmount |-> b.cryptoAmount,
             fee |-> fee, amountPaid |-> Absent, providerAmount |-> Absent,
             requestType |-> "fiat"])
      BY <1>4 DEF GetQuoteOut
  <2> QED
      BY <1>1, <2>1, SaveStep
<1>5. CASE GetAssetQuoteIn(q, b, m)
  <2>1. PICK fiat, crypto, fee : Save(q,
            [body |-> b, source |-> "spot", transferType |-> "TransferIn",
             fiatAmount |-> fiat, cryptoAmount |-> crypto,
             fee |-> fee, amountPaid |-> Absent, providerAmount |-> Absent,
             requestType |-> "fiat"])
      BY <1>5 DEF GetAssetQuoteIn
  <2> QED
      BY <1>1, <2>1, SaveStep
<1> QED
    BY <1>2, <1>3, <1>4, <1>5

-----------------------------------------------------------------------------
(***************************************************************************)
(* Transfers.                                                              *)
(***************************************************************************)
\* Only an order that copies three numbers passes the casts.
LEMMA OrderOfNumbers ==
    ASSUME NEW quote
    PROVE  /\ PublicOrder(quote).amount = Number(quote.fiatAmount)
           /\ PublicOrder(quote).recieves = Number(quote.cryptoAmount)
           /\ PublicOrder(quote).amountPaid = Number(quote.amountPaid)
           /\ ~HasNaN(PublicOrder(quote)) =>
                NaN \notin {Number(quote.fiatAmount),
                            Number(quote.cryptoAmount),
                            Number(quote.amountPaid)}
<1>1. /\ DOMAIN PublicOrder(quote) = {"amount", "recieves", "amountPaid"}
      /\ PublicOrder(quote).amount = Number(quote.fiatAmount)
      /\ PublicOrder(quote).recieves = Number(quote.cryptoAmount)
      /\ PublicOrder(quote).amountPaid = Number(quote.amountPaid)
    BY DEF PublicOrder
<1> QED
    BY <1>1 DEF HasNaN

LEMMA PublicTransferInStep ==
    ASSUME AInv, NEW q \in Quote, PublicTransferIn(q)
    PROVE  AInv'
<1> DEFINE quote == quotes[q]
           order == PublicOrder(quote)
           moved == {Leg(q, "collect", Number(quote.amountPaid))}
<1>1. /\ quote # None /\ quote.transferType = "TransferIn"
      /\ Accept(q, "momo", PublicTx(quote), order, {}, moved)
    BY DEF PublicTransferIn
<1>2. Priced(quote)
    BY <1>1 DEF AInv, QuotesPriced
<1>3. ~HasNaN(order) => quote.source = "public"
  <2> SUFFICES ASSUME quote.source # "public"
               PROVE  HasNaN(order)
      OBVIOUS
  <2>1. Number(quote.amountPaid) = NaN
      BY <1>2 DEF Priced, Number
  <2> QED
      BY <2>1, OrderOfNumbers
<1>4. LegFits(Leg(q, "collect", Number(quote.amountPaid)), quote)
    BY <1>1 DEF LegFits, Leg, LegAmount, Kind, Buys, ForStable
<1>5. \A l \in moved : l.quote = q /\ LegFits(l, quote)
    BY <1>4 DEF Leg
<1>6. ~HasNaN(order) => IsPublic(q) /\ order = PublicOrder(quote)
    BY <1>1, <1>3 DEF IsPublic
<1> HIDE DEF order, moved
<1> QED
    BY <1>1, <1>5, <1>6, AcceptStep, NoneAssumption

LEMMA PublicTransferOutStep ==
    ASSUME AInv, NEW q \in Quote, NEW operator \in {"momo", "bank"},
           PublicTransferOut(q, operator)
    PROVE  AInv'
<1> DEFINE quote == quotes[q]
           order == PublicOrder(quote)
<1>1. /\ quote # None /\ quote.transferType = "TransferOut"
      /\ quote.source = "public"
    BY DEF PublicTransferOut
<1>2. IsPublic(q) /\ order = PublicOrder(quote) /\ operator # None
    BY <1>1, NoneAssumption DEF IsPublic
<1>3. CASE SellStable(q, operator)
  <2> DEFINE leg == Leg(q, "offRamp", Number(quote.cryptoAmount))
             moved == IF operator = "bank" /\ quote.body.network = "base"
                      THEN {leg} ELSE {}
  <2>1. Accept(q, operator, PublicTx(quote), order, {}, moved)
      BY <1>3 DEF SellStable
  <2>2. LegFits(leg, quote)
      BY <1>1 DEF LegFits, Leg, LegAmount, Kind, Buys, ForStable
  <2>3. \A l \in moved : l.quote = q /\ LegFits(l, quote)
      BY <2>2 DEF Leg
  <2> HIDE DEF order, moved
  <2> QED
      BY <1>2, <2>1, <2>3, AcceptStep
<1>4. CASE SellBitcoin(q, operator)
  <2>1. PICK amount :
           \/ Accept(q, operator, PublicTx(quote), order,
                     {Leg(q, "invoice", amount)}, {})
           \/ Settle(q, "invoice", amount)
      BY <1>4 DEF SellBitcoin
  <2> DEFINE leg == Leg(q, "invoice", amount)
  <2>2. leg.quote = q /\ leg.kind = "invoice"
      BY DEF Leg
  <2>3. CASE Settle(q, "invoice", amount)
    <3>1. Sound(leg)
        BY <1>1, <2>2 DEF Sound
    <3> QED
        BY <2>3, <3>1, SettleStep
  <2>4. CASE Accept(q, operator, PublicTx(quote), order, {leg}, {})
    <3>1. \A l \in {leg} : l.quote = q /\ l.kind = "invoice"
        BY <2>2
    <3> HIDE DEF order, leg
    <3> QED
        BY <1>2, <2>4, <3>1, AcceptStep
  <2> QED
      BY <2>1, <2>3, <2>4
<1> QED
    BY <1>3, <1>4 DEF PublicTransferOut

\* The older handlers move no money of their own.
LEMMA OlderTransferStep ==
    ASSUME AInv, NEW q \in Quote,
           \/ FiatConnectTransferIn(q) \/ FiatConnectTransferOut(q)
           \/ CreateTransferIn(q) \/ \E m \in Markets : RawTransferIn(q, m)
    PROVE  AInv'
<1>1. PICK tx, order : Accept(q, "older", tx, order, {}, {})
  <2>1. CASE FiatConnectTransferIn(q)
      BY <2>1 DEF FiatConnectTransferIn
  <2>2. CASE FiatConnectTransferOut(q)
      BY <2>2 DEF FiatConnectTransferOut
  <2>3. CASE CreateTransferIn(q)
      BY <2>3 DEF CreateTransferIn
  <2>4. CASE \E m \in Markets : RawTransferIn(q, m)
      BY <2>4 DEF RawTransferIn
  <2> QED
      BY <2>1, <2>2, <2>3, <2>4
<1> QED
    BY <1>1, AcceptStep, NoneAssumption

-----------------------------------------------------------------------------
(***************************************************************************)
(* Money.                                                                  *)
(***************************************************************************)
LEMMA SendCryptoStep ==
    ASSUME AInv, NEW q \in Quote, SendCrypto(q)
    PROVE  AInv'
<1>1. PICK l \in legs : l.quote = q /\ l.kind = "collect"
    BY DEF SendCrypto, Moved
<1>2. Sound(l)
    BY DEF AInv, LegsSound
<1>3. /\ transfers[q] \in {"momo", "bank"} /\ orders[q] # None
      /\ quotes[q] # None /\ quotes[q].transferType = "TransferIn"
    BY <1>1, <1>2 DEF Sound, LegFits, Buys
<1>4. orders[q] = PublicOrder(quotes[q])
    BY <1>3 DEF AInv, RecordsCopied, Copied
<1>5. orders[q].recieves = Number(quotes[q].cryptoAmount)
    BY <1>4, OrderOfNumbers
<1> DEFINE leg == Leg(q, "send", orders[q].recieves)
<1>6. leg.quote = q /\ leg.kind = "send" /\ leg.amount = orders[q].recieves
    BY DEF Leg
<1>7. Settle(q, "send", orders[q].recieves)
    BY DEF SendCrypto
<1>8. Sound(leg)
  <2> HIDE DEF leg
  <2>1. LegFits(leg, quotes[q])
      BY <1>3, <1>5, <1>6 DEF LegFits, LegAmount, Kind, Buys, ForStable
  <2> QED
      BY <1>3, <1>6, <2>1 DEF Sound
<1> QED
    BY <1>7, <1>8, SettleStep

\* What checkOnChainTransaction may settle.
LEMMA PayOutStep ==
    ASSUME AInv, NEW q \in Quote, NEW operator \in {"momo", "bank"},
           Settleable(q, operator), NEW kind \in {"payout", "forward"},
           NEW amount, amount = LegAmount(kind, quotes[q]),
           Settle(q, kind, amount)
    PROVE  AInv'
<1>1. /\ orders[q] # None /\ quotes[q].transferType = "TransferOut"
      /\ quotes[q].body.network # "lightning" /\ transfers[q] = operator
      /\ quotes[q] # None
    BY DEF Settleable, AInv, RecordsCopied, Copied
<1> DEFINE leg == Leg(q, kind, amount)
<1>2. leg.quote = q /\ leg.kind = kind /\ leg.amount = amount
    BY DEF Leg
<1>3. Sound(leg)
  <2> HIDE DEF leg
  <2>1. LegFits(leg, quotes[q])
      BY <1>1, <1>2 DEF LegFits, Kind, Buys
  <2> QED
      BY <1>1, <1>2, <2>1 DEF Sound
<1> QED
    BY <1>3, SettleStep

\* Once paid out, an order is as the quote has it.
LEMMA PaidOut ==
    ASSUME AInv, NEW q \in Quote, Moved(q, "payout")
    PROVE  /\ transfers[q] \in {"momo", "bank"} /\ orders[q] # None
           /\ quotes[q] # None /\ quotes[q].transferType = "TransferOut"
           /\ quotes[q].body.network # "lightning"
           /\ orders[q].recieves = Number(quotes[q].cryptoAmount)
<1>1. PICK l \in legs : l.quote = q /\ l.kind = "payout"
    BY DEF Moved
<1>2. Sound(l)
    BY DEF AInv, LegsSound
<1>3. /\ transfers[q] \in {"momo", "bank"} /\ orders[q] # None
      /\ quotes[q] # None /\ quotes[q].transferType = "TransferOut"
      /\ quotes[q].body.network # "lightning"
    BY <1>1, <1>2 DEF Sound, LegFits, Buys, ForStable
<1>4. orders[q] = PublicOrder(quotes[q])
    BY <1>3 DEF AInv, RecordsCopied, Copied
<1> QED
    BY <1>3, <1>4, OrderOfNumbers

LEMMA RefundStep ==
    ASSUME AInv, NEW q \in Quote, NEW kind \in {"refund", "callbackRefund"},
           Moved(q, "payout"), Settle(q, kind, LegAmount(kind, quotes[q]))
    PROVE  AInv'
<1> DEFINE leg == Leg(q, kind, LegAmount(kind, quotes[q]))
<1>1. /\ leg.quote = q /\ leg.kind = kind
      /\ leg.amount = LegAmount(kind, quotes[q])
    BY DEF Leg
<1>2. Sound(leg)
  <2> HIDE DEF leg
  <2>1. LegFits(leg, quotes[q])
      BY <1>1, PaidOut DEF LegFits, Kind, Buys
  <2> QED
      BY <1>1, <2>1, PaidOut DEF Sound
<1> QED
    BY <1>2, SettleStep

-----------------------------------------------------------------------------
LEMMA AmountsInit == Init => AInv
BY DEF Init, AInv, Domains, QuotesPriced, RecordsCopied, Copied, LegsSound

LEMMA AmountsNext == AInv /\ [Next]_vars => AInv'
<1> SUFFICES ASSUME AInv, [Next]_vars
             PROVE  AInv'
    OBVIOUS
<1>1. CASE UNCHANGED vars
    BY <1>1, StutterStep
<1>2. ASSUME NEW q \in Quote, NEW b \in Body, NEW m \in Markets,
             \/ GetPublicQuoteOut(q, b, m) \/ GetPublicQuoteIn(q, b, m)
             \/ QuoteInHelperHandler(q, b, m)
             \/ QuoteOutHelperHandler(q, b, m)
             \/ GetQuoteIn(q, b, m) \/ GetQuoteOut(q, b, m)
             \/ GetAssetQuoteIn(q, b, m)
      PROVE  AInv'
    BY <1>2, PublicOutStep, PublicInStep, OlderQuoteStep
<1>3. ASSUME NEW q \in Quote,
             \/ PublicTransferIn(q)
             \/ \E o \in {"momo", "bank"} : PublicTransferOut(q, o)
             \/ FiatConnectTransferIn(q) \/ FiatConnectTransferOut(q)
             \/ CreateTransferIn(q) \/ \E m \in Markets : RawTransferIn(q, m)
      PROVE  AInv'
    BY <1>3, PublicTransferInStep, PublicTransferOutStep, OlderTransferStep
<1>5. ASSUME NEW q \in Quote, SendMomo(q)
      PROVE  AInv'
  <2>1. PICK operator \in {"momo", "bank"} : Settleable(q, operator)
      BY <1>5 DEF SendMomo
  <2>2. Settle(q, "payout", PayoutAmount(quotes[q]))
      BY <1>5 DEF SendMomo
  <2> QED
      BY <2>1, <2>2, PayOutStep DEF LegAmount
<1>6. ASSUME NEW q \in Quote, ForwardToBank(q)
      PROVE  AInv'
    BY <1>6, PayOutStep DEF ForwardToBank, LegAmount
<1>7. ASSUME NEW q \in Quote, Refund(q)
      PROVE  AInv'
    BY <1>7, RefundStep DEF Refund, LegAmount
<1>8. ASSUME NEW q \in Quote, CallbackRefund(q)
      PROVE  AInv'
  <2>1. Moved(q, "payout") /\ Settle(q, "callbackRefund", orders[q].recieves)
      BY <1>8 DEF CallbackRefund
  <2> QED
      BY <2>1, PaidOut, RefundStep DEF LegAmount
<1>9. ASSUME NEW q \in Quote, SendCrypto(q)
      PROVE  AInv'
    BY <1>9, SendCryptoStep
<1> QED
    BY <1>1, <1>2, <1>3, <1>5, <1>6, <1>7, <1>8, <1>9 DEF Next

LEMMA AmountsInvariant == Spec => []AInv
BY AmountsInit, AmountsNext, PTL DEF Spec

-----------------------------------------------------------------------------
(***************************************************************************)
(* What the invariant says of money that moved.                            *)
(***************************************************************************)
\* A quote money moved for holds numbers, none of them 0; a stable coin's
\* are those the helper found, for it looks at no market.
LEMMA QuoteOfLeg ==
    ASSUME AInv, NEW l \in legs, l.kind # "invoice"
    PROVE  LET quote == quotes[l.quote]
               b == quote.body
               t == SideOf(quote.transferType)
               rates == StableRates(b, t)
               sale == quote.transferType = "TransferOut"
           IN  /\ LegFits(l, quote) /\ quote.source = "public"
               /\ b \in Body /\ t \in Sides
               /\ AllowedAsset(b) /\ WithinLimits(b)
               /\ Truthy(b.fiatAmount) # Truthy(b.cryptoAmount)
               /\ quote.amountPaid = AmountPaid(b)
               /\ sale => quote.requestType = RequestType(b)
               /\ {quote.fiatAmount, quote.cryptoAmount, quote.amountPaid}
                    \subseteq Int \ {0}
               /\ Number(quote.fiatAmount) = quote.fiatAmount
               /\ Number(quote.cryptoAmount) = quote.cryptoAmount
               /\ Number(quote.amountPaid) = quote.amountPaid
               /\ b.cryptoType # "BTC" =>
                    /\ rates.payout \in Int \ {0}
                    /\ quote.cryptoAmount = rates.crypto
                    /\ sale => quote.providerAmount = rates.payout
<1> DEFINE quote == quotes[l.quote]
           b == quote.body
           t == SideOf(quote.transferType)
           sale == quote.transferType = "TransferOut"
<1>1. Sound(l)
    BY DEF AInv, LegsSound
<1>2. IsPublic(l.quote)
    BY <1>1 DEF AInv, RecordsCopied, Copied, Sound
<1>3. Priced(quote) /\ quote.source = "public" /\ LegFits(l, quote)
    BY <1>1, <1>2 DEF AInv, QuotesPriced, Sound, IsPublic
<1>4. /\ b \in Body /\ AllowedAsset(b) /\ WithinLimits(b)
      /\ quote.amountPaid = AmountPaid(b)
      /\ sale => quote.requestType = RequestType(b)
    BY <1>3 DEF Priced
<1>5. PICK m \in Markets :
        LET rates == calculatePlatformRatesHelper(b, t, m)
        IN  /\ rates.success
            /\ Truthy(rates.fiat) /\ Truthy(rates.crypto)
            /\ quote.fiatAmount = rates.fiat /\ quote.cryptoAmount = rates.crypto
            /\ sale => quote.providerAmount = rates.payout
    BY <1>3 DEF Priced
<1> DEFINE rates == calculatePlatformRatesHelper(b, t, m)
<1>6. t \in Sides
    BY DEF Sides, SideOf
<1>7. /\ AreNumbers(rates) /\ Truthy(b.fiatAmount) # Truthy(b.cryptoAmount)
      /\ b.cryptoType # "BTC" => rates = StableRates(b, t)
    BY <1>4, <1>5, <1>6, RatesAreNumbers
<1>8. {rates.fiat, rates.crypto} \subseteq Int \ {0}
    BY <1>5, <1>7 DEF AreNumbers, Truthy
<1>9. AmountPaid(b) \in Int \ {0}
  <2>1. {b.fiatAmount, b.cryptoAmount} \subseteq Int
      BY <1>4, BodyAssumption
  <2> QED
      BY <1>7, <2>1 DEF AmountPaid, Truthy
<1>10. \A x \in Int \ {0} : Number(x) = x
    BY DEF Number, Absent
<1>11. /\ Truthy(rates.fiat)
       /\ quote.fiatAmount = rates.fiat /\ quote.cryptoAmount = rates.crypto
       /\ sale => quote.providerAmount = rates.payout
    BY <1>5
<1> HIDE DEF rates, t, b, quote, sale
<1>12. {quote.fiatAmount, quote.cryptoAmount, quote.amountPaid}
         \subseteq Int \ {0}
    BY <1>4, <1>8, <1>9, <1>11
<1>13. /\ Number(quote.fiatAmount) = quote.fiatAmount
       /\ Number(quote.cryptoAmount) = quote.cryptoAmount
       /\ Number(quote.amountPaid) = quote.amountPaid
    BY <1>10, <1>12
<1>14. b.cryptoType # "BTC" =>
         /\ StableRates(b, t).payout \in Int \ {0}
         /\ quote.cryptoAmount = StableRates(b, t).crypto
         /\ sale => quote.providerAmount = StableRates(b, t).payout
  <2>1. StableRates(b, t).payout = StableRates(b, t).fiat
      BY <1>4, <1>6, CryptoRates, FiatRates DEF StableRates
  <2> QED
      BY <1>7, <1>8, <1>11, <2>1
<1> QED
    BY <1>3, <1>4, <1>6, <1>7, <1>12, <1>13, <1>14 DEF t, b, quote, sale

\* Scale, and the steps amounts are rounded to, are numbers.
LEMMA Steps == Scale \in Nat \ {0} /\ Scale \div 100 \in Nat \ {0}
BY NumbersAssumption

\* A sale of a stable coin names the provider's amount, and the payout is
\* that amount, or in Kenya within half a unit of it.
LEMMA PayoutOfLeg ==
    ASSUME AInv, NEW l \in legs, l.kind = "payout"
    PROVE  LET quote == quotes[l.quote]
               rates == StableRates(quote.body, "selling")
           IN  /\ quote.body.cryptoType # "BTC"
               /\ quote.transferType = "TransferOut"
               /\ rates.payout \in Int /\ l.amount \in Int
               /\ l.amount <= rates.payout + Scale \div 2
<1> DEFINE quote == quotes[l.quote]
           b == quote.body
           rates == StableRates(b, "selling")
           amount == quote.providerAmount
<1>1. /\ l.amount = PayoutAmount(quote)
      /\ quote.transferType = "TransferOut"
      /\ b.network # "lightning" /\ AllowedAsset(b)
    BY QuoteOfLeg DEF LegFits, LegAmount, Buys, ForStable
<1>2. SideOf(quote.transferType) = "selling" /\ b.cryptoType # "BTC"
    BY <1>1 DEF SideOf, AllowedAsset
<1>3. amount = rates.payout /\ rates.payout \in Int \ {0}
    BY <1>1, <1>2, QuoteOfLeg
<1>4. Number(amount) = amount
    BY <1>3 DEF Number, Absent
<1>5. ToUnits(amount) \in Int /\ ToUnits(amount) <= amount + Scale \div 2
    BY <1>3, Steps, Rounds DEF ToUnits
<1>6. PayoutAmount(quote) \in {amount, ToUnits(amount)}
    BY <1>4 DEF PayoutAmount
<1>7. Scale \div 2 \in Nat
    BY Steps
<1> HIDE DEF amount, rates, b, quote
<1>8. l.amount \in Int /\ l.amount <= amount + Scale \div 2
    BY <1>1, <1>3, <1>5, <1>6, <1>7
<1> QED
    BY <1>1, <1>2, <1>3, <1>8 DEF rates, b, quote

\* The provider's charge on any sale asked in fiat is at least the rate.
LEMMA ChargeCoversRate ==
    ASSUME NEW b \in Body, Truthy(b.fiatAmount), WithinLimits(b)
    PROVE  RateOf(b.country, "selling")
             <= Share(b.fiatAmount,
                      LocalExchangeRates[b.country].kotaniSellingRate)
                  * RateScale
<1> DEFINE c == b.country
<1>1. /\ c \in DOMAIN LocalExchangeRates /\ b.fiatAmount \in Int
      /\ LocalExchangeRates[c].kotaniSellingRate \in Nat
      /\ RateOf(c, "selling") \in Int
      /\ MinMaxFiat[c][1] \in Int
      /\ b.fiatAmount >= MinMaxFiat[c][1]
    BY Tables, LimitsAssumption DEF Sides, WithinLimits
<1>2. PICK p \in Nat, f \in Int, least \in Int, rate \in Int :
        /\ p = LocalExchangeRates[c].kotaniSellingRate
        /\ f = b.fiatAmount /\ least = MinMaxFiat[c][1]
        /\ rate = RateOf(c, "selling")
    BY <1>1
<1>3. rate <= ((least * p) \div FeeScale) * RateScale
    BY <1>1, <1>2, LimitsAssumption DEF RateOf
<1>4. least <= f
    BY <1>1, <1>2
<1> DEFINE small == (least * p) \div FeeScale
           charge == Share(f, p)
<1>5. small <= charge /\ small \in Int /\ charge \in Int
    BY <1>4, ShareGrows
<1>6. rate <= small * RateScale
    BY <1>3
<1> HIDE DEF small, charge
<1>7. /\ small * RateScale <= charge * RateScale
      /\ small * RateScale \in Int /\ charge * RateScale \in Int
    BY <1>5, NumbersAssumption, ProductGrows
<1>8. rate <= charge * RateScale
    BY <1>6, <1>7
<1> QED
    BY <1>2, <1>8 DEF charge

\* What an amount asked in crypto loses by the fees of a sale.
LEMMA FeesAreTaken ==
    ASSUME AInv, NEW l \in legs, l.kind # "invoice",
           quotes[l.quote].transferType = "TransferOut",
           quotes[l.quote].body.cryptoType # "BTC"
    PROVE  /\ quotes[l.quote].cryptoAmount \in Int /\ Due(l.quote) \in Int
           /\ quotes[l.quote].cryptoAmount <= Due(l.quote)
<1> DEFINE quote == quotes[l.quote]
           b == quote.body
<1>1. /\ b \in Body /\ WithinLimits(b) /\ SideOf(quote.transferType) = "selling"
      /\ Truthy(b.fiatAmount) # Truthy(b.cryptoAmount)
      /\ quote.cryptoAmount = StableRates(b, "selling").crypto
      /\ quote.cryptoAmount \in Int
    BY QuoteOfLeg DEF SideOf
<1>2. CASE Truthy(b.fiatAmount)
    BY <1>1, <1>2 DEF Due, AskedIn, RequestType
<1>3. CASE ~Truthy(b.fiatAmount)
  <2> DEFINE platform == Share(b.cryptoAmount,
                               LocalExchangeRates[b.country].feeRate)
             provider == Share(b.cryptoAmount,
                               ProviderPercent(b.country, "selling"))
  <2>1. Truthy(b.cryptoAmount)
      BY <1>1, <1>3 DEF Truthy
  <2>2. Due(l.quote) = b.cryptoAmount
      BY <1>3 DEF Due, AskedIn, Asked, RequestType, AmountPaid
  <2>3. /\ b.country \in DOMAIN LocalExchangeRates /\ b.cryptoAmount \in Int
        /\ LocalExchangeRates[b.country].feeRate \in Nat
        /\ ProviderPercent(b.country, "selling") \in Nat
        /\ "selling" \in Sides
      BY <1>1, Tables DEF Sides
  <2>4. b.cryptoAmount \in Nat
    <3>1. b.cryptoAmount >= MinMaxCrypto[b.country][1]
        BY <1>1, <2>1 DEF WithinLimits
    <3>2. MinMaxCrypto[b.country][1] \in Nat
        BY <2>3, LimitsAssumption
    <3> QED
        BY <2>3, <3>1, <3>2
  <2>5. platform \in Nat /\ provider \in Nat
      BY <2>3, <2>4, ShareOfNatural
  <2>6. quote.cryptoAmount = b.cryptoAmount - platform - provider
      BY <1>1, <2>1, <2>3, CryptoRates DEF StableRates
  <2> HIDE DEF platform, provider, b
  <2> QED
      BY <2>2, <2>4, <2>5, <2>6
<1> QED
    BY <1>2, <1>3

\* What the two ways to refund give back.
LEMMA RefundOfLeg ==
    ASSUME AInv, NEW l \in legs, l.kind \in {"refund", "callbackRefund"}
    PROVE  /\ l.amount \in Int /\ Due(l.quote) \in Int
           /\ l.amount <= Due(l.quote) + Scale \div 200
           /\ l.amount >= quotes[l.quote].cryptoAmount - Scale \div 200
<1> DEFINE quote == quotes[l.quote]
           b == quote.body
           cent == Scale \div 100
<1>1. /\ l.amount = LegAmount(l.kind, quote)
      /\ quote.transferType = "TransferOut"
      /\ b.network # "lightning" /\ AllowedAsset(b)
    BY QuoteOfLeg DEF LegFits, Buys, ForStable
<1>2. quote.requestType = RequestType(b) /\ b.cryptoType # "BTC"
    BY <1>1, QuoteOfLeg DEF AllowedAsset
<1>3. /\ quote.cryptoAmount \in Int /\ quote.amountPaid \in Int
      /\ quote.amountPaid = AmountPaid(b)
      /\ Number(quote.cryptoAmount) = quote.cryptoAmount
      /\ Number(quote.amountPaid) = quote.amountPaid
    BY QuoteOfLeg
<1>4. Due(l.quote) = IF quote.requestType = "crypto" THEN quote.amountPaid
                                                     ELSE quote.cryptoAmount
    BY <1>2, <1>3 DEF Due, AskedIn, Asked
<1>5. Due(l.quote) \in Int /\ quote.cryptoAmount <= Due(l.quote)
    BY <1>1, <1>2, FeesAreTaken
<1>6. Scale \div 200 \in Nat /\ cent \div 2 <= Scale \div 200
  <2>1. \A s \in Nat : /\ s \div 200 \in Nat
                       /\ (s \div 100) \div 2 <= s \div 200
      OBVIOUS
  <2> QED
      BY <2>1, Steps
<1>7. cent \in Nat \ {0}
    BY Steps
<1> HIDE DEF cent
<1>8. /\ RoundTo(quote.cryptoAmount, cent) \in Int
      /\ RoundTo(quote.cryptoAmount, cent) <= quote.cryptoAmount + cent \div 2
      /\ RoundTo(quote.cryptoAmount, cent) >= quote.cryptoAmount - cent \div 2
    BY <1>3, <1>7, Rounds
<1>9. CASE l.kind = "refund"
  <2>1. l.amount = IF quote.requestType = "crypto" THEN quote.amountPaid
                   ELSE RoundTo(quote.cryptoAmount, cent)
      BY <1>1, <1>3, <1>9 DEF LegAmount, RefundAmount, ToCents, cent
  <2> DEFINE crypto == quote.cryptoAmount
             rounded == RoundTo(crypto, cent)
             half == cent \div 2
             limit == Scale \div 200
             due == Due(l.quote)
  <2>2. /\ crypto \in Int /\ rounded \in Int /\ due \in Int
        /\ half \in Int /\ limit \in Nat /\ half <= limit
        /\ rounded <= crypto + half /\ rounded >= crypto - half
        /\ crypto <= due
      BY <1>3, <1>5, <1>6, <1>7, <1>8
  <2>3. l.amount = due \/ (l.amount = rounded /\ due = crypto)
      BY <1>4, <2>1
  <2> HIDE DEF rounded, half, limit, crypto, due
  <2>4. /\ l.amount \in Int
        /\ l.amount <= due + limit /\ l.amount >= crypto - limit
      BY <2>2, <2>3
  <2> QED
      BY <1>5, <2>4 DEF due, crypto, limit
<1>10. CASE l.kind = "callbackRefund"
  <2>1. l.amount = quote.cryptoAmount
      BY <1>1, <1>3, <1>10 DEF LegAmount
  <2> HIDE DEF quote
  <2>2. /\ l.amount <= Due(l.quote) + Scale \div 200
        /\ l.amount >= quote.cryptoAmount - Scale \div 200
      BY <1>3, <1>5, <1>6, <2>1
  <2> QED
      BY <1>3, <1>5, <2>1, <2>2 DEF quote
<1> QED
    BY <1>9, <1>10

-----------------------------------------------------------------------------
(***************************************************************************)
(* The theorems.                                                           *)
(***************************************************************************)
\* Nothing that is not a number is stored in a transaction or an order, or
\* moved: the casts refuse what the FiatConnect quotes hold, and what is
\* derived later is derived from numbers.  Only an invoice may ask for NaN.
THEOREM NumbersOnly == Spec => []NaNMovesNothing
<1>1. AInv => NaNMovesNothing
  <2> SUFFICES ASSUME AInv
               PROVE  NaNMovesNothing
      OBVIOUS
  <2>1. ASSUME NEW l \in legs, l.kind # "invoice"
        PROVE  l.amount \in Int
    <3> DEFINE quote == quotes[l.quote]
    <3>1. /\ l.kind \in Kind \ {"invoice"}
          /\ l.amount = LegAmount(l.kind, quote)
          /\ {Number(quote.fiatAmount), Number(quote.cryptoAmount),
              Number(quote.amountPaid)} \subseteq Int
        BY <2>1, QuoteOfLeg DEF LegFits
    <3>2. CASE l.kind \in {"collect", "send", "offRamp", "forward"}
        BY <3>1, <3>2 DEF LegAmount
    <3>3. CASE l.kind = "payout"
        BY <3>3, PayoutOfLeg
    <3>4. CASE l.kind \in {"refund", "callbackRefund"}
        BY <3>4, RefundOfLeg
    <3> QED
        BY <3>1, <3>2, <3>3, <3>4 DEF Kind
  <2>2. \A l \in legs : l.kind # "invoice" => l.amount # NaN
      BY <2>1, NumbersAssumption
  <2> QED
      BY <2>2 DEF NaNMovesNothing, AInv, RecordsCopied, Copied
<1> QED
    BY <1>1, AmountsInvariant, PTL

\* What is collected for a purchase asked in fiat is the fiat asked, and what
\* is sent is what is left of it after the fees, at the buying rate.
THEOREM BuysCovered == Spec => []FiatBuyIsCovered
<1>1. AInv => FiatBuyIsCovered
  <2> SUFFICES ASSUME AInv, NEW s \in Of("send"), NEW c \in Of("collect"),
                      s.quote = c.quote, AskedIn(s.quote) = "fiat",
                      IsStable(s.quote)
               PROVE  c.amount * RateScale >= s.amount * Rate(s.quote, "buying")
      BY DEF FiatBuyIsCovered
  <2> DEFINE quote == quotes[s.quote]
             b == quote.body
             rate == RateOf(b.country, "buying")
             platform == Share(b.fiatAmount,
                               LocalExchangeRates[b.country].feeRate)
             provider == Share(b.fiatAmount,
                               ProviderPercent(b.country, "buying"))
             received == b.fiatAmount - platform - provider
  <2>1. s \in legs /\ c \in legs /\ s.kind = "send" /\ c.kind = "collect"
      BY DEF Of
  <2>2. /\ s.amount = quote.cryptoAmount /\ c.amount = quote.amountPaid
        /\ SideOf(quote.transferType) = "buying"
      BY <2>1, QuoteOfLeg DEF LegFits, LegAmount, Buys, SideOf
  <2>3. Truthy(b.fiatAmount) /\ b.cryptoType # "BTC"
      BY DEF AskedIn, RequestType, IsStable
  <2>4. /\ b \in Body /\ WithinLimits(b) /\ "buying" \in Sides
        /\ Truthy(b.fiatAmount) # Truthy(b.cryptoAmount)
        /\ quote.amountPaid = AmountPaid(b)
        /\ quote.cryptoAmount = StableRates(b, "buying").crypto
      BY <2>1, <2>2, <2>3, QuoteOfLeg
  <2>5. c.amount = b.fiatAmount
      BY <2>2, <2>3, <2>4 DEF AmountPaid
  <2>6. StableRates(b, "buying") = RatesOfFiat(b, "buying")
      BY <2>3, <2>4 DEF StableRates
  <2>7. s.amount = (received * RateScale) \div rate
      BY <2>2, <2>4, <2>6, FiatRates
  <2>8. /\ rate \in Nat \ {0} /\ b.fiatAmount \in Int
        /\ LocalExchangeRates[b.country].feeRate \in Nat
        /\ ProviderPercent(b.country, "buying") \in Nat
        /\ Rate(s.quote, "buying") = rate
      BY <2>4, Tables DEF Rate, RateOf
  <2>9. b.fiatAmount \in Nat
    <3>1. b.fiatAmount >= MinMaxFiat[b.country][1]
        BY <2>3, <2>4 DEF WithinLimits
    <3>2. MinMaxFiat[b.country][1] \in Nat
        BY <2>4, Tables, LimitsAssumption
    <3> QED
        BY <2>8, <3>1, <3>2
  <2>10. platform \in Nat /\ provider \in Nat
      BY <2>8, <2>9, ShareOfNatural
  <2> HIDE DEF platform, provider, rate, b
  <2>11. received \in Int /\ received <= b.fiatAmount
      BY <2>9, <2>10
  <2> HIDE DEF received
  <2>12. /\ received * RateScale \in Int
         /\ received * RateScale <= b.fiatAmount * RateScale
         /\ b.fiatAmount * RateScale \in Int
    <3>1. RateScale \in Nat
        BY NumbersAssumption
    <3>2. b.fiatAmount <= b.fiatAmount
        BY <2>9
    <3> QED
        BY <2>9, <2>11, <3>1, <3>2, ProductGrows
  <2> DEFINE scaled == received * RateScale
             asked == b.fiatAmount * RateScale
  <2>13. scaled \in Int /\ scaled <= asked /\ asked \in Int
      BY <2>12
  <2>14. s.amount = scaled \div rate /\ c.amount * RateScale = asked
      BY <2>5, <2>7
  <2> HIDE DEF scaled, asked
  <2>15. (scaled \div rate) * rate <= scaled
      BY <2>8, <2>13, Division
  <2> DEFINE worth == (scaled \div rate) * rate
  <2>16. worth \in Int
      BY <2>8, <2>13, Division
  <2>17. worth <= scaled /\ worth = s.amount * Rate(s.quote, "buying")
      BY <2>8, <2>14, <2>15
  <2> HIDE DEF worth
  <2>18. worth <= asked
      BY <2>13, <2>16, <2>17
  <2> QED
      BY <2>13, <2>14, <2>16, <2>17, <2>18
<1> QED
    BY <1>1, AmountsInvariant, PTL

\* What a sale pays out: asked in crypto, the fee is taken before the rate is
\* applied; asked in fiat, the crypto is rounded down by less than the rate,
\* and the provider's charge, which is no less, is taken a second time.
THEOREM SalesCovered == Spec => []SellPayoutIsCovered
<1>1. AInv => SellPayoutIsCovered
  <2> SUFFICES ASSUME AInv, NEW l \in Of("payout")
               PROVE  l.amount * RateScale
                        <= Due(l.quote) * Rate(l.quote, "selling")
                             + (Scale \div 2) * RateScale
      BY DEF SellPayoutIsCovered
  <2> DEFINE quote == quotes[l.quote]
             b == quote.body
             rates == StableRates(b, "selling")
             rate == RateOf(b.country, "selling")
             country == LocalExchangeRates[b.country]
             due == Due(l.quote)
  <2>1. l \in legs /\ l.kind = "payout"
      BY DEF Of
  <2>2. /\ b.cryptoType # "BTC" /\ rates.payout \in Int
        /\ l.amount \in Int /\ l.amount <= rates.payout + Scale \div 2
        /\ SideOf(quote.transferType) = "selling"
      BY <2>1, PayoutOfLeg DEF SideOf
  <2>3. /\ b \in Body /\ "selling" \in Sides /\ WithinLimits(b)
        /\ quote.cryptoAmount = rates.crypto /\ quote.amountPaid = AmountPaid(b)
        /\ Truthy(b.fiatAmount) # Truthy(b.cryptoAmount)
      BY <2>1, <2>2, QuoteOfLeg
  <2>4. /\ rate \in Nat \ {0} /\ {b.fiatAmount, b.cryptoAmount} \subseteq Int
        /\ country.feeRate \in Nat /\ country.kotaniSellingRate \in Nat
        /\ Rate(l.quote, "selling") = rate
        /\ b.country \in DOMAIN LocalExchangeRates
      BY <2>3, Tables DEF Rate, RateOf
  <2>5. RateScale \in Nat \ {0}
      BY NumbersAssumption
  <2>6. due * rate \in Int /\ rates.payout * RateScale <= due * rate
    <3>1. CASE ~Truthy(b.fiatAmount)
      <4> DEFINE platform == Share(b.cryptoAmount, country.feeRate)
                 left == b.cryptoAmount - platform
      <4>1. Truthy(b.cryptoAmount)
          BY <2>3, <3>1 DEF Truthy
      <4>2. due = b.cryptoAmount
          BY <2>3, <3>1 DEF Due, AskedIn, Asked, RequestType, AmountPaid
      <4>3. rates = RatesOfCrypto(b, "selling")
          BY <4>1 DEF StableRates
      <4>4. rates.payout = (left * rate) \div RateScale
          BY <2>3, <4>3, CryptoRates
      <4>5. b.cryptoAmount \in Nat
        <5>1. b.cryptoAmount >= MinMaxCrypto[b.country][1]
            BY <2>3, <4>1 DEF WithinLimits
        <5>2. MinMaxCrypto[b.country][1] \in Nat
            BY <2>4, LimitsAssumption
        <5> QED
            BY <2>4, <5>1, <5>2
      <4>6. platform \in Nat
          BY <2>4, <4>5, ShareOfNatural
      <4> HIDE DEF platform, rate, rates, b, due
      <4>7. left \in Int /\ left <= b.cryptoAmount
          BY <4>5, <4>6
      <4> HIDE DEF left
      <4>8. left * rate <= due * rate /\ left * rate \in Int
          BY <2>4, <4>2, <4>5, <4>7, ProductGrows
      <4>9. due * rate \in Int
          BY <2>4, <4>2, <4>5, ProductOfNaturals
      <4> DEFINE product == left * rate
                 worth == due * rate
      <4>10. product \in Int /\ worth \in Int /\ product <= worth
             /\ rates.payout = product \div RateScale
          BY <4>4, <4>8, <4>9
      <4> HIDE DEF product, worth
      <4>11. /\ (product \div RateScale) * RateScale <= product
             /\ product \div RateScale \in Int
          BY <2>5, <4>10, Division
      <4>12. rates.payout * RateScale <= product
          BY <4>10, <4>11
      <4>13. rates.payout * RateScale \in Int
          BY <2>2, <2>5
      <4>14. rates.payout * RateScale <= worth
          BY <4>10, <4>12, <4>13
      <4> QED
          BY <4>10, <4>14 DEF worth
    <3>2. CASE Truthy(b.fiatAmount)
      <4> DEFINE platform == Share(b.fiatAmount, country.feeRate)
                 provider == Share(b.fiatAmount, country.kotaniSellingRate)
                 received == b.fiatAmount - platform - provider
      <4>1. due = quote.cryptoAmount
          BY <3>2 DEF Due, AskedIn, RequestType
      <4>2. rates = RatesOfFiat(b, "selling")
          BY <2>3, <3>2 DEF StableRates
      <4>3. provider = Share(b.fiatAmount,
                             ProviderPercent(b.country, "selling"))
          BY DEF ProviderPercent
      <4>4. /\ rates.crypto = (received * RateScale) \div rate
            /\ rates.payout = received - provider
            /\ platform \in Int /\ provider \in Int
        <5> HIDE DEF provider
        <5> QED
            BY <2>3, <4>2, <4>3, FiatRates
      <4>5. provider * RateScale >= rate
          BY <2>3, <3>2, ChargeCoversRate DEF RateOf
      <4>6. due = (received * RateScale) \div rate
          BY <2>3, <4>1, <4>4
      <4>7. received \in Int
          BY <2>4, <4>4
      <4> HIDE DEF platform, provider, received, rate, rates, b, due
      <4> DEFINE scaled == received * RateScale
                 charge == provider * RateScale
      <4>8. scaled \in Int /\ charge \in Int /\ charge >= rate
            /\ due = scaled \div rate
          BY <2>5, <4>4, <4>5, <4>6, <4>7
      <4>9. rates.payout * RateScale = scaled - charge
          BY <2>5, <4>4, <4>7
      <4> HIDE DEF scaled, charge
      <4>10. /\ scaled \div rate \in Int
             /\ scaled < (scaled \div rate) * rate + rate
          BY <2>4, <4>8, Division
      <4> DEFINE worth == (scaled \div rate) * rate
      <4>11. worth \in Int /\ scaled < worth + rate /\ due * rate = worth
          BY <2>4, <4>8, <4>10
      <4> HIDE DEF worth
      <4>12. scaled - charge <= worth
          BY <2>4, <4>8, <4>11
      <4> QED
          BY <4>9, <4>11, <4>12
    <3> QED
        BY <3>1, <3>2
  <2>7. Scale \div 2 \in Int
      BY Steps
  <2> DEFINE worth == due * rate
             half == Scale \div 2
             payout == rates.payout
  <2>8. worth \in Int /\ payout * RateScale <= worth /\ payout \in Int
      BY <2>2, <2>6
  <2>9. worth = Due(l.quote) * Rate(l.quote, "selling")
      BY <2>4
  <2>10. half \in Int /\ l.amount <= payout + half
      BY <2>2, <2>7
  <2> HIDE DEF worth, half, payout
  <2>11. /\ l.amount * RateScale <= (payout + half) * RateScale
         /\ l.amount * RateScale \in Int
      BY <2>2, <2>5, <2>8, <2>10, ProductGrows
  <2>12. /\ (payout + half) * RateScale
              = payout * RateScale + half * RateScale
         /\ payout * RateScale \in Int /\ half * RateScale \in Int
      BY <2>5, <2>8, <2>10
  <2>13. l.amount * RateScale <= worth + half * RateScale
      BY <2>8, <2>11, <2>12
  <2> QED
      BY <2>9, <2>13 DEF half
<1> QED
    BY <1>1, AmountsInvariant, PTL

\* A sale asked in crypto gives back the amount asked, or what the fees left
\* of it when the callback refunds; one asked in fiat the quote's crypto,
\* rounded to the cent by publicTxHandler.
THEOREM RefundsWithinDue == Spec => []RefundIsWithinDue
<1>1. AInv => RefundIsWithinDue
  <2> SUFFICES ASSUME AInv, NEW l \in Of("refund") \cup Of("callbackRefund")
               PROVE  /\ l.amount <= Due(l.quote) + Scale \div 200
                      /\ l.amount >= quotes[l.quote].cryptoAmount
                                       - Scale \div 200
      BY DEF RefundIsWithinDue
  <2>1. l \in legs /\ l.kind \in {"refund", "callbackRefund"}
      BY DEF Of
  <2> QED
      BY <2>1, RefundOfLeg
<1> QED
    BY <1>1, AmountsInvariant, PTL
=============================================================================
