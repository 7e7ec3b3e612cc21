------------------------------- MODULE Pricing -------------------------------
(***************************************************************************)
(* The arithmetic that turns what a client asks for into a quote: the      *)
(* helper calculatePlatformRatesHelper, the spot conversions of the older  *)
(* quote routes, and the conversion of a Lightning invoice.                *)
(*                                                                         *)
(* A JavaScript number is an integer of 1 / Scale units, or NaN, which any *)
(* operation passes on; reading a property an object lacks gives a number  *)
(* that is NaN as soon as it is used.  Rates are in steps of 1 / RateScale *)
(* of fiat per dollar and fees in parts of FeeScale, so that tables with   *)
(* fractions have exact values here.  An amount a request leaves out is 0, *)
(* which JavaScript also takes for false.                                  *)
(*                                                                         *)
(* Market prices come of HTTP requests, made anew by each handler; market  *)
(* is what one handler's requests found.                                   *)
(***************************************************************************)
EXTENDS Integers

CONSTANTS
    NaN,                \* Number(undefined), and what comes of it
    Scale,              \* how many steps make one unit of a currency
    RateScale,          \* how many steps make a rate of 1
    FeeScale,           \* how many parts make the whole of an amount
    LocalExchangeRates, \* country -> [buying, selling, feeRate, kotani...]
    Markets,            \* [btcUsd, usdFiat: country -> rate], as APIs give them
    PercentageRate,     \* PERCENTAGE_RATE
    PlatformCharge,     \* PLATFORM_PERCENTAGE
    SatsPerBtc          \* satoshis in a bitcoin

ASSUME NumbersAssumption ==
    /\ NaN \notin Int
    /\ Scale \in Nat /\ Scale >= 100
    /\ {RateScale, FeeScale} \subseteq Nat \ {0}
    /\ {PercentageRate, PlatformCharge} \subseteq Nat
    /\ PlatformCharge < FeeScale
    /\ SatsPerBtc \in Nat \ {0}

\* Every country has rates, none of them 0, and fees that are no gift.
ASSUME RatesAssumption ==
    \A c \in DOMAIN LocalExchangeRates :
      LET r == LocalExchangeRates[c]
      IN  /\ {r.buying, r.selling} \subseteq Nat \ {0}
          /\ {r.feeRate, r.kotaniBuyingRate, r.kotaniSellingRate} \subseteq Nat

ASSUME MarketsAssumption ==
    \A m \in Markets :
      /\ m.btcUsd \in Nat \ {0}
      /\ \A c \in DOMAIN LocalExchangeRates :
           /\ m.usdFiat[c] \in Nat \ {0}
           /\ (m.usdFiat[c] * PercentageRate) \div FeeScale > 0

Absent == 0

Plus(a, b) == IF NaN \in {a, b} THEN NaN ELSE a + b
Minus(a, b) == IF NaN \in {a, b} THEN NaN ELSE a - b
Times(a, b) == IF NaN \in {a, b} THEN NaN ELSE a * b
Over(a, b) == IF NaN \in {a, b} THEN NaN ELSE a \div b
Share(a, part) == Over(Times(a, part), FeeScale)
OnePercent(a) == Over(a, 100)
ToFiat(crypto, rate) == Over(Times(crypto, rate), RateScale)
ToCrypto(fiat, rate) == Over(Times(fiat, RateScale), rate)
Truthy(a) == a \notin {NaN, 0}

\* Rounding to a multiple of step, halves up.
RoundTo(a, step) ==
    IF a = NaN THEN NaN ELSE ((a + step \div 2) \div step) * step

\* x.toFixed(2) and x.toFixed(): to the cent and to the unit.
ToCents(a) == RoundTo(a, Scale \div 100)
ToUnits(a) == RoundTo(a, Scale)

-----------------------------------------------------------------------------
(* calculatePlatformRatesHelper                                            *)

\* localExchangeRates[country][orderType]: undefined without an order type.
RateOf(country, orderType) ==
    CASE orderType = "buying" -> LocalExchangeRates[country].buying
      [] orderType = "selling" -> LocalExchangeRates[country].selling
      [] OTHER -> NaN

ProviderPercent(country, orderType) ==
    IF orderType = "buying"
    THEN LocalExchangeRates[country].kotaniBuyingRate
    ELSE LocalExchangeRates[country].kotaniSellingRate

FiatToSats(fiat, rate, market) ==
    Over(Times(ToCrypto(fiat, rate), SatsPerBtc), market.btcUsd)
SatsToFiat(sats, rate, market) ==
    ToFiat(Over(Times(sats, market.btcUsd), SatsPerBtc), rate)

\* Bitcoin at the market's price.  No amount is named for the provider, and
\* no caller passes isSell.
BtcRates(body, market) ==
    LET rate == Share(market.usdFiat[body.country], PercentageRate)
    IN  IF Truthy(body.cryptoAmount)
        THEN LET fee == Share(body.cryptoAmount, PlatformCharge)
                 received == Minus(body.cryptoAmount, fee)
             IN  [success |-> TRUE, rate |-> rate, crypto |-> received,
                  fiat |-> SatsToFiat(received, rate, market),
                  feeFiat |-> ToCrypto(Times(fee, market.btcUsd), rate),
                  feeUsd |-> fee, payout |-> Absent]
        ELSE LET fee == Share(body.fiatAmount, PlatformCharge)
                 received == Minus(body.fiatAmount, fee)
             IN  [success |-> TRUE, rate |-> rate,
                  crypto |-> FiatToSats(received, rate, market),
                  fiat |-> received,
                  feeFiat |-> fee, feeUsd |-> ToCrypto(fee, rate),
                  payout |-> Absent]

\* A stable coin asked for by its own amount: fees come off the coin only.
RatesOfCrypto(body, orderType) ==
    LET rate == RateOf(body.country, orderType)
        platform == Share(body.cryptoAmount,
                          LocalExchangeRates[body.country].feeRate)
        provider == Share(body.cryptoAmount,
                          ProviderPercent(body.country, orderType))
        fiat == ToFiat(Minus(body.cryptoAmount, platform), rate)
    IN  [success |-> TRUE, rate |-> rate, fiat |-> fiat, payout |-> fiat,
         crypto |-> Minus(Minus(body.cryptoAmount, platform), provider),
         feeUsd |-> Plus(platform, provider),
         feeFiat |-> ToFiat(Plus(platform, provider), rate)]

\* Mutated form of RatesOfFiat: the provider's charge is added to what the
\* user pays for instead of taken from it.
RatesOfFiatMadeCheaper(body, orderType) ==
    LET rate == RateOf(body.country, orderType)
        provider == Share(body.fiatAmount,
                          ProviderPercent(body.country, orderType))
    IN  [success |-> TRUE, rate |-> rate,
         fiat |-> body.fiatAmount, payout |-> body.fiatAmount,
         crypto |-> ToCrypto(Plus(body.fiatAmount, provider), rate),
         feeFiat |-> provider, feeUsd |-> ToCrypto(provider, rate)]

\* A stable coin asked for by the fiat amount.  The provider's charge is
\* added back for a purchase, and taken a second time for a sale.
RatesOfFiat(body, orderType) ==
    LET rate == RateOf(body.country, orderType)
        platform == Share(body.fiatAmount,
                          LocalExchangeRates[body.country].feeRate)
        provider == Share(body.fiatAmount,
                          ProviderPercent(body.country, orderType))
        received == Minus(Minus(body.fiatAmount, platform), provider)
        payout == IF orderType = "buying" THEN Plus(received, provider)
                                          ELSE Minus(received, provider)
    IN  [success |-> TRUE, rate |-> rate, fiat |-> payout, payout |-> payout,
         crypto |-> ToCrypto(received, rate),
         feeFiat |-> Plus(platform, provider),
         feeUsd |-> ToCrypto(Plus(platform, provider), rate)]

Failed == [success |-> FALSE]

calculatePlatformRatesHelper(body, orderType, market) ==
    CASE Truthy(body.fiatAmount) = Truthy(body.cryptoAmount) -> Failed
      [] Truthy(body.fiatAmount) # Truthy(body.cryptoAmount) ->
            IF body.cryptoType = "BTC" THEN BtcRates(body, market)
            ELSE IF Truthy(body.cryptoAmount)
                 THEN RatesOfCrypto(body, orderType)
                 ELSE RatesOfFiat(body, orderType)

-----------------------------------------------------------------------------
(* Conversions at the market's spot rate                                   *)

\* getCurrentExchangeIn: the older routes take 1 percent of the dollars.
getCurrentExchangeIn(fiat, country, market) ==
    LET amount == ToCrypto(fiat, market.usdFiat[country])
    IN  [total |-> Minus(amount, OnePercent(amount)),
         charge |-> OnePercent(amount)]

\* getCurrentExchangeOut: and 1 percent of the fiat.
getCurrentExchangeOut(crypto, country, market) ==
    LET amount == ToFiat(crypto, market.usdFiat[country])
    IN  [total |-> Minus(amount, OnePercent(amount)),
         charge |-> OnePercent(amount)]

\* getBTCExchangeIn: the total is in satoshis too.
getBTCExchangeIn(fiat, country, market) ==
    LET sats == FiatToSats(fiat, market.usdFiat[country], market)
    IN  [satsAmount |-> sats, charge |-> Share(sats, PlatformCharge),
         total |-> Over(Times(sats, FeeScale), FeeScale - PlatformCharge)]

\* convertSatsBTCtoUSD: what a Lightning invoice may ask for some fiat
\* amount, without PERCENTAGE_RATE and from dollars rounded to the cent.  A
\* request that fails gives { error }, which Number() makes NaN of.
convertSatsBTCtoUSD(fiat, country) ==
    LET sats(market) ==
          Over(Times(ToCents(ToCrypto(fiat, market.usdFiat[country])),
                     SatsPerBtc), market.btcUsd)
    IN  {NaN} \cup {sats(market) : market \in Markets}
=============================================================================
