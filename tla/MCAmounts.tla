------------------------------ MODULE MCAmounts ------------------------------
(***************************************************************************)
(* Small instances of Amounts: rates and fees of three countries as in     *)
(* localExchangeRates, in hundredths and per mille; amounts in thousandths *)
(* of a unit; limits, bitcoin and market prices small and round.           *)
(***************************************************************************)
EXTENDS Amounts, TLC

CONSTANT q1

Rates(buying, selling, kotaniBuying, kotaniSelling) ==
    [buying |-> buying, selling |-> selling, feeRate |-> 0,
     kotaniBuyingRate |-> kotaniBuying, kotaniSellingRate |-> kotaniSelling]

MCRates == ("GHA" :> Rates(1635, 1517, 60, 17))
             @@ ("KE" :> Rates(13315, 12750, 25, 26))
             @@ ("ZM" :> Rates(2622, 2512, 250, 120))

\* Two states of the market: a handler may find either.
Market(btc, zambia) ==
    [btcUsd |-> btc, usdFiat |-> ("GHA" :> 1600) @@ ("KE" :> 13000)
                                   @@ ("ZM" :> zambia)]
MCMarkets == {Market(50, 2600), Market(60, 2500)}

MCMinMaxFiat == [c \in {"GHA", "KE", "ZM"} |-> <<10 * Scale, 100 * Scale>>]
MCMinMaxCrypto == [c \in {"GHA", "KE", "ZM"} |-> <<Scale, 100 * Scale>>]
MCFlatFiat == 8 * Scale .. 60 * Scale
MCFlatCrypto == Scale \div 5 .. 50 * Scale

Asks(country, crypto, network, amounts) ==
    {[country |-> country, cryptoType |-> crypto, network |-> network,
      fiatAmount |-> a[1], cryptoAmount |-> a[2]] : a \in amounts}

\* Below, within and above the limits, in crypto, in fiat and in both.
Within == {<<0, 20 * Scale>>, <<15 * Scale, 0>>, <<40 * Scale, 0>>}
Beyond == {<<0, Scale - 1>>, <<0, 200 * Scale>>, <<9 * Scale, 0>>}
Both == {<<40 * Scale, 20 * Scale>>}

\* Ghana buys only, Kenya sells only, Zambia does both.
MCBody == Asks("GHA", "USDC", "celo", Within)
            \cup Asks("KE", "USDC", "base", Within)
            \cup Asks("ZM", "BTC", "lightning", Within \cup Both)
            \cup Asks("ZM", "BTC", "celo", Within)
            \cup Asks("ZM", "USDC", "celo", Within \cup Beyond \cup Both)

=============================================================================
