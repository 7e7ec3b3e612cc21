\* One quote of each kind followed to the end.
SPECIFICATION Spec
CONSTANTS
    NaN = NaN
    None = None
    q1 = q1
    Quote = {q1}
    Scale = 1000
    RateScale = 100
    FeeScale = 1000
    LocalExchangeRates <- MCRates
    Markets <- MCMarkets
    PercentageRate = 1250
    PlatformCharge = 200
    SatsPerBtc = 100
    Body <- MCBody
    MinMaxFiat <- MCMinMaxFiat
    MinMaxCrypto <- MCMinMaxCrypto
    FlatFiat <- MCFlatFiat
    FlatCrypto <- MCFlatCrypto
    PausedOnRampCountries = {"KE"}
    PausedOffRampCountries = {"GHA"}
INVARIANTS
    NaNMovesNothing
    FiatBuyIsCovered
    SellPayoutIsCovered
    RefundIsWithinDue
CHECK_DEADLOCK FALSE
