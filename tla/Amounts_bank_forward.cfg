\* A sale to a bank: what is forwarded against what was quoted.
SPECIFICATION Spec
CONSTANTS
    NaN = NaN
    None = None
    q1 = q1
    Quote = {q1}
    Scale = 1000
    RateScale = 100
    FeeScale = 1000
    LocalExchangeRates <- MCRates
    Markets <- MCMarkets
    PercentageRate = 1250
    PlatformCharge = 200
    SatsPerBtc = 100
    Body <- MCBody
    MinMaxFiat <- MCMinMaxFiat
    MinMaxCrypto <- MCMinMaxCrypto
    FlatFiat <- MCFlatFiat
    FlatCrypto <- MCFlatCrypto
    PausedOnRampCountries = {"KE"}
    PausedOffRampCountries = {"GHA"}
INVARIANT
    ForwardIsWhatWasDue
CHECK_DEADLOCK FALSE
