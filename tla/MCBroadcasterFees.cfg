SPECIFICATION FeesSpec
CONSTANTS
    t = t
    b = b
    Broadcaster = {t, b}
    Trusted = {t}
    Offer <- MCOffer
    Filters <- MCFilters
    NoQuote = NoQuote
    Validity = 3
    Margin = 2
    Window = 2
    Timeout = 1
    Touch = 1
    Lower = 10
    Upper = 30
    Near = 5
    MaxQuotes <- MCMaxQuotes
    MaxTime = 5
INVARIANTS
    LatestFeesUnlessLate
    SilenceNoticedUnlessAsked
PROPERTIES
    ChosenQuoteServes
CHECK_DEADLOCK FALSE
