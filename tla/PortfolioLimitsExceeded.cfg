SPECIFICATION LimitSpec
CONSTANTS
    Symbols = {"btc", "eth"}
    EntryStyles = {"signal_price"}
    MaxOpen = 1
    RiskLimit = 25
    RiskPerTrade = 10
    Margin = 2000
    Wallets = {10000}
    Fills = {100}
    EmergencyRisk = 1500
    MaxLostAnswers = 0
INVARIANTS
    OpenRowsCapped
CHECK_DEADLOCK FALSE
