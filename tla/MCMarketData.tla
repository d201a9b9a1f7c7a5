----------------------------- MODULE MCMarketData -----------------------------
EXTENDS MarketData, TLC
CONSTANTS live1, live2
MCSymbolOf == (live1 :> "BTC") @@ (live2 :> "ETH")
=============================================================================
