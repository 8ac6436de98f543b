---------------------------- MODULE PortfolioMC ----------------------------
EXTENDS Portfolio

CONSTANTS btc, eth, xrp, alt_bot, btc_bot

\* The BTC process trades one asset, the alt process two.
Trader == [a \in Assets |-> IF a = btc THEN btc_bot ELSE alt_bot]
Shares == [a \in Assets |-> IF a = btc THEN 3 ELSE IF a = eth THEN 2 ELSE 1]
=============================================================================
