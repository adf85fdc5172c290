----------------------------- MODULE MCStreams -----------------------------
EXTENDS MarketStream
=============================================================================
