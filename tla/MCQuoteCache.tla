---------------------------- MODULE MCQuoteCache ----------------------------
EXTENDS QuoteCache

CONSTANTS t1, t2
=============================================================================
