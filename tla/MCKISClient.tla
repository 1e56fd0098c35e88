---------------------------- MODULE MCKISClient ----------------------------
EXTENDS KISClient

CONSTANTS t1, t2
=============================================================================
