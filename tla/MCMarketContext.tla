-------------------------- MODULE MCMarketContext --------------------------
EXTENDS MarketContext, TLC

CONSTANTS r1, r2

FullList == {Cards, {}}
Twins == Permutations(Runners)
=============================================================================
